------------------------------ MODULE Triples ------------------------------
(* Multiplication triples for A of some rows and B of one block: what the  *)
(* providers promise and the multiplications rely on.                      *)
EXTENDS Ring, Integers

CONSTANT rows   \* first dimension of the triples

ASSUME TriplesParameters == rows \in Nat

Roles == {0, 1}
TripleRows == 1 .. rows
TripleType == [U : [TripleRows -> T], V : T, Z : [TripleRows -> T]]

ZeroRows == [j \in TripleRows |-> Zero]
PlusRows(X, Y) == [j \in TripleRows |-> Plus(X[j], Y[j])]
MinusRows(X, Y) == [j \in TripleRows |-> Minus(X[j], Y[j])]
TimesRows(X, v) == [j \in TripleRows |-> Times(X[j], v)]

(* t and u, of roles 0 and 1, are shares of U, V and Z with UV = Z.  Unless*)
(* both factors are shared, role 0 alone has U and role 1 alone has V.     *)
IsTriple(is_shared, t, u) ==
  /\ TimesRows(PlusRows(t.U, u.U), Plus(t.V, u.V)) = PlusRows(t.Z, u.Z)
  /\ ~is_shared => t.V = Zero /\ u.U = ZeroRows
=============================================================================
