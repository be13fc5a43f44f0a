-------------------------- MODULE FakeTripleDraws --------------------------
(* What one turn of FakeTripleProvider's Precompute makes of the draws of  *)
(* its generator.                                                          *)
EXTENDS Triples

CONSTANTS
  Stream,      \* what mt19937 yields for the seed 12345, draw by draw
  is_shared    \* whether both parties contribute to both factors

(* Draws made for one triple.                                              *)
Draws == IF is_shared THEN 3 * rows + 2 ELSE 2 * rows + 1

(* A draw fills one block, and a matrix is drawn row by row.               *)
Draw(from) == [j \in TripleRows |-> Stream[from + j]]

(* Fault: role 1 keeps the V that it shares with role 0.                   *)
TripleAtUnmasked(role, from) ==
  LET U == Draw(from)
      V == Stream[from + rows + 1]
      Z_mask == Draw(from + rows + 1)
      U_mask == Draw(from + 2 * rows + 1)
  IN  IF role = 0
        THEN [U |-> MinusRows(U, U_mask), V |-> Stream[from + 3 * rows + 2], Z |-> Z_mask]
        ELSE [U |-> U_mask, V |-> V, Z |-> MinusRows(TimesRows(U, V), Z_mask)]

(* One turn of the loop of Precompute, with the generator at from: U, V and*)
(* Z_mask are drawn, and the masks of the factors only if they are shared. *)
TripleAt(role, from) ==
  LET U == Draw(from)
      V == Stream[from + rows + 1]
      Z_mask == Draw(from + rows + 1)
      U_mask == IF is_shared THEN Draw(from + 2 * rows + 1) ELSE ZeroRows
      V_mask == IF is_shared THEN Stream[from + 3 * rows + 2] ELSE Zero
  IN  IF role = 0
        THEN [U |-> MinusRows(U, U_mask), V |-> V_mask, Z |-> Z_mask]
        ELSE [U |-> U_mask, V |-> Minus(V, V_mask),
              Z |-> MinusRows(TimesRows(U, V), Z_mask)]
=============================================================================
