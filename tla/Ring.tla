-------------------------------- MODULE Ring --------------------------------
(***************************************************************************)
(* The type T of the matrix entries.  The protocols only add, subtract and *)
(* multiply, so all they may rely on is that T is an abelian group with a  *)
(* product that distributes over it.  std::uint64_t is the integers modulo *)
(* 2^64; a block of a matrix is such a T as well.                          *)
(***************************************************************************)
CONSTANTS
  T,            \* the values
  Zero,
  Plus(_, _),
  Minus(_, _),
  Times(_, _)

ASSUME RingClosed ==
  /\ Zero \in T
  /\ \A a, b \in T : /\ Plus(a, b) \in T
                     /\ Minus(a, b) \in T
                     /\ Times(a, b) \in T

ASSUME RingGroup ==
  /\ \A a \in T : Plus(a, Zero) = a
  /\ \A a, b \in T : Plus(a, b) = Plus(b, a)
  /\ \A a, b, c \in T : Plus(Plus(a, b), c) = Plus(a, Plus(b, c))
  /\ \A a, b \in T : Plus(Minus(a, b), b) = a
  /\ \A a, b \in T : Minus(Plus(a, b), b) = a

ASSUME RingDistributes ==
  \A a, b, c \in T :
    /\ Times(a, Plus(b, c)) = Plus(Times(a, b), Times(a, c))
    /\ Times(Plus(a, b), c) = Plus(Times(a, c), Times(b, c))

(* Two additive shares and the value they stand for.                       *)
Reveal(a, b) == Plus(a, b)
=============================================================================
