----------------------------- MODULE MCColsRows -----------------------------
(* Two-bit integers, an inner dimension of three: the two parties have no, *)
(* some or all nonzero indices in common, and k is passed exactly, loosely,*)
(* not at all, or smaller than the number of indices of the server.        *)
EXTENDS ColsRows, TLC

MCPlus(a, b) == (a + b) % 4
MCMinus(a, b) == (a - b) % 4
MCTimes(a, b) == (a * b) % 4
Matrix(a, b, c) == (0 :> a) @@ (1 :> b) @@ (2 :> c)
MCAs == {Matrix(1, 3, 0), Matrix(0, 0, 3), Matrix(0, 0, 0)}
MCBs == {Matrix(2, 1, 0), Matrix(0, 3, 0), Matrix(1, 0, 3)}
MCKs == {<<-1, -1>>, <<2, -1>>, <<-1, 2>>, <<3, 2>>, <<0, 1>>}
=============================================================================
