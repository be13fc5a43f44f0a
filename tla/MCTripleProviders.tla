------------------------- MODULE MCTripleProviders -------------------------
(* Both triple providers: two-bit words, three rows (the last has no       *)
(* partner in its COTs), a queue for one triple; four triples of the fake  *)
(* provider in two calls, three of the OT provider.  The generator's draws *)
(* differ in sign and parity.                                              *)
EXTENDS TripleProviders

MCPlus(a, b) == (a + b) % 4
MCMinus(a, b) == (a - b) % 4
MCTimes(a, b) == (a * b) % 4
MCStream == [k \in Nat |-> (k * k + (k \div 3) + 1) % 4]
MCURows == {<<1, 2, 3>>, <<3, 1, 0>>}
MCPads == {<<3, 1>>}

ASSUME OTAssumption == OT!OTParameters
=============================================================================
