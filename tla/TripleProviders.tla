-------------------------- MODULE TripleProviders --------------------------
(***************************************************************************)
(* The two triple providers, either of which a multiplication may be given.*)
(* provider says which of them the parties have; the variables of the other*)
(* one are not used.                                                       *)
(***************************************************************************)
EXTENDS FakeTripleProvider

CONSTANTS
  OTNum,                         \* argument of Precompute of the OT provider
  Width, URows, VBlocks, Pads    \* those of the OT provider

VARIABLES
  provider,                              \* which of them it is
  pc, U, V, assign, at, G, R, taken, last   \* those of the OT provider

OT == INSTANCE OTTripleProvider WITH num <- OTNum

fakevars == <<rng, calls, got>>
otvars == <<pc, U, V, assign, at, G, R, taken, last>>

PInit ==
  \/ /\ provider = "fake" /\ Init
     /\ pc = <<>> /\ U = <<>> /\ V = <<>> /\ assign = <<>> /\ at = <<>>
     /\ G = <<>> /\ R = <<>> /\ taken = [r \in Roles |-> 0] /\ last = <<>>
  \/ provider = "OT" /\ OT!Init /\ rng = <<>> /\ calls = <<>> /\ got = [r \in Roles |-> <<>>]

OfFake(step) == provider = "fake" /\ step /\ UNCHANGED <<otvars, provider>>
OfOT(step) == provider = "OT" /\ step /\ UNCHANGED <<fakevars, provider>>

PNext == OfFake(Next) \/ OfOT(OT!Next)

pvars == <<vars, otvars, provider>>

(* The fairness of the two specifications.                                 *)
PFairness ==
  /\ WF_pvars(OfOT(OT!Cot))
  /\ \A r \in Roles :
       /\ WF_pvars(OfFake(PrecomputeStep(r) \/ PrecomputeReturn(r)))
       /\ WF_pvars(OfFake(GetTriple(r)))
       /\ WF_pvars(OfOT(OT!Precompute(r)))
       /\ WF_pvars(OfOT(OT!GetTriple(r)))

PSpec == PInit /\ [][PNext]_pvars /\ PFairness

-----------------------------------------------------------------------------
(* Every variable of the provider has its type.                            *)
ProviderTypeOK == IF provider = "fake" THEN TypeOK ELSE OT!TypeOK

(* ot_triple_provider.tpp: the k-th triples of the two parties fit.        *)
OTTriplesFit == provider = "OT" => OT!TriplesFit

(* Every triple either provider is asked for is made and handed over: no   *)
(* queue, channel or pair of threads stops the parties for good.           *)
AllHandedOver ==
  (provider = "fake" => AllDelivered) /\ (provider = "OT" => OT!AllTaken)
=============================================================================
