---------------------------- MODULE ObliviousMap ----------------------------
(***************************************************************************)
(* The contract of oblivious_map as the callers see it: run_server and     *)
(* run_client are called once for each job, neither returns before both    *)
(* have been called for it, and run_client returns the answer.             *)
(***************************************************************************)
EXTENDS MapJobs

VARIABLES
  job,       \* job[n]: the n-th job
  called,    \* called[p]: jobs party p has called its run method for
  returned,  \* returned[p]: jobs it has returned from
  out        \* the client's outputs

vars == <<job, called, returned, out>>

Parties == {"server", "client"}

Init ==
  /\ job \in [1 .. NumRuns -> Jobs]
  /\ called = [p \in Parties |-> 0]
  /\ returned = [p \in Parties |-> 0]
  /\ out = <<>>

Call(p) ==
  /\ called[p] = returned[p]
  /\ called[p] < NumRuns
  /\ called' = [called EXCEPT ![p] = @ + 1]
  /\ UNCHANGED <<job, returned, out>>

CanReturn(p) ==
  /\ returned[p] < called[p]
  /\ \A q \in Parties : returned[p] < called[q]

Return(p) ==
  /\ CanReturn(p)
  /\ returned' = [returned EXCEPT ![p] = @ + 1]
  /\ out' = IF p = "client" THEN Append(out, Answer(job[called[p]])) ELSE out
  /\ UNCHANGED <<job, called>>

Next == \E p \in Parties : Call(p) \/ Return(p)

Safe == Init /\ [][Next]_vars
Fairness == \A p \in Parties : WF_vars(Call(p) \/ Return(p))
Spec == Safe /\ Fairness
=============================================================================
