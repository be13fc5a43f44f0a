-------------------------------- MODULE SGD --------------------------------
(***************************************************************************)
(* Gradient descent on two halves of a data set (experiments/sgd/sgd.cpp)  *)
(* with the sigmoid circuit (applications/sgd/sigmoid.oc).  The parties    *)
(* take turns with a batch of their rows; each keeps the loop's variables  *)
(* for itself.  Products are as the contracts of the multiplications have  *)
(* it, dense or sparse: an additive share for each party.  A row, and with *)
(* it the model, has one entry (m = 1), a fixed-point word.                *)
(***************************************************************************)
EXTENDS Integers, Sequences

CONSTANTS
  Width,       \* bits of a word, the C++ T
  precision,   \* of these, bits after the point
  Cases,       \* the options: records of l, batch_size and num_epochs
  Data,        \* Data[q][x]: row x of the half that is party q's
  Labels,      \* Labels[q]: the label of all its rows
  Models,      \* what an uninitialised model may hold
  Role0Shares, \* what role 0's share of a product may be
  Masks        \* what the client of the circuit may draw

SGDParties == {0, 1}

(* 1 << b; the last of them is the number of words.                        *)
Power[b \in 0 .. Width] == IF b = 0 THEN 1 ELSE 2 * Power[b - 1]
UInt == 0 .. Power[Width] - 1
Word(a) == a % Power[Width]
Opened(a, b) == Word(a + b)

ASSUME SGDAssumption ==
  /\ Width \in Nat /\ precision \in 1 .. Width - 1
  /\ Cases \subseteq [l : Nat \ {0}, batch_size : Nat \ {0}, num_epochs : Nat \ {0}]
  /\ \A q \in SGDParties, c \in Cases : Data[q] \in Seq(UInt) /\ c.l \div 2 <= Len(Data[q])
  /\ Labels \in [SGDParties -> UInt]
  /\ Models \subseteq UInt /\ Role0Shares \subseteq UInt /\ Masks \subseteq UInt

VARIABLES
  conf,          \* the options
  at,            \* at[p]: where party p is
  epoch,         \* epoch[p], active_party[p], row_index[p], done[p]: its
  active_party,  \*   variables of the loops
  row_index,
  done,
  this_batch_size,
  model,         \* model[p]: its share
  activations,   \* activations[p]: its shares for the rows of the batch
  gradient,      \* gradient[p]: its share
  raw,           \* history: the activations before they are rescaled,
  scaled, fed,   \*   after it, and what each party feeds into the circuit
  uses           \* history: uses[q][x]: batches that row x of party q was in

loopvars == <<epoch, active_party, row_index, done, this_batch_size>>
sgdvars == <<conf, at, loopvars, model, activations, gradient, raw, scaled, fed, uses>>

Half == conf.l \div 2
BatchRows == 1 .. this_batch_size[0]
NoBatch == [p \in SGDParties |-> <<>>]

SGDInit ==
  /\ conf \in Cases
  /\ at = [p \in SGDParties |-> "batch"]
  /\ epoch = [p \in SGDParties |-> 0]
  /\ active_party = [p \in SGDParties |-> 0]
  /\ row_index = [p \in SGDParties |-> [q \in SGDParties |-> 0]]
  /\ done = [p \in SGDParties |-> [q \in SGDParties |-> FALSE]]
  /\ this_batch_size = [p \in SGDParties |-> 0]
  /\ model \in [SGDParties -> Models]
  /\ gradient = [p \in SGDParties |-> 0]
  /\ activations = NoBatch /\ raw = NoBatch /\ scaled = NoBatch /\ fed = NoBatch
  /\ uses = [q \in SGDParties |-> [x \in 1 .. Half |-> 0]]

Goto(p, to) == at' = [at EXCEPT ![p] = to]
Both(from, to) == /\ \A p \in SGDParties : at[p] = from
                  /\ at' = [p \in SGDParties |-> to]

(* The loop over batches; fault: it goes on while either party has rows.   *)
GoesOnForEither(p) == ~done[p][0] \/ ~done[p][1]
GoesOn(p) == ~done[p][0] /\ ~done[p][1]

(* The size of the next batch; fault: the last one is as long as the rest. *)
ThisBatchSizeUncut(p) == conf.batch_size
ThisBatchSize(p) ==
  LET left == Half - row_index[p][active_party[p]]
  IN  IF conf.batch_size > left THEN left ELSE conf.batch_size

NextBatch(p) ==
  /\ at[p] = "batch" /\ GoesOn(p)
  /\ this_batch_size' = [this_batch_size EXCEPT ![p] = ThisBatchSize(p)]
  /\ Goto(p, "forward")
  /\ UNCHANGED <<conf, epoch, active_party, row_index, done, model, activations,
                 gradient, raw, scaled, fed, uses>>

NextEpoch(p) ==
  /\ at[p] = "batch" /\ ~GoesOn(p)
  /\ IF epoch[p] + 1 < conf.num_epochs
       THEN /\ epoch' = [epoch EXCEPT ![p] = @ + 1]
            /\ active_party' = [active_party EXCEPT ![p] = 0]
            /\ row_index' = [row_index EXCEPT ![p] = [q \in SGDParties |-> 0]]
            /\ done' = [done EXCEPT ![p] = [q \in SGDParties |-> FALSE]]
            /\ at' = at
       ELSE Goto(p, "done") /\ UNCHANGED <<epoch, active_party, row_index, done>>
  /\ UNCHANGED <<conf, this_batch_size, model, activations, gradient, raw, scaled, fed, uses>>

(* A protocol both parties have entered with the same batch.               *)
Meet(from, to) ==
  /\ Both(from, to)
  /\ active_party[0] = active_party[1] /\ row_index[0] = row_index[1]
  /\ this_batch_size[0] = this_batch_size[1]

Active == active_party[0]
RowNo(x) == row_index[0][Active] + x

(* The shares of a product v: the passive party is role 0 and gets s; the  *)
(* active one adds the whole product to its share.                         *)
Halves(v, s) == [p \in SGDParties |-> IF p = Active THEN Word(v - s + v) ELSE s]

(* A share divided as an unsigned word; fault: as a signed one.            *)
RescaledSigned(a) ==
  IF a < Power[Width - 1] THEN a \div Power[precision]
  ELSE Word(-((Power[Width] - a) \div Power[precision]))
Rescaled(a) == a \div Power[precision]

(* The rows of the batch, which both parties have, times the active one's  *)
(* model; then each party divides its share.                               *)
Forward ==
  /\ Meet("forward", "sigmoid")
  /\ \E s \in [BatchRows -> Role0Shares] :
       LET of(x) == Halves(Data[Active][RowNo(x)] * model[Active], s[x])
       IN  raw' = [p \in SGDParties |-> [x \in BatchRows |-> of(x)[p]]]
  /\ scaled' = [p \in SGDParties |-> [x \in BatchRows |-> Rescaled(raw'[p][x])]]
  /\ activations' = scaled'
  /\ uses' = [uses EXCEPT ![Active] =
                [y \in 1 .. Half |->
                   IF \E x \in BatchRows : y = RowNo(x) THEN @[y] + 1 ELSE @[y]]]
  /\ UNCHANGED <<conf, loopvars, model, gradient, fed>>

(* The circuit on a word v: half is 1/2, and the sign bit of v + half      *)
(* decides first.  Fault: nothing is cut at 1.                             *)
SigUncut(v) ==
  LET v_plus_half == Word(v + Power[precision - 1])
  IN  IF v_plus_half >= Power[Width - 1] THEN 0 ELSE v_plus_half
Sig(v) ==
  LET half == Power[precision - 1]
      v_plus_half == Word(v + half)
      less == v >= Power[Width - 1] \/ v < half
  IN  IF v_plus_half >= Power[Width - 1] THEN 0
      ELSE IF less THEN v_plus_half ELSE Power[precision]

(* Party 1, the client, draws its share r of the result into the output    *)
(* buffer, which is its input buffer as well, and feeds both.              *)
Sigmoid ==
  /\ Meet("sigmoid", "labels")
  /\ \E r \in [BatchRows -> Masks] :
       /\ fed' = [activations EXCEPT ![1] = r]
       /\ activations' =
            [p \in SGDParties |-> IF p = 1 THEN r
               ELSE [x \in BatchRows |-> Word(Sig(Opened(fed'[0][x], fed'[1][x])) - r[x])]]
  /\ UNCHANGED <<conf, loopvars, model, gradient, raw, scaled, uses>>

SubtractLabels(p) ==
  /\ at[p] = "labels"
  /\ activations' =
       IF active_party[p] # p THEN activations
       ELSE [activations EXCEPT ![p] = [x \in DOMAIN @ |-> Word(@[x] - Labels[p])]]
  /\ Goto(p, "backward")
  /\ UNCHANGED <<conf, loopvars, model, gradient, raw, scaled, fed, uses>>

(* The transposed rows of the batch times the active one's activations.    *)
Backward ==
  /\ Meet("backward", "update")
  /\ \E s \in Role0Shares :
       LET of(x) == Data[Active][RowNo(x)] * activations[Active][x]
           v[n \in 0 .. this_batch_size[0]] == IF n = 0 THEN 0 ELSE v[n - 1] + of(n)
       IN  gradient' = Halves(v[this_batch_size[0]], s)
  /\ UNCHANGED <<conf, loopvars, model, activations, raw, scaled, fed, uses>>

(* All rows of the active party are used; fault: tested before the batch   *)
(* is counted.                                                             *)
AllUsedBefore(p) == row_index[p][active_party[p]] = Half
AllUsed(p) == row_index'[p][active_party[p]] = Half

(* The gradient is divided, which the empty batch of l = 1 does not        *)
(* survive, and added; the other party is next if it has rows left.        *)
Update(p) ==
  LET n == this_batch_size[p]
      a == active_party[p]
  IN  /\ at[p] = "update" /\ n # 0
      /\ gradient' = [gradient EXCEPT ![p] = Rescaled(@ \div n)]
      /\ model' = [model EXCEPT ![p] = Word(@ + gradient'[p])]
      /\ row_index' = [row_index EXCEPT ![p][a] = @ + n]
      /\ done' = [done EXCEPT ![p][a] = @ \/ AllUsed(p)]
      /\ active_party' = [active_party EXCEPT ![p] = IF done'[p][1 - a] THEN a ELSE 1 - a]
      /\ Goto(p, "batch")
      /\ UNCHANGED <<conf, epoch, this_batch_size, activations, raw, scaled, fed, uses>>

Crash(p) ==
  /\ at[p] = "update" /\ this_batch_size[p] = 0
  /\ Goto(p, "crashed")
  /\ UNCHANGED <<conf, loopvars, model, activations, gradient, raw, scaled, fed, uses>>

Party(p) == NextBatch(p) \/ NextEpoch(p) \/ SubtractLabels(p) \/ Update(p) \/ Crash(p)
Protocol == Forward \/ Sigmoid \/ Backward
SGDNext == Protocol \/ \E p \in SGDParties : Party(p)

SGDFairness == WF_sgdvars(Protocol) /\ \A p \in SGDParties : WF_sgdvars(Party(p))

SGDSpec == SGDInit /\ [][SGDNext]_sgdvars /\ SGDFairness

-----------------------------------------------------------------------------
(* Every variable has its type, and no batch goes beyond the party's rows. *)
SGDTypeOK ==
  /\ conf \in Cases
  /\ at \in [SGDParties -> {"batch", "forward", "sigmoid", "labels", "backward", "update",
                            "done", "crashed"}]
  /\ epoch \in [SGDParties -> 0 .. conf.num_epochs - 1]
  /\ active_party \in [SGDParties -> SGDParties]
  /\ row_index \in [SGDParties -> [SGDParties -> 0 .. Half]]
  /\ done \in [SGDParties -> [SGDParties -> BOOLEAN]]
  /\ this_batch_size \in [SGDParties -> 0 .. conf.batch_size]
  /\ \A p \in SGDParties : at[p] \in {"forward", "sigmoid", "labels", "backward", "update"} =>
       row_index[p][active_party[p]] + this_batch_size[p] <= Half
  /\ model \in [SGDParties -> UInt] /\ gradient \in [SGDParties -> UInt]
  /\ {activations, raw, scaled, fed} \subseteq [SGDParties -> Seq(UInt)]
  /\ uses \in [SGDParties -> [1 .. Half -> 0 .. conf.num_epochs]]

(* sgd.cpp:208-215: an epoch ends with the last batch of party 0, so every *)
(* row of party 0 was in one batch, and those of party 1's last batch in   *)
(* none, in any epoch and whatever the size of the last batch.             *)
EpochUses ==
  \A p \in SGDParties :
    at[p] \in {"batch", "done"} /\ (done[p][0] \/ done[p][1]) =>
      LET last == IF Half % conf.batch_size = 0 THEN conf.batch_size
                                                ELSE Half % conf.batch_size
      IN  uses = [q \in SGDParties |-> [x \in 1 .. Half |->
                    IF q = 0 \/ x <= Half - last THEN epoch[p] + 1 ELSE 0]]

(* sgd.cpp:266: of the activations v the divided shares are shares of v    *)
(* over 2^precision, or one unit less, if the shares of v have not wrapped *)
(* around; if they have, they are off by 2^(Width - precision) more.       *)
RescaledShares ==
  \A x \in DOMAIN scaled[0] :
    LET v == Opened(raw[0][x], raw[1][x])
        wrapped == IF raw[0][x] > v THEN Power[Width - precision] ELSE 0
        off == scaled[0][x] + scaled[1][x] - (v \div Power[precision]) - wrapped
    IN  off \in {-1, 0}

(* sigmoid.oc:49-60: the result is shares of the piecewise linear function *)
(* of the sum v of what was fed, as a signed word: 0 below -1/2, v + 1/2   *)
(* up to 1/2, 1 above it; but 0 where v + 1/2 overflows.                   *)
Piecewise(v) ==
  LET half == Power[precision - 1]
      signed == IF v < Power[Width - 1] THEN v ELSE v - Power[Width]
  IN  IF signed < -half \/ signed + half >= Power[Width - 1] THEN 0
      ELSE IF signed <= half THEN signed + half ELSE 2 * half
IsSigmoidOf(words) ==
  (\A p \in SGDParties : at[p] = "labels") =>
    \A x \in BatchRows : Opened(activations[0][x], activations[1][x])
                       = Piecewise(Opened(words[0][x], words[1][x]))
SigmoidOfFed == IsSigmoidOf(fed)

(* sigmoid.oc:18-62 shares the sigmoid of the activations both parties     *)
(* pass in.  It does not: what party 1 feeds is its mask.                  *)
SigmoidOfActivations == IsSigmoidOf(scaled)

(* Both parties come to the end of the training, or, with one document,    *)
(* to a division by zero.                                                  *)
TrainingEnds ==
  <>(\A p \in SGDParties : at[p] = IF Half = 0 THEN "crashed" ELSE "done")
=============================================================================
