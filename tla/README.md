# Verification of room-framework in TLA+

`src/sparse_linear_algebra` is a library for two-party computation on sparse
data: two parties, called role 0 and role 1 (or server and client), multiply
matrices and look up values in each other's maps without showing them to each
other. Every operation is a pair of functions, one for each party, which run in
different processes and exchange untagged messages over one ordered channel;
the results are additive shares, correct only if both sides are taken together.
That is where these models are of use: the correctness of a line in one party's
function depends on a line in the other's, on the interleaving of up to two
threads per party, and on what earlier calls left behind in objects and
channels.

The models say what a run of the protocol *computes and sends*, when both
parties follow the code. They do not say what a party may learn from it.

## 1. Inventory

| Component (`src/sparse_linear_algebra/`) | State | Operations | Hard behaviour | Correct means |
|---|---|---|---|---|
| **Blocking queue** `util/blocking_queue.hpp` | deque, mutex, two condition variables, capacity | `push`, `pop` | threads between test, wait and notification; notification after the unlock; spurious wake-ups | FIFO, capacity kept, no lost wake-up, every call that can be served is |
| **Triple provider, contract** `matrix_multiplication/offline/triple_provider.hpp` | | `GetTriple`, `Precompute` | | the k-th triples of the two parties are shares of U, V and UV |
| **Fake triple provider** `offline/fake_triple_provider.*`, `util/randomize_matrix.hpp` | generator, queue | `Precompute(num)`, `GetTriple` | the parties never talk: agreement is by number of draws | contract of triples; no draw used twice |
| **OT triple provider** `offline/ot_triple_provider.*` | queue, OT channel, pad words | `Precompute`, `GilboaProduct`, `GetTriple` | two threads per party coupled by queues and channels; packing of two rows in a transfer; role swap; wrap-around | contract of triples; never both parties stuck |
| **Dense multiplication** `matrix_multiplication/dense.hpp` | local matrices | one function with a loop over chunks, two exchanges per chunk | order of untagged messages, last chunk, early exception | shares of AB; channel left clean; both return |
| **Rows-dense** `matrix_multiplication/rows-dense.hpp` | index set, shares | one function: agree on `k_A`, multiply, spread the rows | three protocols one after another on a channel, early return | shares of AB with every row in its place |
| **Zero sharing** `zero_sharing/*` | key shares, share of long vector | `zero_sharing_server`, `zero_sharing_client` | sort and unsort of places, two layers of keys | the shares add up to v at its places and 0 elsewhere |
| **Cols-rows** `matrix_multiplication/cols-rows.hpp`, `sparse_common.hpp` | index sets, permutation | one function: exchange k, map indices obliviously, multiply | who serves is decided by both parties separately; padding with a key of -1, repeated; a k that is only a bound | positions agree exactly on common indices; shares of AB |
| **Cols-dense** `matrix_multiplication/cols-dense.hpp` | index list, share of rows of B | one function: agree on `k_A`, look up rows of B, shared; multiply shares | the map between two untagged exchanges; it relies on the order of the map's defaults; a `k_A` nobody compares | shares of AB in any order of the columns, whichever map |
| **Oblivious map, contract** `oblivious_map/oblivious_map.*` | | `run_server`, `run_client` | | `client_out[i] = server_in[client_in[i]]`, or `defaults[i]` |
| **Basic map** `oblivious_map/basic_oblivious_map.*` | server: cipher key kept between runs | as above | growing of the vector by arrival order of keys; reuse of the objects | the contract |
| **Poly map** `oblivious_map/poly_oblivious_map.*` | cipher key, a nonce at *each* party | as above | nonces are never sent | the contract; no counter used twice |
| **Sorting map** `oblivious_map/sorting_oblivious_map.*` | | as above | a circuit that exchanges ownership between neighbours, then shuffles; keys that are repeated, or negative in a circuit that compares unsigned | the contract; the code keeps it for keys in ascending order, otherwise with the default of a key's rank (finding 2) |
| **k nearest neighbours** `applications/knn/*` | number of words, leftover triples, slots | constructor, `run`, `computeSimilarities`, `topK` | batches computed separately by both parties; long insertion sequence | same documents at both parties, in order, nearest first |
| **Sigmoid circuit** `applications/sgd/*` | input and output buffers of the caller | `sigmoid_oblivc` | order of filling and feeding the buffers; signed fixed point | shares of the piecewise linear function of the shared input |
| **Gradient descent** `experiments/sgd/sgd.cpp` | model and gradient shares, loop variables at each party | loops over epochs and batches: forward, sigmoid, labels, backward, update | both parties go through the loops separately; an uneven last batch; division of shares | rows used as intended; both parties end together |
| **Other experiments** `experiments/*` | | command-line drivers | | |
| **Utilities** `util/*` | | sampling, serialisation, option pairs, clock | | |

How they interact:

- `cols_rows`, `cols_dense` call an *oblivious map* and then `dense`;
  `rows_dense` calls `dense` and then *zero sharing*; `knn` calls one of the
  multiplications for each batch, and gradient descent two of them and the
  sigmoid circuit.
- `dense` takes one triple per chunk from a *triple provider*, which hands it
  over from a thread running `Precompute` through a *blocking queue*.
- Between the parties there is one channel in each direction (mpc-utils'
  `comm_channel`: ordered, reliable, `send` buffers, `recv` waits) and, for the
  OT provider, another. Garbled circuits (Obliv-C) and oblivious transfers (EMP)
  run over the same channel; neither party leaves one before the other has entered it.

No component persists anything, retries, or has a timeout: there is no crash
recovery or lost message to model. Exceptions end the program.

Every place where something can go wrong that a test would hardly reach is
listed with its line under `hazards` in `PROJECT.json`, with the properties that
cover it or the reason why none does.

## 2. Modules

`M.tla` is a specification; `MCM.tla` gives it a small instance for TLC and
`*.cfg` its constants. `TripleProviders` and `Multiplications` (and, for TLC only,
`MCCipherMaps`) put several specifications into one: a variable says which of them
the two parties have called, and each initial state and step is one of that
specification. The callers of the dense protocol share its variables and instance.

| Module | Models | State and actions |
|---|---|---|
| `BoundedFifo` | what callers of the queue rely on | a sequence; each call takes effect at one step between call and return |
| `BlockingQueue` | `blocking_queue.hpp` | `queue`, `mutex`, `pc`; an action for each piece of `push`/`pop` between two points where another thread can run: call, acquire, test-and-wait, store or take with unlock, notify, wake (asked for or spurious) |
| `Ring` | `T`, the type of matrix entries | axioms only: abelian group with a distributive product; `uint64_t` is one |
| `Triples` | `triple_provider.hpp` | `IsTriple(is_shared, t, u)`: the contract of the k-th triples |
| `FakeTripleDraws`, `FakeTripleProvider` | `fake_triple_provider.tpp` | generator position `rng`, `queue`, loop counter; a turn of `Precompute`'s loop, its return, `GetTriple` |
| `OTTripleProvider` | `ot_triple_provider.tpp` | for each party the thread in `Precompute` (position in product, column, bit, packed rows) and the one in `GetTriple`; a correlated OT is a joint step |
| `DenseMultiplication` | `dense.hpp` | per party the control point, chunk, masks and shares; two channels; a `Precompute` thread that supplies triples; with `is_shared` or without |
| `ZeroSharing` | `zero_sharing.hpp`, `.oc` | steps of each party from the client's draws to the shares, with the messages of the oblivious transfers and of the circuit; keys and ciphertexts are records |
| `RowsDense` | `rows-dense.hpp` | composes `DenseMultiplication` (EXTENDS) and `ZeroSharing` (INSTANCE) with the exchange of `k_A` before them; all three on one channel, and one party may be in the zero sharing while the other still multiplies |
| `ColsDense` | `cols-dense.hpp` | composes `DenseMultiplication` (EXTENDS) with the exchange of `k_A` and, between them, an oblivious map with shared output: `prot` says which of the three, each with its own messages and with the answers *it* gives, not those the contract promises |
| `TripleProviders` | either provider | `provider` says which; its steps are those of `FakeTripleProvider` (EXTENDS) or `OTTripleProvider` (INSTANCE) |
| `Multiplications` | who calls `dense` | `caller` says which function the parties have called; its steps are those of `DenseMultiplication`, `ColsDense` (EXTENDS) or `RowsDense` (INSTANCE) |
| `ColsRows` | `cols-rows.hpp`, `sparse_common.hpp` | exchange of k, permutation, map, copy, product; `prot` says which map, `Promised` whether the call is within what that map promises. If it is not, the behaviour ends in `unpromised` |
| `MapJobs`, `ObliviousMap` | `oblivious_map.hpp` | a job is the arguments of a pair of runs; `ObliviousMap` is the abstract specification of a sequence of runs |
| `BasicObliviousMap`, `PolyObliviousMap`, `SortingObliviousMap` | the three implementations | an action for each piece of `run_server`/`run_client` up to a message or circuit; the circuit is a joint step (the sorting map's goes through its loop step by step, for any keys: `KeysBeyond` is what is read beyond the end of a map with fewer keys than were passed) |
| `KNNProtocol` | `knn_protocol.cpp`, `top_k.oc` | constructor exchange, batches, one turn of the circuit's loop per document |
| `SGD` | `experiments/sgd/sgd.cpp`, `sigmoid.oc` | each party's loop variables and shares; local steps for batches, labels and update, joint steps for the two products (by contract) and the circuit |
| `BlockingQueueProofs`, `TripleProviderProofs`, `MultiplicationProofs`, `BasicObliviousMapProofs`, `PolyObliviousMapProofs`, `SortingObliviousMapProofs`, `ColsRowsProofs`, `ApplicationProofs` | | theorems about the module each is named after, and about the specifications that module puts together; `ApplicationProofs` is about `KNNProtocol` and `SGD` (section 5) |

The exact lines each definition stands for are under `map` in `PROJECT.json`.

Conventions. A definition whose comment says *Fault* is not part of a
specification: it is a variant of the definition below it with a plausible
mistake (a dropped guard, a missing reset, an exchange of order). Substituting
it must make TLC report the property named in `mutants`; this is how each
property is known to say something about the code. Variables marked *history*
record what happened and are read by properties only.

What the abstractions are:

- A matrix is a vector of *blocks*. The protocols only add, subtract, multiply
  and reorder rows, so a row (or an inner matrix) is one element of the ring
  `T`. In the runs `T` is the integers mod 4, or pairs of them: wrap-around, zero divisors and
  sign all occur. Where a negation must be reduced to the word (`sorting`, `zero
  sharing`, `ot`), the type invariant is what would notice.
- Cryptography is symbolic. A ciphertext is a record of key, counter and plain
  text; with the wrong key or counter it decrypts to *any* value of `T` (one value for
  all the wrong ciphertexts of a step), and never with valid padding (the probability of
  the contrary is negligible). The polynomial of the poly map is its set of points and an unrelated value elsewhere.
  Triple masks and client shares are chosen from given sets.
- Keys are integers: a server's are in `Nat`, a client's may be negative and may repeat
  (`cols_rows` pads with -1). `BasicObliviousMap` and `PolyObliviousMap` find no pair for
  such a key; `SortingObliviousMap` sorts it as a signed number and compares it as an
  unsigned one, as the code does.
- There is one untagged channel to each party r. In the models of composed protocols it
  is written as consecutive sections: `front[r]` (`k_A`, the map's vector or polynomial,
  the map's circuit) before `chan[r]` (the dense protocol) in `ColsDense`, and `chan[r]`
  (`k_A` and the dense protocol) before `zchan[r]` (the zero sharing) in `RowsDense`.
  A section's messages are in front of the next section's because each party sends them
  in its program's order; that a party *reads* in the right section is not assumed but
  is `PhasesApart`. A map's transfer, a garbled circuit and a batch of oblivious
  transfers are one message each way: Obliv-C and EMP run over the same connection
  (`Connect(chan)`), and what matters here is only that a party does not finish one
  before the other has entered it, and that its messages can stand in the channel
  while the other is still in an earlier part.
- In the modules of the three maps a garbled circuit is a joint step.
- The library code around this (Eigen, mpc-utils, EMP, Obliv-C, NTL, libgcrypt) is
  modelled from its use and marked `external` in the map. Reading past the end
  of a shorter chunk (Eigen in a release build) is a nondeterministic value.

## 3. Runs

TLC checks for deadlock in no run, because every instance makes a bounded number
of calls and then rightly stops; a liveness property in each run says that it
does not stop earlier. All runs are exhaustive.

| Run | Question | Bounds and why they are enough |
|---|---|---|
| `blocking_queue` | Is the queue a FIFO under every interleaving; can a wake-up be lost; is every call served? | 2 producers, 2 consumers, 2 calls each, capacity 2, one spurious wake-up. Two sleepers on one condition and a thread overtaking a woken one need two of each; four elements make the queue fill and empty again |
| `triples` | Do triples made without communication fit, and those of the bitwise protocol; can queues and channel stop all threads? | fake: queue of 1, 2 calls of 2 triples, so the second call continues the first one's generator and the parties may be any number of triples apart (unbounded parameters: proved). OT: words of 2 bits, 3 rows (the last unpaired), queue of 1, 3 triples, so a party's producer is stopped by a full queue while the other's waits for it |
| `multiplications` | Shares of the product from `dense` alone, from `cols_dense` and from `rows_dense`; do the parts share the channel properly? | 3 rows in chunks of 2 (the last is short), factors shared (two exchanges per chunk) or not, the right or a wrong triple dimension at either party. `cols_dense`: each of the three maps, 0 to 2 of 3 columns nonzero in every order, `k_A` sent or given. `rows_dense`: 0, 2 or 3 of 4 rows nonzero in every order, `k_A` sent or given |
| `cipher_maps` | Are the nonces in step, are counters fresh, do the basic and the poly map implement their contract (the basic one apart from key 0)? | basic: 2 runs, pairs with keys 0 to 2 in every order (growing, not growing, reuse of key and objects). poly: 3 runs, so that a party can be one run ahead with an earlier run's keys come again, with the same or other values. Keys that are repeated, missing or -1 in both, and more defaults than keys in the poly map |
| `sorting_map` | Does the merge lose or duplicate a client's pair? What is answered? | 2 runs. Jobs of 2 pairs and 2 keys with none, one or both in common; one of 3 keys whose sort order is not its own inverse; one with a -1, one with -1 twice; all merges the code allows, all shuffles |
| `cols_rows` | Do both parties reach the same positions, whoever serves and whichever map; when do they return? | inner dimension 3, every overlap of index sets, all three maps, k exact, loose or missing at one or both parties, or too small for the server; all permutations |
| `knn` | Do batches fit, is the nearest document found? | 5 documents in batches of 3 (the last smaller), 2 slots, every vector of similarities over 4 values; the number of words counted or entered |
| `sgd` | Which rows are used; what is multiplied, divided and fed to the circuit; do both parties end? | words of 5 bits, 2 after the point. 6 documents in batches of 2 (the last is short), 5 in batches of 1 over two epochs, and 1 (empty halves). Masks take the sum into every piece of the function, including where v + 1/2 overflows |
| `basic_map_key_zero` | *violation*: finding 1 below | as the basic map in `cipher_maps` |
| `sorting_map_defaults` | *violation*: finding 2 below | one run, proper keys only, as in `sorting_map` |
| `knn_top_k` | *violation*: finding 3 below | as `knn` |
| `sgd_sigmoid` | *violation*: finding 4 below | as `sgd` |

What the main properties say:

- `FifoOrder`, `NoLostWakeup`, `ImplementsFifo`, `AllServed` (queue). The last two
  are refinement of `BoundedFifo` with its fairness, and that all calls return if
  as many are pushed as popped. A notification may wake a thread that then finds
  the queue empty, because the notification is sent after the unlock:
  `NoLostWakeup` says somebody awake is always responsible for what is stored.
- `TriplesFit`, `NoTripleReused`, `OTTriplesFit`, `AllHandedOver` (providers).
- `ProductShared`, `ChannelLeftClean` (dense, whoever calls it): the shares of every
  finished row add up to the product; the dense protocol has nothing in either channel
  when both have returned, and a party that throws its dimension error has sent
  nothing. It does *not* say that both channels are empty after a throw: the other
  party may have sent its first message, which stays in the thrower's channel. In
  `rows_dense` and `cols_dense` role 0 has sent `k_A` before its dense protocol can
  throw, so the run gives it triples of the right size there (role 1 may have either).
- `ProductReturned` (rows-dense, cols-dense): what the parties return are shares of
  the product of the matrices passed in, through hash-set order, map, chunks and
  zero sharing. For cols-dense under `MapKeeps`: with the poly map in any order, with
  the basic map if column 0 is not among those looked up (finding 1), with the sorting
  map if the hash set has the columns in ascending order (finding 2). The run has
  behaviours in which each of these fails as well; nothing is said of what they return.
- `PhasesApart`: `k_A`, the map's vector or polynomial, the map's circuit, the masked
  matrices, the zero sharing's oblivious transfers and its circuit are all messages on
  one channel; who reads finds the message that is due in front, and nothing is left
  in front of a later part, or when both have returned. `AllReturn`: with triples of
  the right size, both return.
- `PositionsAgree` (cols-rows): an index of A and one of B are at the same position
  if and only if they are equal, and no two indices of one party share a position. The
  dummies that pad the client's keys get a position from the map like every other key,
  but the client drops it, so the property is about indices only.
- `BasicVectorsMatchRuns` (basic), `NoncesInStep` (poly), `ClientPairsKept` (sorting).
  `CountersFresh` (poly): whenever a polynomial is sent, none of its points is encrypted
  under a key and counter that an earlier run has used, not even for the same pairs.
- `PolyImplementsMap`, `BasicImplementsMap`: refinement of `ObliviousMap`, including
  that every run returns; for the basic map of the contract up to the loss of key 0.
  `ImplementsRankedMap` (sorting): *not* the contract, which the code breaks (finding 2),
  but what the code keeps instead, for keys that are distinct and not negative: the
  default, and with a shared output the mask, is that of the key's rank. Of other jobs
  it says only that both parties return.
- `BothReturn` (cols-rows): both parties return unless the server refuses its k (then
  the client waits in the map for good) or the map is used beyond what it promises; and
  the last is the case exactly when `Beyond`, which is stated on the arguments: a
  basic map served with a loose k (it has then more defaults than the client has keys,
  and each party garbles a circuit of its own length: `basic_oblivious_map.tpp:77`,
  `:145`, `basic_oblivious_map.oc:11`, `:24`) or with its first index 0; a poly map with
  no pair or no key; a sorting map whose client has a loose k and therefore a dummy
  among its keys.
- `BatchesFit`, `SlotsDescend`, `NearestFirst` (knn).
- `EpochUses` (gradient descent): exactly which rows have been in a batch at the end
  of every epoch. `RescaledShares`: dividing both shares is off by at most one unit,
  plus 2^(Width - precision) whenever the shares wrap around. `SigmoidOfFed`: the
  circuit computes the function its comments give, of what it is *fed*, except
  where v + 1/2 overflows. `TrainingEnds`: both parties reach the end, or, with one
  document, both divide by zero.

### Fairness

Liveness assumes weak fairness of each thread's or party's next step and of each
joint step (`WF_vars(push(p))`, `WF_vars(run_server)`, `WF_vars(Cot)`, ...): an
operating system runs a thread that can run, a reliable channel delivers, and a
two-party protocol that both parties have entered completes. Nothing stronger is
needed. In the queue, a thread waiting for the mutex could be overtaken for ever
under weak fairness if others made infinitely many calls; calls are bounded
there, as every `Precompute(num)` makes `num` pushes. Spurious wake-ups happen
finitely often. A notification wakes some sleeper, chosen nondeterministically.

## 4. Findings

1. **The basic map loses key 0** (`basic_oblivious_map.tpp:35`, run
   `basic_map_key_zero`). The vector grows when `current_key > max_key`, and
   `max_key` starts at 0; a pair with key 0 before any larger key is written beyond
   the vector's end and wiped by the next resize. `oblivious_map.hpp:11-13`
   promises the value. `cols_dense` always serves key 0 first (`cols-dense.hpp:83`), and
   gradient descent gives it the basic map (`sgd.cpp:141`, `:248`): row 0 of B is lost.
2. **The sorting map answers with the wrong defaults** (`sorting_oblivious_map.oc:68`,
   run `sorting_map_defaults`). The circuit feeds the r-th default with the client's
   r-th key in ascending order. `oblivious_map.hpp:12-13` promises
   `client_out[i] = defaults[i]`. This is not harmless: with a shared output the
   defaults are the server's share, and `cols_dense` (`cols-dense.hpp:72-88`) keeps them
   in the order of the indices, which is that of a hash set; with this map
   (`matrix_multiplication.cpp:184`, `:293`) the two shares add up to rows of B only if
   that order is ascending. `cols_rows` accepts any assignment of the defaults to the
   keys, and there the order does no harm.
3. **Top-k drops displaced documents** (`top_k.oc:51`, run `knn_top_k`). A nearer
   document replaces the one in its slot, which is dropped, not moved down.
   `knn_protocol.hpp:37-38` promises the top k matches; only the first slot is
   right (`NearestFirst`), and the slots are in order (`SlotsDescend`).
4. **The sigmoid is not taken of the activations** (`experiments/sgd/sgd.cpp:286-287`, run
   `sgd_sigmoid`). The same buffer is passed as input and as output; party 1 fills
   the output with its random share of the result (`sigmoid.oc:18-23`) before it
   feeds the input (line 27), so the circuit adds a random word to party 0's share.
   The comments of `sigmoid.oc:50-62` describe the sigmoid of the sum of both
   parties' activations. With two buffers, `SigmoidOfFed` is what would remain.

Other differences between comments and code, and limits of the code that no comment
states, which the models follow the code in:

- `sorting_oblivious_map.tpp:97-102` reads as many keys from its `std::map` as the client
  passed, although repeated ones are in it once: the last are read beyond its end
  (`SortedKeys`, `KeysBeyond`). The map sorts signed keys, and the circuit compares them
  unsigned (`sorting_oblivious_map.oc:19`), so a -1 comes first in what is fed as an
  ascending half and last in the circuit's order: one dummy of `cols_rows`
  (`cols-rows.hpp:115-117`) is enough for a merge of halves that are not in order, and
  two are repeated keys. `ClientPairsKept` holds all the same; the answers need not
  be right, and `ImplementsRankedMap` excludes these jobs.
- `basic_oblivious_map.tpp:77` and `:145`: server and client take the length of the circuit
  from their own arguments. They differ if the server of `cols_rows` has a loose k, as
  in `knn`, which passes the maximum over its batches.
- `poly_oblivious_map.hpp:24-25` calls the nonce unnecessary because the key is drawn
  anew; `poly_oblivious_map.tpp:43` draws it once per object, and the nonce is what
  keeps counters apart (`CountersFresh`).
- `ot_triple_provider.hpp:50` and `.tpp:47` describe roles in `GilboaProduct` that
  the second product of a shared triple (`.tpp:79`) exchanges.
- `dense.hpp:67`: for a shorter last chunk the dimensions of the summands differ; a
  debug build of Eigen would assert, a release build reads rows it then ignores.
- `experiments/sgd/sgd.cpp:208`: the loop ends when *either* party is done, though lines
  361-366 provide for one going on alone; the last batch of party 1 is never used.
- `sgd.cpp:170` says that each party holds half of the data; both parties generate
  both halves, and lines 222 and 233 make the *passive* party role 0, with its copy
  of the active party's rows, and the active party role 1, with its share of the
  model. The active party adds the same product again (line 259), and the passive
  party's share of the model enters no product.
- `sgd.cpp:266` and `:355` divide unsigned shares; `:175` does not initialise the model;
  `:197` has the label 1 without the scale of the activations.

## 5. Proofs

A run shows a property on a small instance; a theorem shows it for every value of
the constants. Every invariant and action property that a passing run checks is proved,
and so is the safety part of every refinement. In each proof module there is an inductive invariant for
each specification it is about (`IInv`; `FakeInv` and `OTInv` of the two providers;
`CInv` and `RInv` of the callers of dense; `SGDInv` of gradient descent), the lemmas
about operators come before those about steps, there is a lemma or a step for each
action, and the theorems of a specification come after the lemmas about its steps.

| Theorem | Module | Statement |
|---|---|---|
| `InductiveInvariant`, `TypeCorrect`, `FirstInFirstOut`, `CapacityRespected`, `WakeupsKept` | `BlockingQueueProofs` | the queue's type invariant, `FifoOrder`, `WithinCapacity` and `NoLostWakeup` for any finite sets of threads, any capacity (or none) and any number of calls and spurious wake-ups |
| `RefinesBoundedFifo` | `BlockingQueueProofs` | each step of the queue is a step of `BoundedFifo` or leaves it unchanged |
| `TriplesInOrder`, `TriplesAlwaysFit`, `NeverReused` | `TripleProviderProofs` | `TriplesFit` and `NoTripleReused` for every ring, dimension, capacity, stream of draws, number of calls, and interleaving of the parties' threads |
| `OTInvHolds`, `OTTriplesAlwaysFit`, `ProviderTypesCorrect` | `TripleProviderProofs` | `OTTriplesFit` for any width, number of rows (odd or even), capacity, number of triples, pads and interleaving of the four threads; the types of either provider |
| `InvHolds`, `TypeCorrect`, `ProductIsShared`, `ChannelIsLeftClean` | `MultiplicationProofs` | types, `ProductShared` and `ChannelLeftClean` (in the wording above: a thrower has sent nothing) for every ring, number of rows, chunk size (given or not), supply of triples that fit, factors, and whichever party is ahead |
| `ColsInvHolds`, `MessagesAlwaysInTurn`, `ColumnsMultiplied` | `MultiplicationProofs` | cols-dense: whoever waits for `k_A`, the map's message or the circuit's finds that one, and the parties agree on `k_A`; what they return are shares of the product if the map keeps what the caller relies on (`MapKeeps`), for any matrices, map, order of the columns, shares drawn and chunks |
| `RowsInvHolds`, `RowsPlaced` | `MultiplicationProofs` | rows-dense with zero sharing: what is returned are shares of the product with every row in its place, for any sparse matrix, order of its rows, made-up rows and shares drawn |
| `CallersInvHolds`, `TypesCorrect`, `ProductIsReturned`, `PhasesKeptApart`, `SharedForCallers` | `MultiplicationProofs` | `TypesOK`, `ProductReturned`, `PhasesApart` and `ProductShared` of the composition that is model-checked |
| `InvHolds`, `TypeCorrect`, `VectorsAlwaysMatch` | `BasicObliviousMapProofs` | the type invariant and `VectorsMatchRuns` for any jobs and any number of runs |
| `RunsInStep`, `PolyTypeCorrect`, `NoncesAgree`, `CountersNeverRepeat` | `PolyObliviousMapProofs` | the type invariant, `NoncesInStep` and `CountersFresh` (no point of a polynomial that is sent has a key and counter of an earlier run) for any jobs and any number of runs of a pair of objects |
| `InvHolds`, `TypeCorrect`, `ClientPairsAlwaysKept` | `SortingObliviousMapProofs` | the type invariant and `ClientPairsKept` for any jobs, also with repeated and negative keys, any number of runs, whatever the merge does and however the shuffle falls |
| `RefinesObliviousMap` | `BasicObliviousMapProofs`, `PolyObliviousMapProofs` | each step of the map is a step of `ObliviousMap` or leaves it unchanged: every run returns the answer of the contract (for the basic map of the pairs it keeps), and no party returns before both have called |
| `RefinesRankedMap`, `AscendingKeysGetTheirDefaults` | `SortingObliviousMapProofs` | the first: each step is one of `ObliviousMap` with the defaults by rank, where jobs with repeated or negative keys may return anything. The second: where the contract itself is kept, that is for every run whose keys are ascending and not negative |
| `InvHolds`, `TypeCorrect`, `PositionsAlwaysAgree`, `ProductIsShared`, `MapPromisesExactly` | `ColsRowsProofs` | types, `PositionsAgree` and `ProductShared` for any inner dimension, matrices, given or exchanged k, map, shuffle and shares; and the map is called beyond its promise exactly when `Beyond` says so |
| `InvHolds`, `TypeCorrect`, `BatchesAlwaysFit`, `SlotsStayInOrder`, `NearestIsFirst` | `ApplicationProofs` | types, `BatchesFit`, `SlotsDescend` and `NearestFirst` for any documents (also none), batch size, number of slots (also none) and similarities |
| `SGDInvHolds`, `SGDTypeCorrect`, `EpochUsesHold`, `SharesRescaled`, `SigmoidAlwaysOfFed` | `ApplicationProofs` | types, `EpochUses`, `RescaledShares` and `SigmoidOfFed` for any data, number of documents and epochs, batch size (dividing the rows or not), width of the words and place of the point |

*Assumptions.* All are named in the module that declares the constants, and TLC
evaluates them on each instance: `ThreadsAssumption` and `BoundsAssumption` (finite
disjoint sets of threads; any integer as capacity, -1 for none); the ring axioms of
`Ring`; `ProviderAssumption` (the draws are in `T`); `SizesAssumption` and
`TriplesAssumption` (the arguments of `dense` have their types, the chunk size is not
0 and the triples fit, which is what the two providers are for); `JobsAssumption` (a
server's keys are distinct and not negative, and there are at least as many defaults as
the client has keys; the client's keys are any integers); `NoEmptyJob` (a pair and a key
in each job of the poly map); `KeysBeyondAssumption` (what is read beyond a map is
some integer);
`ColsRowsAssumption` and `KNNAssumption` (finite index sets and dictionaries,
arguments of their types, norms not 0); `SGDAssumption` (positive sizes, and half of the
rows at each party). Three specifications are only an instance in the proof module, or
assume more than the one they extend; there the assumption is an operator that the
theorems have as their hypothesis, and TLC evaluates it on the instances as
`OTAssumption` and `CallersAssumption` of the MC modules:

- `OTParameters`: words of at least one bit, at least one row, draws and pads in `T`,
  any capacity, and the ring *is* the integers modulo 2^Width, as its bits are used.
- `RowsDenseParameters`: the rows to multiply are at most those of the matrix, whose
  entries and the shares drawn are in `T`.
- `ColsDenseParameters`: finitely many columns, which are natural numbers, at most `MaxK` of them
  nonzero, entries that contain 0; and that the product of two blocks of columns, picked in any order of
  the nonzero ones, is the product of the rows they come from. That is what a product of
  matrices is; it is assumed of `Times` and not proved.

*The queue.* `NoLostWakeup` is not inductive. One notification on its way is enough
for it, but that thread may wake a sleeper whose element is then taken by a
consumer that has just called `pop`; the invariant must count. `ElementsCovered`
says that while a consumer sleeps, the stored elements are at most the producers
about to notify plus the consumers that are awake and will look; `PlacesCovered`
says the same for the free places and producers. Each step moves one thread from
one of these sets to another, and lemmas `EnterCount`, `LeaveCount` and
`KeepCount` say what that does to cardinalities. With mutual exclusion, `FifoOrder`,
`WithinCapacity` and the types they form `IInv` (`InductiveInvariant`); the proof
that a step preserves it has one step per action. The test `queue not full` and
the insertion are one step only because of mutual exclusion, which is therefore
part of the invariant and of the refinement proof.

*The fake provider.* `InOrder` says that the triples taken and those waiting are the
ones made from the draws 1, 2, 3, ... in order, and that the generator is just
behind the last of them. Both parties satisfy it separately; `TriplesFit` follows
from what two triples made from the same segment of draws are (`SameDrawsFit`),
which is algebra in the ring, and `NoTripleReused` from the segments being disjoint.

*The OT provider.* A product is made bit by bit, and shares are right only for the bits
done: `Done(j, c)` is how many bits of row j the first c COTs have covered (two rows go
through one transfer, the last of an odd number alone), and `BitsDone` the product with
the other factor cut to these bits. While both parties are at the same COT
(`InProduct`) their shares of row j add up to it; a COT adds the next bit, by what
`1 << b` and a word cut to b bits are. Since a product ends for both parties with its
last COT but each finishes, adds, pushes and draws on its own, the invariant has two more
parts: `Between` for the two products of a shared triple, of which one party may have
left the first, and `AfterTriple(k)` for any mixture of the parties being about to
push triple k, having pushed it, or being in front of triple k + 1. Of the
queues it says that they hold what was pushed and not taken. The powers of two are a
recursive function; that it is what its definition says, and what it bounds, is
proved from a least number for which it is not.

*Dense multiplication.* Messages carry no tag, and one party can be ahead by as many
of them as fit between two exchanges. The invariant numbers them: `Sent(r)` and
`Read(r)` are functions of a party's control point and chunk, and `InOrder` says that
a channel holds exactly the messages from the receiver's `Read` to the sender's
`Sent`, each being the masked rows or the masked factor (`IsMessage`) of the chunk its
number stands for. Hence what a party reads belongs to the chunk it is in (`OfChunk`),
though the rows beyond the end of a short last chunk may have any value; and a
finished row is what `ShareOfRow` makes of what both have revealed (`Finished`). That
two such shares add up to the product is algebra from the contract of triples. The
channel is empty when both have returned because then all four counters agree.

*Cols-dense.* A party may be parts ahead of the other: role 0 in the circuit, with `k_A`
unread and its own circuit message behind it. What stands in front of the dense
protocol's messages is a function of where both parties are (`Front0`, `Front1`), and
`MapInStep` says how far they can be apart: nobody is past the circuit unless the other
has entered it. `SizeAgreed` says who knows `k_A`; `Arguments` what the map has left as
factors when a party calls the dense protocol: role 1's A is zero, and the parties have
shares of B's rows in the order of the list, if `MapKeeps`. As long as a party has not
called the dense protocol it is idle there (`CPart`), so that its `IInv` holds from the
start. The list has each nonzero column once, so by `ColsDenseParameters` the product of
the factors is that of the matrices. With the sorting map, the place of the default is a
rank, and in an ascending list the rank of an entry is its index.

*Rows-dense.* The parties are not in step: role 0 may be in the first chunk of the dense
protocol before role 1 has read `k_A`. Then role 1's channel holds `k_A`, and behind it
what role 0 has sent of that chunk, and role 0 cannot get beyond its first exchange
(`Ahead`); otherwise the dense protocol's `IInv` holds (`SizeUnread` tells them apart).
`PartOf` says of each party which part it is in. `Chosen` says which rows are multiplied:
the nonzero ones and, if a larger `k_A` was passed, as many others as make it up. At the
other end, a party may have begun the zero sharing while the other still multiplies
(`Entered`); `InStep` says how far the two can be apart in it, and `OnZero` gives its
messages as a function of that. It has a part for each stage (`Begun`, `Transferred`,
`Unpacked`, `Completed`) that says what the server has received for its places and for
the others, which ciphertexts belong to its entries, and what its share is off its
places; `PlaceFacts` says that going through the sorted places and back undoes any order,
which puts every row where `ProductPlaced` wants it.

*Both callers.* `MInv` is the part of the function the parties have called. Its lemmas
are those of the three specifications; `PhasesApart` and `ProductReturned` follow from
the parts that say which messages are in which section of the channel, and what has
been finished. That a party in the dense protocol reads a matrix of the right exchange
is `InOrder` of the dense protocol's invariant again.

*The basic map.* As for the poly map (below), `InStep` bounds how far the parties can
be apart and `Current` says that the vector on its way is that of the server's run.
In addition `IsFilled` follows the loop over the input: after s pairs the vector holds
those that are *kept* (all but a first pair with key 0) where their keys say, and
unset entries elsewhere, and it never has just one entry. The contract it implements
is that of `KeptJob`, the job without the pair that finding 1 loses.

*The poly map.* `NoncesInStep` speaks of moments at which a polynomial is read; it
is inductive only together with how far the parties can be apart (`InStep`): each
nonce equals the number of runs its party has begun, both have been through the
circuit equally often, and the client waits for the circuit only after the server.
So at most one polynomial is on its way, and it is that of the run both are in
(`Current`). That the block the client evaluates opens to the value of the pair with
its key, or to no padding, is then a fact about functions (`BlockOpens`,
`CircuitAnswers`), which uses that keys are distinct, and the refinement maps
the circuit to the server's return and the client's return to its own.

*The sorting map.* There are two layers. For jobs with any keys, `Compared` has an
assignment of the marked pairs to what the client fed, one to one and of the same keys
(`IsOwned`); a comparison exchanges owners between neighbours of one key, or none
(`OwnedMoved`), and whatever order the merge ends up in is a rearrangement. That is all
`ClientPairsKept` needs. For keys that are distinct and not negative (`Proper`) the state
of the circuit in turn i of its loop is described by what it was at the start: there is a
merge `b` of what both parties fed (`IsMerged`: ascending, everything and nothing twice),
and the pairs now are those of `b`, except that two neighbours of one key of which the
first has been passed have exchanged owners or hold the sum of their values (`Through`).
Of one key there are at most two pairs, of different owners (`TwoOfAKey`), and they are
neighbours (`Neighbours`): so no pair is changed twice (`CompareThrough`), and at the end
each has met the other of its key, if there is one (`AllMet`). `MarkedFacts` reads off from
this that the marked pairs are those of the client's keys, and `RevealedValue` that each
has its value or the default of its rank. That the r-th default is fed with the r-th key
in order is `RankFacts` and `AscendingFacts`: sorting distinct keys puts each at its
rank. In an ascending list that is its index, which gives the contract itself.

*Cols-rows.* Each k is unknown, on its way, or agreed on by both (`KAgreed`),
and is at least the number of indices of the party it belongs to, unless that party
serves and will refuse it (`KFits`); the server's pairs give each of its indices a
position of its own and the client's keys are its indices and padding (`Indexed`,
`Placed`), and both leave map and multiplication together (`Joined`), or are both
`unpromised`. `MapPromisesExactly` compares what is in the two parties' vectors at the map
with the lengths and the k that `Beyond` speaks of. From the answers of
the map, common indices get one position and others none that is used by the other
party (`PositionsAgree`). For `ProductShared` one must know that a sum over the positions
of the small matrices is the sum over the inner dimension. Sums are folds over a
function; as an induction over finite sets is out of reach as a rule, `SumsExist` and
`SameSum` argue from a smallest counterexample, which exists because the natural
numbers are well-founded; `ProductMoved` is the statement that terms can be moved
along an injection if what is left out is zero.

*Nearest neighbours.* The parties compute their batches separately: `Agreed` follows the
number of words from constructor to constructor, and `Multiplied` says that both are at
the same batch, have no triple left over, and hold shares of all similarities so far.
`SlotsDescend` is inductive by itself; `NearestFirst` is not, as it speaks of what is
returned: `FirstNearest` says in each turn of the circuit's loop that the first slot
holds the first of the nearest documents so far, and `Revealed` that both parties
return what the slots held at the end.

*Gradient descent.* The parties never compare their loop variables; they only meet in
the joint steps. `InTurn(p)` says what one party's can be: when it is party 1's turn,
party 0 is one batch ahead, and has no more rows if less than a full batch was left
for it; and party 1's count is always a multiple of the batch size (`LastOf` is the
arithmetic of what is left for the last one). `UsesOf(p)` says that the history `uses`
is a function of *either* party's variables: each satisfies it by itself, with no
invariant relating the two parties, because a batch is counted in the joint step, when
their variables are equal. `EpochUses` is then what the function gives when a party is
done (`EpochEnds`). `RescaledShares` is arithmetic (`QuotientsOfShares`: quotients of two
shares and of their sum modulo a multiple of the divisor), from `Divided`, which says that
what is scaled are the quotients; `SigmoidOfFed` is that the circuit's comparisons of
words are those of signed numbers (`SigIsPiecewise`) and that a mask taken off is added
again (`Unmasked`). All of this is for words of any width, which is why `1 << b` is
a recursive function in the model; `RecursionExists` and `PowerSum` are its lemmas.

*Model-checked only.*

- All liveness (`AllServed`, `AllHandedOver`, `BothReturn`, `AllReturn`, ..., and the
  fairness part of the refinements): the prover handles neither fairness nor `ENABLED`.
- Nothing else that a run checks. Induction over data would have to instantiate a
  theorem with an operator; the proofs are by induction over steps, and where a
  recursive function or a sum has to be computed (powers of two, the gradient, the sum
  over an inner dimension), from a least counterexample.

## 6. Not modelled

- Gradient descent: one feature (m = 1) and one label per party; its products are by
  contract, so what the sparse ones do with an empty batch (`cols-dense.hpp:104` reads
  beyond an empty list) is not in the model, which follows the dense ones to the
  division by zero.
- The other `experiments/`: option parsing, random inputs and time measurement.
- `util/` except queue and `randomize_matrix`: sequential helpers.
- What the code does outside its callers' obligations, most of it listed as hazards:
  chunk size 0 (the loop would not end with rows left; no caller passes it for such);
  in rows-dense a `k_A` above the number of rows (indices beyond the matrix) or below
  that of the nonzero rows (`copy_n` at `rows-dense.hpp:46` drops the rest); in cols-dense a
  `k_A` that is not the number of nonzero columns, and the poly map without a column; in
  cols-rows a k between the number of indices and what is refused; empty jobs for the poly
  map (which interpolates through the number of points less one); documents of norm 0.
- Inner dimensions: OT triples have m = n = 1, and cols-dense and rows-dense one column of B.
- Cols-rows after `unpromised`: what the parties compute, or how they fail, when a map is
  used beyond its promise. With a k that is only a bound at the server (as `knn` passes:
  the maximum over its batches) only the poly map is within it; with one at the client,
  the basic and the poly map are.
- The answers of the sorting map for repeated or negative keys: `SortingObliviousMap`
  computes them for a merge of unsorted halves in *some* order, and no property is about
  them.
- A product that one party leaves by an exception: what a caller that caught it would
  find in the channel.
- Leakage: what a party may infer.

## 7. Plan

Done so far, in this order, the most important first: the queue with its abstract
specification and proofs; the triple providers; dense multiplication on top of
them; the contract of maps and its three implementations; zero sharing and
rows-dense on top of dense; cols-rows on top of the contracts; knn; cols-dense on
top of dense; gradient descent with the sigmoid circuit. Then the messages of maps,
oblivious transfers and circuits on the one channel they share with the dense protocol;
the three maps in place of one contract where `cols_dense` and `cols_rows` call them; and
keys that are repeated or negative.

Proved, in this order: queue, fake provider, poly map; dense multiplication, knn, basic
map, cols-rows and sorting map; then the callers of the dense protocol, the OT
provider and gradient descent. In each case TLC had checked the inductive invariant
on a run before it was proved.

Next, models: `OTTripleProvider` with m > 1, the order of columns in packed transfers;
`OTTripleProvider` and `FakeTripleProvider` as implementations of one abstract
provider; knn with signed similarities; what `cols_rows` gets from a map used beyond its
promise, by composition with the modules of the maps.

Next, proofs: the composition of the multiplications with the implementations of map and
provider in place of their contracts, from the refinements that are proved.
