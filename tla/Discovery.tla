------------------------------ MODULE Discovery ------------------------------
(***************************************************************************)
(* MultiSourceDiscoverer.Discover (multi_source_discoverer.go): one        *)
(* goroutine per source, a WaitGroup, and a merge in source order.         *)
(*                                                                         *)
(* The caller enters with BeginDiscover, steps with DiscoverNext until the *)
(* call has returned and takes the result with TakeResult, which ends the  *)
(* life of the call's locals.  Items of the result are [name, source].     *)
(***************************************************************************)
EXTENDS Naturals, Sequences, FiniteSets

CONSTANTS
  Host,       \* the host names
  N,          \* number of sources
  Outcomes    \* Outcomes[i]: what source i may return

Outcome == [ok : BOOLEAN, names : Seq(Host)]

ASSUME NAssumption == N \in Nat
ASSUME OutcomesAssumption == \A i \in 1..N : Outcomes[i] \subseteq Outcome

VARIABLES
  dpc,        \* where the call is
  running,    \* goroutines that have not called Done
  slots,      \* results: the slots written so far
  source,     \* the slot the merge is at
  next,       \* the item of that slot the merge is at
  result,     \* the merged list
  successes,  \* successCount
  failed      \* Discover returned an error

discoveryVars == <<dpc, running, slots, source, next, result, successes, failed>>

Merged(name) == \E k \in DOMAIN result : result[k].name = name     \* name is in the map seen

DiscoveryTypeOK ==
  /\ dpc \in {"idle", "gather", "merge", "returned"}
  /\ running \in SUBSET (1..N)
  /\ slots \in [1..N -> Seq(Outcome)] /\ \A i \in 1..N : Len(slots[i]) <= 1
  /\ source \in 1..N+1
  /\ next \in Nat \ {0}
  /\ result \in Seq([name : Host, source : 1..N])
  /\ successes \in 0..N
  /\ failed \in BOOLEAN

\* make([]sourceResult, n): nothing written yet.
Locals ==
  [running |-> {}, slots |-> [i \in 1..N |-> <<>>], source |-> 1, next |-> 1,
   result |-> <<>>, successes |-> 0, failed |-> FALSE]

DiscoveryInit ==
  /\ dpc = "idle"
  /\ running = Locals.running /\ slots = Locals.slots
  /\ source = Locals.source /\ next = Locals.next
  /\ result = Locals.result /\ successes = Locals.successes /\ failed = Locals.failed

BeginDiscover ==
  /\ dpc = "idle"
  /\ dpc' = "gather"
  /\ running' = 1..N
  /\ UNCHANGED <<slots, source, next, result, successes, failed>>

AnswerDoneIfOk(i) ==   \* mutant: Done not deferred, an error returns before it
  /\ i \in running /\ slots[i] = <<>>
  /\ \E o \in Outcomes[i] :
       /\ slots' = [slots EXCEPT ![i] = <<o>>]
       /\ running' = IF o.ok THEN running \ {i} ELSE running
  /\ UNCHANGED <<dpc, source, next, result, successes, failed>>

\* A goroutine stores its source's answer in its own slot and calls Done.
Answer(i) ==
  /\ i \in running
  /\ \E o \in Outcomes[i] : slots' = [slots EXCEPT ![i] = <<o>>]
  /\ running' = running \ {i}
  /\ UNCHANGED <<dpc, source, next, result, successes, failed>>

WaitForOne ==   \* mutant: the merge begins when a first source has answered
  /\ dpc = "gather"
  /\ running # 1..N
  /\ dpc' = "merge"
  /\ UNCHANGED <<running, slots, source, next, result, successes, failed>>

\* wg.Wait() returns.
Wait ==
  /\ dpc = "gather"
  /\ running = {}
  /\ dpc' = "merge"
  /\ UNCHANGED <<running, slots, source, next, result, successes, failed>>

\* A slot nobody wrote reads as the zero value: no error and no names.
Slot(i) == IF slots[i] = <<>> THEN [ok |-> TRUE, names |-> <<>>] ELSE slots[i][1]

MergeName ==
  /\ dpc = "merge" /\ source <= N
  /\ Slot(source).ok /\ next <= Len(Slot(source).names)
  /\ LET name == Slot(source).names[next]
     IN  result' = IF Merged(name) THEN result
                   ELSE Append(result, [name |-> name, source |-> source])
  /\ next' = next + 1
  /\ UNCHANGED <<dpc, running, slots, source, successes, failed>>

\* A failed slot is skipped, one whose names are all merged is counted.
NextSource ==
  /\ dpc = "merge" /\ source <= N
  /\ Slot(source).ok => next > Len(Slot(source).names)
  /\ successes' = IF Slot(source).ok THEN successes + 1 ELSE successes
  /\ source' = source + 1
  /\ next' = 1
  /\ UNCHANGED <<dpc, running, slots, result, failed>>

\* All sources failed: an error, no list.
Return ==
  /\ dpc = "merge" /\ source = N + 1
  /\ dpc' = "returned"
  /\ failed' = (successes = 0 /\ N > 0)
  /\ UNCHANGED <<running, slots, source, next, result, successes>>

\* The caller has the result; the next call makes its locals anew.
TakeResult ==
  /\ dpc = "returned"
  /\ dpc' = "idle"
  /\ running' = Locals.running /\ slots' = Locals.slots
  /\ source' = Locals.source /\ next' = Locals.next
  /\ result' = Locals.result /\ successes' = Locals.successes /\ failed' = Locals.failed

DiscoverStep == Wait \/ MergeName \/ NextSource \/ Return
DiscoverNext == DiscoverStep \/ \E i \in 1..N : Answer(i)

DiscoverySpec ==
  /\ DiscoveryInit
  /\ [][BeginDiscover \/ DiscoverNext \/ TakeResult]_discoveryVars

(***************************************************************************)
(* The abstract call: sources answer in any order and, when all have, the  *)
(* call returns at once what multi_source_discoverer.go:63-71 promises.    *)
(***************************************************************************)
Promise == INSTANCE Gather WITH
  answers <- slots,
  called <- dpc # "idle",
  reply <- IF dpc = "returned" THEN <<[failed |-> failed, result |-> result]>> ELSE <<>>

KeepsPromise == Promise!Spec
==============================================================================
