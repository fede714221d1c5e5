-------------------------- MODULE WebServerProofs --------------------------
(***************************************************************************)
(* WebServer's safety properties, proved for every number of requests and  *)
(* slots, every channel capacity and every length of a scan.               *)
(***************************************************************************)
EXTENDS WebServer, FiniteSetTheorems, SequenceTheorems, TLAPS

\* Every step of Next that is about one request.
RequestStep(r) ==
  \/ Pipeline(r)
  \/ Up /\ (HandlerStep(r) \/ WriteToPage(r) \/ EndContext(r))
  \/ Connect(r) \/ LeavePage(r) \/ ConnectionEnds(r)

\* A step leaves a request alone.
Untouched(q) ==
  /\ client'[q] = client[q] /\ pc'[q] = pc[q] /\ ctx'[q] = ctx[q]
  /\ runner'[q] = runner[q] /\ scan'[q] = scan[q] /\ sent'[q] = sent[q]
  /\ buf'[q] = buf[q] /\ hand'[q] = hand[q] /\ last'[q] = last[q]

BeforeScan == {"none", "acquire", "full", "check", "invalid", "init"}
Streaming  == {"range", "write", "watch"}

\* How the four actors of a request are tied together.  The last conjunct is
\* the reason why a watched scan keeps its runner: a handler leaves its loop
\* only at the end of the stream or when its client has gone.
Tied(r) ==
  /\ client[r] = "idle" <=> pc[r] = "none"
  /\ pc[r] \in BeforeScan => scan[r] = "none"
  /\ pc[r] \in Streaming => runner[r] = "open" /\ scan[r] # "none"
  /\ scan[r] = "none" => sent[r] = 0
  /\ scan[r] = "running" => sent[r] <= MaxEvents
  /\ hand[r] = <<>> <=> pc[r] # "write"
  /\ ctx[r] => client[r] = "gone" \/ pc[r] = "returned"
  /\ scan[r] \in {"running", "closing"} /\ client[r] = "streaming" => pc[r] \in Streaming

IInv == TypeOK /\ SlotsMatchHandlers /\ \A r \in Requests : Tied(r)

----------------------------------------------------------------------------
(* Steps of one request.                                                   *)

\* A step of one request leaves the others alone, and the server as it is.
LEMMA OthersUntouched ==
  ASSUME TypeOK, NEW r \in Requests, RequestStep(r)
  PROVE  server' = server /\ \A q \in Requests \ {r} : Untouched(q)
<1> USE DEF TypeOK, Untouched, GoTo, handler, pipeline
<1>1. CASE Pipeline(r)
  BY <1>1 DEF Pipeline, Progress, Abort, Complete, CloseStream, Emit
<1>2. CASE Acquire(r) \/ CheckTarget(r) \/ InitFails(r) \/ StartScan(r) \/ Refuse(r)
  BY <1>2 DEF Acquire, CheckTarget, InitFails, StartScan, Refuse, PageReads
<1>3. CASE NextEvent(r) \/ StreamEnds(r) \/ WriteLost(r) \/ Watch(r) \/ CloseRunner(r) \/ Release(r)
  BY <1>3 DEF NextEvent, StreamEnds, WriteLost, Watch, CloseRunner, Release
<1>4. CASE WriteToPage(r) \/ EndContext(r) \/ Connect(r) \/ LeavePage(r) \/ ConnectionEnds(r)
  BY <1>4 DEF WriteToPage, PageReads, EndContext, Connect, LeavePage, ConnectionEnds
<1> QED
  BY <1>1, <1>2, <1>3, <1>4 DEF RequestStep, HandlerStep

\* What emit does to the channel it is given.
LEMMA EmitType ==
  ASSUME TypeOK, NEW r \in Requests, NEW kind \in Kinds, Emit(r, kind), sent[r] <= MaxEvents
  PROVE  /\ sent' \in [Requests -> 0..(MaxEvents + 1)] /\ sent'[r] = sent[r] + 1
         /\ buf' \in [Requests -> Seq(Event)]
         /\ \A q \in Requests : Len(buf'[q]) <= Capacity
         /\ buf'[r] = IF Len(buf[r]) < Capacity
                        THEN Append(buf[r], [n |-> sent[r] + 1, kind |-> kind]) ELSE buf[r]
<1>1. [n |-> sent[r] + 1, kind |-> kind] \in Event
  BY WebAssumption DEF TypeOK, Event
<1>2. Append(buf[r], [n |-> sent[r] + 1, kind |-> kind]) \in Seq(Event)
  BY <1>1, AppendProperties DEF TypeOK
<1>3. Len(Append(buf[r], [n |-> sent[r] + 1, kind |-> kind])) = Len(buf[r]) + 1
  BY <1>1, AppendProperties DEF TypeOK
<1>4. Len(buf[r]) \in Nat /\ Capacity \in Nat
  BY WebAssumption, LenProperties DEF TypeOK
<1> QED
  BY <1>2, <1>3, <1>4, WebAssumption DEF TypeOK, Emit

\* A handler that owns a slot is counted.
LEMMA OwnedSlot ==
  ASSUME TypeOK, SlotsMatchHandlers, NEW r \in Requests, Holds(r)
  PROVE  slots > 0
<1>1. IsFiniteSet(Holders) /\ Cardinality(Holders) \in Nat
  BY FS_Subset, FS_CardinalityType, WebAssumption DEF Holders
<1>2. Holders # {}
  BY DEF Holders
<1> QED
  BY <1>1, <1>2, FS_EmptySet DEF SlotsMatchHandlers

\* Every step keeps the types.
LEMMA TypeStep ==
  ASSUME IInv, NEW r \in Requests, RequestStep(r)
  PROVE  TypeOK'
<1> USE DEF IInv, GoTo, handler, pipeline, Places, Holding
<1>1. CASE Up /\ Progress(r)
  <2>1. PICK kind \in Kinds \ {"done"} : Emit(r, kind)
    BY <1>1 DEF Progress
  <2>2. sent[r] <= MaxEvents
    BY <1>1 DEF Progress, Tied
  <2> QED
    BY <1>1, <2>1, <2>2, EmitType DEF Progress, TypeOK
<1>2. CASE Up /\ Complete(r)
  <2>1. Emit(r, "done") /\ "done" \in Kinds /\ sent[r] <= MaxEvents
    BY <1>2 DEF Complete, Tied, Kinds
  <2> QED
    BY <1>2, <2>1, EmitType DEF Complete, TypeOK
<1>3. CASE Up /\ (Abort(r) \/ CloseStream(r))
  BY <1>3 DEF Abort, CloseStream, TypeOK
<1>4. CASE Acquire(r)
  <2>1. slots' \in 0..MaxSlots
    BY <1>4, WebAssumption DEF Acquire, TypeOK
  <2>2. pc' \in [Requests -> Places]
    BY <1>4 DEF Acquire, TypeOK
  <2> QED
    BY <1>4, <2>1, <2>2 DEF Acquire, TypeOK
<1>5. CASE CheckTarget(r) \/ InitFails(r) \/ StartScan(r) \/ Refuse(r)
  BY <1>5 DEF CheckTarget, InitFails, StartScan, Refuse, PageReads, TypeOK
<1>6. CASE NextEvent(r)
  <2>1. buf[r] \in Seq(Event) /\ buf[r] # <<>>
    BY <1>6 DEF NextEvent, TypeOK
  <2>2. Head(buf[r]) \in Event /\ Tail(buf[r]) \in Seq(Event) /\ Len(Tail(buf[r])) = Len(buf[r]) - 1
    BY <2>1, HeadTailProperties
  <2>3. Len(buf[r]) \in Nat /\ Len(buf[r]) <= Capacity /\ Capacity \in Nat
    BY <2>1, WebAssumption, LenProperties DEF TypeOK
  <2>4. \A q \in Requests : Len(buf'[q]) <= Capacity
    BY <1>6, <2>2, <2>3 DEF NextEvent, TypeOK
  <2> QED
    BY <1>6, <2>2, <2>4 DEF NextEvent, TypeOK
<1>7. CASE StreamEnds(r) \/ WriteLost(r) \/ Watch(r) \/ CloseRunner(r)
  BY <1>7 DEF StreamEnds, WriteLost, Watch, CloseRunner, TypeOK
<1>8. CASE Release(r)
  <2>1. slots > 0
    BY <1>8, OwnedSlot DEF Release, Holds
  <2> QED
    BY <1>8, <2>1, WebAssumption DEF Release, TypeOK
<1>9. CASE WriteToPage(r)
  <2>1. \E e \in Event : hand[r] = <<e>>
    BY <1>9 DEF WriteToPage, Tied, TypeOK
  <2>2. Head(hand[r]).n \in 0..(MaxEvents + 1)
    BY <2>1 DEF Event
  <2> QED
    BY <1>9, <2>2 DEF WriteToPage, PageReads, TypeOK
<1>10. CASE EndContext(r) \/ Connect(r) \/ LeavePage(r) \/ ConnectionEnds(r)
  BY <1>10 DEF EndContext, Connect, LeavePage, ConnectionEnds, TypeOK
<1> QED
  BY <1>1, <1>2, <1>3, <1>4, <1>5, <1>6, <1>7, <1>8, <1>9, <1>10
  DEF RequestStep, Pipeline, HandlerStep

\* Every step keeps the actors of its own request tied.
LEMMA TiedStep ==
  ASSUME IInv, NEW r \in Requests, RequestStep(r)
  PROVE  Tied(r)'
<1>0. TypeOK /\ Tied(r)
  BY DEF IInv
<1> USE <1>0 DEF TypeOK, GoTo, handler, pipeline, Places, Holding, BeforeScan, Streaming
<1>1. CASE Up /\ (Progress(r) \/ Complete(r))
  <2>1. scan[r] = "running" /\ sent'[r] = sent[r] + 1 /\ sent[r] <= MaxEvents
    BY <1>1 DEF Progress, Complete, Emit, Tied
  <2>2. scan'[r] = "running" => sent'[r] <= MaxEvents
    BY <1>1, <2>1, WebAssumption DEF Progress, Complete
  <2> QED
    BY <1>1, <2>1, <2>2 DEF Progress, Complete, Tied
<1>2. CASE Up /\ (Abort(r) \/ CloseStream(r))
  BY <1>2 DEF Abort, CloseStream, Tied
<1>3. CASE Acquire(r) \/ CheckTarget(r) \/ InitFails(r)
  BY <1>3 DEF Acquire, CheckTarget, InitFails, Tied
<1>4. CASE StartScan(r)
  BY <1>4, WebAssumption DEF StartScan, Tied
<1>5. CASE Refuse(r)
  BY <1>5 DEF Refuse, PageReads, Tied
<1>6. CASE NextEvent(r)
  BY <1>6 DEF NextEvent, Tied
<1>7. CASE StreamEnds(r) \/ Watch(r) \/ CloseRunner(r) \/ Release(r)
  BY <1>7 DEF StreamEnds, Watch, CloseRunner, Release, Tied
<1>8. CASE WriteLost(r) \/ WriteToPage(r)
  BY <1>8 DEF WriteLost, WriteToPage, PageReads, Tied
<1>9. CASE EndContext(r) \/ Connect(r) \/ LeavePage(r) \/ ConnectionEnds(r)
  BY <1>9 DEF EndContext, Connect, LeavePage, ConnectionEnds, Tied
<1> QED
  BY <1>1, <1>2, <1>3, <1>4, <1>5, <1>6, <1>7, <1>8, <1>9
  DEF RequestStep, Pipeline, HandlerStep

\* Every step keeps the count of slots right: only Acquire and Release change
\* who owns one.
LEMMA SlotsStep ==
  ASSUME IInv, NEW r \in Requests, RequestStep(r)
  PROVE  SlotsMatchHandlers'
<1> USE DEF IInv, GoTo, handler, pipeline
<1>1. IsFiniteSet(Holders) /\ Cardinality(Holders) \in Nat
  BY FS_Subset, FS_CardinalityType, WebAssumption DEF Holders
<1>2. \A q \in Requests \ {r} : Holds(q)' <=> Holds(q)
  BY OthersUntouched DEF Holds, Untouched
<1>3. CASE slots' = slots /\ (Holds(r)' <=> Holds(r))
  <2>1. Holders' = Holders
    BY <1>2, <1>3 DEF Holders
  <2> QED
    BY <1>3, <2>1 DEF SlotsMatchHandlers
<1>4. CASE slots' = slots + 1 /\ Holds(r)' /\ ~Holds(r)
  <2>1. Holders' = Holders \cup {r} /\ r \notin Holders
    BY <1>2, <1>4 DEF Holders
  <2> QED
    BY <1>1, <1>4, <2>1, FS_AddElement DEF SlotsMatchHandlers
<1>5. CASE slots' = slots - 1 /\ ~Holds(r)' /\ Holds(r)
  <2>1. Holders' = Holders \ {r} /\ r \in Holders
    BY <1>2, <1>5 DEF Holders
  <2> QED
    BY <1>1, <1>5, <2>1, FS_RemoveElement DEF SlotsMatchHandlers
<1>6. CASE Acquire(r)
  BY <1>3, <1>4, <1>6 DEF Acquire, Holds, Holding, TypeOK, Places
<1>7. CASE Release(r)
  BY <1>5, <1>7 DEF Release, Holds, Holding, TypeOK, Places
<1>8. CASE RequestStep(r) /\ ~Acquire(r) /\ ~Release(r)
  <2> USE DEF Holds, Holding, TypeOK, Places
  <2>1. CASE Pipeline(r) \/ EndContext(r) \/ LeavePage(r) \/ ConnectionEnds(r)
    BY <1>3, <2>1 DEF Pipeline, Progress, Complete, Abort, CloseStream, EndContext, LeavePage, ConnectionEnds
  <2>2. CASE CheckTarget(r) \/ InitFails(r) \/ StartScan(r) \/ Refuse(r) \/ Connect(r)
    <3>1. Tied(r)
      OBVIOUS
    <3> QED
      BY <1>3, <2>2, <3>1 DEF CheckTarget, InitFails, StartScan, Refuse, Connect, Tied
  <2>3. CASE \/ NextEvent(r) \/ StreamEnds(r) \/ WriteLost(r) \/ Watch(r) \/ CloseRunner(r)
            \/ WriteToPage(r)
    BY <1>3, <2>3 DEF NextEvent, StreamEnds, WriteLost, Watch, CloseRunner, WriteToPage
  <2> QED
    BY <1>8, <2>1, <2>2, <2>3 DEF RequestStep, HandlerStep
<1> QED
  BY <1>6, <1>7, <1>8

\* The invariant holds when the server starts.
LEMMA InitIInv == Init => IInv
<1> SUFFICES ASSUME Init PROVE IInv
  OBVIOUS
<1>1. Holders = {}
  BY DEF Init, Holders, Holds, Holding
<1>2. SlotsMatchHandlers
  BY <1>1, FS_EmptySet DEF Init, SlotsMatchHandlers
<1>3. \A r \in Requests : Len(buf[r]) <= Capacity
  BY WebAssumption DEF Init
<1>4. TypeOK
  BY <1>3, WebAssumption DEF Init, TypeOK, Places
<1>5. \A r \in Requests : Tied(r)
  BY WebAssumption DEF Init, Tied, BeforeScan, Streaming
<1> QED
  BY <1>2, <1>4, <1>5 DEF IInv

\* The invariant is inductive.
LEMMA NextIInv == IInv /\ [Next]_vars => IInv'
<1> SUFFICES ASSUME IInv, [Next]_vars PROVE IInv'
  OBVIOUS
<1>1. ASSUME NEW r \in Requests, RequestStep(r) PROVE IInv'
  <2>1. \A q \in Requests \ {r} : Tied(q)'
    BY <1>1, OthersUntouched DEF IInv, Untouched, Tied
  <2> QED
    BY <1>1, <2>1, TypeStep, TiedStep, SlotsStep DEF IInv
<1>2. CASE Interrupt \/ Exit
  BY <1>2 DEF Interrupt, Exit, handler, pipeline, IInv, TypeOK, SlotsMatchHandlers,
              Holders, Holds, Tied
<1>3. CASE UNCHANGED vars
  BY <1>3 DEF vars, IInv, TypeOK, SlotsMatchHandlers, Holders, Holds, Tied
<1> QED
  BY <1>1, <1>2, <1>3 DEF Next, Done, RequestStep

THEOREM Invariance == Spec => []IInv
  BY InitIInv, NextIInv, PTL DEF Spec

\* Every variable of the server has its type and no channel of events holds
\* more than its capacity.
THEOREM TypeCorrect == Spec => []TypeOK
<1>1. IInv => TypeOK
  BY DEF IInv
<1> QED
  BY <1>1, Invariance, PTL

\* The semaphore counts the handlers that own a slot: no way through
\* handleScan loses one or frees one too many.
THEOREM SlotsConserved == Spec => []SlotsMatchHandlers
<1>1. IInv => SlotsMatchHandlers
  BY DEF IInv
<1> QED
  BY <1>1, Invariance, PTL

\* A scan whose client is there keeps its slot and its store: handleScan
\* closes the runner under a pipeline only when nobody watches.
THEOREM WatchedScansKeepRunner == Spec => []WatchedScanKeepsRunner
<1>1. IInv => WatchedScanKeepsRunner
  BY DEF IInv, Tied, WatchedScanKeepsRunner, Streaming, Holds, Holding
<1> QED
  BY <1>1, Invariance, PTL

----------------------------------------------------------------------------
(* WebServer implements LossyStream.                                       *)

\* The numbers of the events of a channel.
Numbers(p) == [i \in 1..Len(p) |-> p[i].n]

LEMMA EventNumber == \A e \in Event : e.n \in Nat
<1>1. \A e \in Event : e.n \in 1..(MaxEvents + 1)
  BY DEF Event
<1>2. 1..(MaxEvents + 1) \subseteq Nat
  BY WebAssumption
<1> QED
  BY <1>1, <1>2

LEMMA NumbersType ==
  ASSUME NEW p \in Seq(Event)
  PROVE  Numbers(p) \in Seq(Nat) /\ Len(Numbers(p)) = Len(p)
<1>1. Len(p) \in Nat
  BY LenProperties
<1>2. \A i \in 1..Len(p) : p[i].n \in Nat
  BY ElementOfSeq, EventNumber
<1>3. Numbers(p) \in [1..Len(p) -> Nat]
  BY <1>2 DEF Numbers
<1>4. \A f \in [1..Len(p) -> Nat] : f \in Seq(Nat) /\ Len(f) = Len(p)
  BY <1>1
<1> QED
  BY <1>3, <1>4

\* Numbers commutes with the operations on sequences.
LEMMA NumbersAppend ==
  ASSUME NEW p \in Seq(Event), NEW e \in Event
  PROVE  Numbers(Append(p, e)) = Append(Numbers(p), e.n)
<1>1. /\ Len(Append(p, e)) = Len(p) + 1
      /\ \A i \in 1..Len(p) : Append(p, e)[i] = p[i]
      /\ Append(p, e)[Len(p) + 1] = e
  BY AppendProperties
<1>2. Numbers(p) \in Seq(Nat) /\ Len(Numbers(p)) = Len(p) /\ e.n \in Nat
  BY NumbersType, EventNumber
<1>3. /\ Len(Append(Numbers(p), e.n)) = Len(p) + 1
      /\ \A i \in 1..Len(p) : Append(Numbers(p), e.n)[i] = Numbers(p)[i]
      /\ Append(Numbers(p), e.n)[Len(p) + 1] = e.n
  BY <1>2, AppendProperties
<1>4. Numbers(Append(p, e)) \in Seq(Nat) /\ Append(Numbers(p), e.n) \in Seq(Nat)
  BY <1>2, AppendProperties, NumbersType
<1>5. \A i \in 1..(Len(p) + 1) : Numbers(Append(p, e))[i] = Append(Numbers(p), e.n)[i]
  BY <1>1, <1>2, <1>3, LenProperties DEF Numbers
<1>6. Len(Numbers(Append(p, e))) = Len(p) + 1
  BY <1>1, AppendProperties, NumbersType
<1> QED
  BY <1>3, <1>4, <1>5, <1>6, SeqEqual

LEMMA NumbersTail ==
  ASSUME NEW p \in Seq(Event), p # <<>>
  PROVE  /\ Numbers(p) # <<>> /\ Head(Numbers(p)) = Head(p).n
         /\ Numbers(Tail(p)) = Tail(Numbers(p))
<1>1. Len(p) \in Nat /\ Len(p) > 0
  BY EmptySeq, LenProperties
<1>2. Numbers(p) \in Seq(Nat) /\ Len(Numbers(p)) = Len(p)
  BY NumbersType
<1>3. Numbers(p) # <<>>
  BY <1>1, <1>2
<1>4. Tail(p) \in Seq(Event) /\ Len(Tail(p)) = Len(p) - 1
  BY HeadTailProperties
<1>5. Tail(Numbers(p)) \in Seq(Nat) /\ Len(Tail(Numbers(p))) = Len(p) - 1
  BY <1>2, <1>3, HeadTailProperties
<1>6. \A i \in 1..(Len(p) - 1) : Numbers(Tail(p))[i] = Tail(Numbers(p))[i]
  BY <1>1, <1>2, <1>3, <1>4, <1>5, HeadTailProperties DEF Numbers
<1>7. Numbers(Tail(p)) \in Seq(Nat) /\ Len(Numbers(Tail(p))) = Len(p) - 1
  BY <1>4, NumbersType
<1>8. Head(Numbers(p)) = Head(p).n
  BY <1>1, <1>2 DEF Numbers
<1> QED
  BY <1>3, <1>5, <1>6, <1>7, <1>8, SeqEqual

\* The sequence of events between the pipeline and the page.
LEMMA OnTheWayIs ==
  ASSUME TypeOK, NEW r \in Requests
  PROVE  /\ hand[r] \o buf[r] \in Seq(Event)
         /\ Len(hand[r] \o buf[r]) >= Len(buf[r])
         /\ client[r] # "gone" => OnTheWay(r) = Numbers(hand[r] \o buf[r])
         /\ client[r] = "gone" => OnTheWay(r) = <<>>
         /\ hand[r] = <<>> => hand[r] \o buf[r] = buf[r]
<1>1. buf[r] \in Seq(Event)
  BY DEF TypeOK
<1>2. hand[r] \in Seq(Event)
  <2>1. hand[r] = <<>> \/ \E e \in Event : hand[r] = <<e>>
    BY DEF TypeOK
  <2>2. <<>> \in Seq(Event) /\ \A e \in Event : <<e>> \in Seq(Event)
    OBVIOUS
  <2> QED
    BY <2>1, <2>2
<1>3. hand[r] \o buf[r] \in Seq(Event) /\ Len(hand[r] \o buf[r]) = Len(hand[r]) + Len(buf[r])
  BY <1>1, <1>2, ConcatProperties
<1>4. Len(hand[r]) \in Nat /\ Len(buf[r]) \in Nat
  BY <1>1, <1>2, LenProperties
<1>5. <<>> \o buf[r] = buf[r]
  BY <1>1, ConcatEmptySeq
<1>6. client[r] # "gone" => OnTheWay(r) = Numbers(hand[r] \o buf[r])
  BY DEF OnTheWay, Numbers
<1>7. client[r] = "gone" => OnTheWay(r) = <<>>
  BY DEF OnTheWay
<1>8. hand[r] = <<>> => hand[r] \o buf[r] = buf[r]
  BY <1>5
<1>9. Len(hand[r] \o buf[r]) >= Len(buf[r])
  <2>1. \A m, n \in Nat : m + n >= n
    OBVIOUS
  <2> QED
    BY <1>3, <1>4, <2>1, Zenon
<1> QED
  BY <1>3, <1>6, <1>7, <1>8, <1>9

\* How the abstract state of a request changes when its emitter, its handler
\* or its client takes a step.
SameStream(r) == OnTheWay(r)' = OnTheWay(r)
SameReader(r) == ReaderOf(r)' = ReaderOf(r)
SameEnd(r)    == (scan[r] = "ended")' = (scan[r] = "ended")

\* A step of one request changes nothing of the others' streams.
LEMMA OthersStreams ==
  ASSUME TypeOK, NEW r \in Requests, RequestStep(r)
  PROVE  \A q \in Requests \ {r} :
           SameStream(q) /\ SameReader(q) /\ SameEnd(q) /\ sent'[q] = sent[q] /\ last'[q] = last[q]
  BY OthersUntouched DEF Untouched, SameStream, SameReader, SameEnd, OnTheWay, ReaderOf

LEMMA ConcatAppend ==
  ASSUME NEW h \in Seq(Event), NEW b \in Seq(Event), NEW e \in Event
  PROVE  h \o Append(b, e) = Append(h \o b, e)
<1>1. <<e>> \in Seq(Event) /\ h \o b \in Seq(Event)
  BY ConcatProperties
<1>2. (h \o b) \o <<e>> = h \o (b \o <<e>>)
  BY <1>1, ConcatAssociative
<1>3. Append(b, e) = b \o <<e>> /\ Append(h \o b, e) = (h \o b) \o <<e>>
  BY <1>1, AppendIsConcat
<1> QED
  BY <1>2, <1>3

\* emit is the abstract Send.
LEMMA EmitSends ==
  ASSUME IInv, NEW r \in Requests, NEW kind \in Kinds, Emit(r, kind), sent[r] <= MaxEvents,
         client' = client, hand' = hand
  PROVE  \/ client[r] # "gone" /\ OnTheWay(r)' = Append(OnTheWay(r), sent[r] + 1)
         \/ (client[r] = "gone" \/ Len(OnTheWay(r)) >= Capacity) /\ SameStream(r)
<1>1. TypeOK /\ sent[r] \in Nat
  BY WebAssumption DEF IInv, TypeOK
<1>2. CASE client[r] = "gone"
  BY <1>2 DEF OnTheWay, SameStream
<1>3. CASE client[r] # "gone" /\ Len(buf[r]) < Capacity
  <2> DEFINE e == [n |-> sent[r] + 1, kind |-> kind]
  <2>1. e \in Event
    BY <1>1, WebAssumption DEF Event
  <2>2. buf'[r] = Append(buf[r], e)
    BY <1>1, <1>3, EmitType
  <2>3. hand[r] \o Append(buf[r], e) = Append(hand[r] \o buf[r], e)
    <3>1. hand[r] = <<>> \/ \E d \in Event : hand[r] = <<d>>
      BY <1>1 DEF TypeOK
    <3>2. buf[r] \in Seq(Event)
      BY <1>1 DEF TypeOK
    <3>3. <<>> \in Seq(Event) /\ \A d \in Event : <<d>> \in Seq(Event)
      OBVIOUS
    <3> HIDE DEF e
    <3> QED
      BY <2>1, <3>1, <3>2, <3>3, ConcatAppend
  <2>4. OnTheWay(r)' = Numbers(hand[r] \o Append(buf[r], e))
    BY <1>3, <2>2 DEF OnTheWay, Numbers
  <2>5. Numbers(Append(hand[r] \o buf[r], e)) = Append(Numbers(hand[r] \o buf[r]), e.n)
    BY <1>1, <2>1, OnTheWayIs, NumbersAppend
  <2> QED
    BY <1>1, <1>3, <2>3, <2>4, <2>5, OnTheWayIs
<1>4. CASE client[r] # "gone" /\ ~(Len(buf[r]) < Capacity)
  <2>1. buf'[r] = buf[r]
    BY <1>1, <1>4, EmitType
  <2>2. SameStream(r)
    BY <1>4, <2>1 DEF SameStream, OnTheWay
  <2>3. Len(OnTheWay(r)) = Len(hand[r] \o buf[r])
    BY <1>1, <1>4, OnTheWayIs, NumbersType
  <2>4. /\ Len(hand[r] \o buf[r]) \in Nat /\ Len(buf[r]) \in Nat /\ Capacity \in Nat
        /\ Len(hand[r] \o buf[r]) >= Len(buf[r])
    BY <1>1, OnTheWayIs, LenProperties, WebAssumption DEF TypeOK
  <2>5. \A k, m, c \in Nat : k >= m /\ ~(m < c) => k >= c
    OBVIOUS
  <2>6. Len(OnTheWay(r)) >= Capacity
    BY <1>4, <2>3, <2>4, <2>5, Zenon
  <2> QED
    BY <2>2, <2>6
<1> QED
  BY <1>2, <1>3, <1>4

\* Taking an event from the channel changes nothing; a write to the page
\* delivers the oldest event on its way.
LEMMA TakeAndWrite ==
  ASSUME IInv, NEW r \in Requests
  PROVE  /\ NextEvent(r) => SameStream(r)
         /\ WriteToPage(r) =>
              /\ OnTheWay(r) # <<>> /\ last'[r] = Head(OnTheWay(r))
              /\ OnTheWay(r)' = IF client'[r] = "gone" THEN <<>> ELSE Tail(OnTheWay(r))
<1>1. TypeOK /\ Tied(r) /\ buf[r] \in Seq(Event)
  BY DEF IInv, TypeOK
<1>2. ASSUME NextEvent(r) PROVE SameStream(r)
  <2>1. hand[r] = <<>> /\ buf[r] # <<>> /\ client' = client
    BY <1>1, <1>2 DEF NextEvent, Tied
  <2>2. hand'[r] = <<Head(buf[r])>> /\ buf'[r] = Tail(buf[r])
    BY <1>1, <1>2 DEF NextEvent, TypeOK
  <2>3. <<Head(buf[r])>> \o Tail(buf[r]) = buf[r] /\ <<>> \o buf[r] = buf[r]
    BY <1>1, <2>1
  <2> QED
    BY <2>1, <2>2, <2>3 DEF SameStream, OnTheWay
<1>3. ASSUME WriteToPage(r)
      PROVE  /\ OnTheWay(r) # <<>> /\ last'[r] = Head(OnTheWay(r))
             /\ OnTheWay(r)' = IF client'[r] = "gone" THEN <<>> ELSE Tail(OnTheWay(r))
  <2>1. PICK e \in Event : hand[r] = <<e>>
    BY <1>1, <1>3 DEF WriteToPage, Tied, TypeOK
  <2>2. client[r] = "streaming" /\ last'[r] = e.n /\ hand'[r] = <<>> /\ buf' = buf
    BY <1>1, <1>3, <2>1 DEF WriteToPage, TypeOK
  <2> DEFINE p == <<e>> \o buf[r]
  <2>3. p \in Seq(Event) /\ p # <<>> /\ Head(p) = e /\ Tail(p) = buf[r] /\ <<>> \o buf[r] = buf[r]
    BY <1>1
  <2>4. OnTheWay(r) = Numbers(p)
    BY <1>1, <2>1, <2>2, OnTheWayIs
  <2>5. OnTheWay(r)' = IF client'[r] = "gone" THEN <<>> ELSE Numbers(buf[r])
    BY <2>2, <2>3 DEF OnTheWay, Numbers
  <2> HIDE DEF p
  <2>6. Numbers(p) # <<>> /\ Head(Numbers(p)) = Head(p).n /\ Numbers(Tail(p)) = Tail(Numbers(p))
    BY <2>3, NumbersTail
  <2> QED
    BY <2>2, <2>3, <2>4, <2>5, <2>6
<1> QED
  BY <1>2, <1>3

\* A step of one request that leaves its stream as it is changes no stream.
LEMMA StreamStutters ==
  ASSUME IInv, NEW r \in Requests, RequestStep(r), TypeOK',
         SameStream(r), SameReader(r), SameEnd(r), sent'[r] = sent[r], last'[r] = last[r]
  PROVE  UNCHANGED Stream!vars
<1>1. sent' = sent /\ last' = last
  <2>1. \A q \in Requests : sent'[q] = sent[q] /\ last'[q] = last[q]
    BY OthersStreams DEF IInv
  <2>2. /\ sent \in [Requests -> 0..(MaxEvents + 1)] /\ sent' \in [Requests -> 0..(MaxEvents + 1)]
        /\ last \in [Requests -> 0..(MaxEvents + 1)] /\ last' \in [Requests -> 0..(MaxEvents + 1)]
    BY DEF IInv, TypeOK
  <2> QED
    BY <2>1, <2>2
<1>2. [q \in Requests |-> OnTheWay(q)]' = [q \in Requests |-> OnTheWay(q)]
  BY OthersStreams DEF IInv, SameStream
<1>3. [q \in Requests |-> ReaderOf(q)]' = [q \in Requests |-> ReaderOf(q)]
  BY OthersStreams DEF IInv, SameReader
<1>4. [q \in Requests |-> scan[q] = "ended"]' = [q \in Requests |-> scan[q] = "ended"]
  BY OthersStreams DEF IInv, SameEnd
<1> QED
  BY <1>1, <1>2, <1>3, <1>4 DEF Stream!vars

\* A step of one request is a step of its stream, or changes none.
LEMMA RequestRefines ==
  ASSUME IInv, NEW r \in Requests, RequestStep(r), TypeOK'
  PROVE  [Stream!Next]_Stream!vars
<1>1. TypeOK /\ Tied(r)
  BY DEF IInv
<1>2. \A q \in Requests \ {r} :
        SameStream(q) /\ SameReader(q) /\ SameEnd(q) /\ sent'[q] = sent[q] /\ last'[q] = last[q]
  BY <1>1, OthersStreams
<1> USE DEF GoTo, handler, pipeline
<1>3. ASSUME NEW kind \in Kinds, Emit(r, kind), scan[r] = "running", scan'[r] # "ended",
             client' = client, hand' = hand, pc' = pc, last' = last
      PROVE  Stream!Next
  <2>1. sent[r] <= MaxEvents
    BY <1>1, <1>3 DEF Tied
  <2>2. sent' = [sent EXCEPT ![r] = sent[r] + 1]
    BY <1>3 DEF Emit
  <2>3. [q \in Requests |-> ReaderOf(q)]' = [q \in Requests |-> ReaderOf(q)]
    BY <1>3 DEF ReaderOf
  <2>4. [q \in Requests |-> scan[q] = "ended"]' = [q \in Requests |-> scan[q] = "ended"]
    BY <1>2, <1>3 DEF SameEnd
  <2>5. CASE client[r] # "gone" /\ OnTheWay(r)' = Append(OnTheWay(r), sent[r] + 1)
    <3>1. [q \in Requests |-> OnTheWay(q)]'
            = [[q \in Requests |-> OnTheWay(q)] EXCEPT ![r] = Append(@, sent[r] + 1)]
      BY <1>2, <2>5 DEF SameStream
    <3>2. ReaderOf(r) # "left"
      BY <2>5 DEF ReaderOf
    <3>3. Stream!Send(r)
      BY <1>3, <2>2, <2>3, <2>4, <3>1, <3>2 DEF Stream!Send
    <3> QED
      BY <3>3 DEF Stream!Next
  <2>6. CASE (client[r] = "gone" \/ Len(OnTheWay(r)) >= Capacity) /\ SameStream(r)
    <3>1. [q \in Requests |-> OnTheWay(q)]' = [q \in Requests |-> OnTheWay(q)]
      BY <1>2, <2>6 DEF SameStream
    <3>2. client[r] = "gone" => ReaderOf(r) = "left"
      BY DEF ReaderOf
    <3>3. Stream!Send(r)
      BY <1>3, <2>2, <2>3, <2>4, <2>6, <3>1, <3>2 DEF Stream!Send
    <3> QED
      BY <3>3 DEF Stream!Next
  <2> QED
    BY <1>3, <2>1, <2>5, <2>6, EmitSends
<1>4. CASE Up /\ (Progress(r) \/ Complete(r))
  <2>1. PICK kind \in Kinds : Emit(r, kind)
    BY <1>4 DEF Progress, Complete, Kinds
  <2>2. /\ scan[r] = "running" /\ scan'[r] # "ended"
        /\ client' = client /\ hand' = hand /\ pc' = pc /\ last' = last
    BY <1>1, <1>4 DEF Progress, Complete, TypeOK
  <2> QED
    BY <1>3, <2>1, <2>2
<1>5. CASE Up /\ CloseStream(r)
  <2>1. [q \in Requests |-> scan[q] = "ended"]'
          = [[q \in Requests |-> scan[q] = "ended"] EXCEPT ![r] = TRUE]
    BY <1>1, <1>5 DEF CloseStream, TypeOK
  <2>2. [q \in Requests |-> OnTheWay(q)]' = [q \in Requests |-> OnTheWay(q)]
    BY <1>5 DEF CloseStream, OnTheWay
  <2>3. [q \in Requests |-> ReaderOf(q)]' = [q \in Requests |-> ReaderOf(q)]
    BY <1>5 DEF CloseStream, ReaderOf
  <2>4. Stream!Close(r)
    BY <1>5, <2>1, <2>2, <2>3 DEF CloseStream, Stream!Close
  <2> QED
    BY <2>4 DEF Stream!Next
<1>6. CASE WriteToPage(r)
  <2>1. ReaderOf(r) = "reading"
    BY <1>6 DEF WriteToPage, ReaderOf
  <2>2. ReaderOf(r)' = IF client'[r] = "gone" THEN "left" ELSE "reading"
    BY <1>1, <1>6 DEF WriteToPage, ReaderOf, TypeOK
  <2>3. /\ last' = [last EXCEPT ![r] = Head(OnTheWay(r))] /\ OnTheWay(r) # <<>>
        /\ OnTheWay(r)' = IF client'[r] = "gone" THEN <<>> ELSE Tail(OnTheWay(r))
    BY <1>1, <1>6, TakeAndWrite DEF WriteToPage, TypeOK
  <2>4. sent' = sent /\ scan' = scan
    BY <1>6 DEF WriteToPage
  <2>5. CASE client'[r] # "gone"
    <3>1. [q \in Requests |-> OnTheWay(q)]'
            = [[q \in Requests |-> OnTheWay(q)] EXCEPT ![r] = Tail(@)]
      BY <1>2, <2>3, <2>5 DEF SameStream
    <3>2. [q \in Requests |-> ReaderOf(q)]' = [q \in Requests |-> ReaderOf(q)]
      BY <1>2, <2>1, <2>2, <2>5 DEF SameReader
    <3>3. Stream!Receive(r)
      BY <2>1, <2>3, <2>4, <3>1, <3>2 DEF Stream!Receive
    <3> QED
      BY <3>3 DEF Stream!Next
  <2>6. CASE client'[r] = "gone"
    <3>1. [q \in Requests |-> OnTheWay(q)]'
            = [[q \in Requests |-> OnTheWay(q)] EXCEPT ![r] = <<>>]
      BY <1>2, <2>3, <2>6 DEF SameStream
    <3>2. [q \in Requests |-> ReaderOf(q)]'
            = [[q \in Requests |-> ReaderOf(q)] EXCEPT ![r] = "left"]
      BY <1>2, <2>2, <2>6 DEF SameReader
    <3>3. Stream!Receive(r)
      BY <2>1, <2>3, <2>4, <3>1, <3>2 DEF Stream!Receive
    <3> QED
      BY <3>3 DEF Stream!Next
  <2> QED
    BY <2>5, <2>6
<1>7. CASE StreamEnds(r) /\ client[r] # "gone"
  <2>1. ReaderOf(r) = "reading" /\ scan[r] = "ended"
    BY <1>7 DEF StreamEnds, ReaderOf
  <2>2. [q \in Requests |-> ReaderOf(q)]'
          = [[q \in Requests |-> ReaderOf(q)] EXCEPT ![r] = "ended"]
    <3>1. ReaderOf(r)' = "ended"
      BY <1>1, <1>7 DEF StreamEnds, ReaderOf, TypeOK
    <3> QED
      BY <1>2, <3>1 DEF SameReader
  <2>3. OnTheWay(r) = <<>>
    <3>1. hand[r] = <<>> /\ buf[r] = <<>>
      BY <1>1, <1>7 DEF StreamEnds, Tied
    <3>2. OnTheWay(r) = Numbers(<<>>)
      BY <1>1, <1>7, <3>1, OnTheWayIs
    <3>3. Numbers(<<>>) = <<>>
      BY DEF Numbers
    <3> QED
      BY <3>2, <3>3
  <2>4. [q \in Requests |-> OnTheWay(q)]' = [q \in Requests |-> OnTheWay(q)]
    BY <1>7 DEF StreamEnds, OnTheWay
  <2>5. Stream!MeetEnd(r)
    BY <1>7, <2>1, <2>2, <2>3, <2>4 DEF StreamEnds, Stream!MeetEnd
  <2> QED
    BY <2>5 DEF Stream!Next
<1>8. CASE /\ LeavePage(r) \/ ConnectionEnds(r) \/ Refuse(r)
           /\ client'[r] = "gone"
  <2>1. [q \in Requests |-> ReaderOf(q)]'
          = [[q \in Requests |-> ReaderOf(q)] EXCEPT ![r] = "left"]
    BY <1>2, <1>8 DEF SameReader, ReaderOf
  <2>2. [q \in Requests |-> OnTheWay(q)]'
          = [[q \in Requests |-> OnTheWay(q)] EXCEPT ![r] = <<>>]
    BY <1>2, <1>8 DEF SameStream, OnTheWay
  <2>3. Stream!Leave(r)
    BY <1>8, <2>1, <2>2 DEF LeavePage, ConnectionEnds, Refuse, Stream!Leave
  <2> QED
    BY <2>3 DEF Stream!Next
<1>9. (LeavePage(r) \/ ConnectionEnds(r) \/ Refuse(r)) => client'[r] = "gone"
  BY <1>1 DEF LeavePage, ConnectionEnds, Refuse, PageReads, Closing, Tied, TypeOK
<1>10. ASSUME \/ Up /\ Abort(r)
              \/ Acquire(r) \/ CheckTarget(r) \/ InitFails(r) \/ StartScan(r)
              \/ WriteLost(r) \/ Watch(r) \/ CloseRunner(r) \/ Release(r)
              \/ StreamEnds(r) /\ client[r] = "gone"
              \/ EndContext(r) \/ Connect(r) \/ NextEvent(r)
       PROVE  UNCHANGED Stream!vars
  <2>1. sent'[r] = sent[r] /\ last'[r] = last[r]
    BY <1>10 DEF Abort, Acquire, CheckTarget, InitFails, StartScan, WriteLost, Watch,
                 CloseRunner, Release, StreamEnds, EndContext, Connect, NextEvent
  <2>2. SameEnd(r)
    BY <1>1, <1>10 DEF Abort, Acquire, CheckTarget, InitFails, StartScan, WriteLost, Watch,
                       CloseRunner, Release, StreamEnds, EndContext, Connect, NextEvent,
                       SameEnd, TypeOK, Tied, BeforeScan
  <2>3. SameReader(r)
    <3>1. CASE WriteLost(r) \/ (StreamEnds(r) /\ client[r] = "gone")
      BY <3>1 DEF WriteLost, StreamEnds, SameReader, ReaderOf
    <3>2. CASE Up /\ Abort(r)
      BY <3>2 DEF Abort, SameReader, ReaderOf
    <3>5. CASE Acquire(r) \/ CheckTarget(r) \/ InitFails(r)
      BY <1>1, <3>5 DEF Acquire, CheckTarget, InitFails, SameReader, ReaderOf, TypeOK
    <3>6. CASE StartScan(r) \/ NextEvent(r)
      BY <1>1, <3>6 DEF StartScan, NextEvent, SameReader, ReaderOf, TypeOK
    <3>3. CASE CloseRunner(r) \/ Release(r) \/ EndContext(r) \/ Connect(r)
      BY <1>1, <3>3 DEF CloseRunner, Release, EndContext, Connect, SameReader, ReaderOf,
                        TypeOK, Tied
    <3>4. CASE Watch(r)
      BY <1>1, <3>4 DEF Watch, SameReader, ReaderOf, TypeOK, Tied
    <3> QED
      BY <1>10, <3>1, <3>2, <3>3, <3>4, <3>5, <3>6
  <2>4. SameStream(r)
    <3>1. CASE NextEvent(r)
      BY <3>1, TakeAndWrite
    <3>2. CASE WriteLost(r)
      BY <3>2 DEF WriteLost, SameStream, OnTheWay
    <3>3. CASE \/ Up /\ Abort(r)
               \/ Acquire(r) \/ CheckTarget(r) \/ InitFails(r) \/ StartScan(r)
               \/ Watch(r) \/ CloseRunner(r) \/ Release(r) \/ StreamEnds(r) \/ EndContext(r)
      BY <3>3 DEF Abort, Acquire, CheckTarget, InitFails, StartScan, Watch, CloseRunner,
                  Release, StreamEnds, EndContext, SameStream, OnTheWay
    <3>4. CASE Connect(r)
      BY <1>1, <3>4 DEF Connect, SameStream, OnTheWay, TypeOK
    <3> QED
      BY <1>10, <3>1, <3>2, <3>3, <3>4
  <2> QED
    BY <2>1, <2>2, <2>3, <2>4, StreamStutters
<1> QED
  BY <1>4, <1>5, <1>6, <1>7, <1>8, <1>9, <1>10 DEF RequestStep, Pipeline, HandlerStep

\* The event channel, handleScan and the page do what LossyStream promises:
\* a page gets its events in order and none twice, misses only what emit
\* dropped with the channel full, and sees the end only after them all.
THEOREM StreamKept == Spec => KeepsStream
<1>1. Init => Stream!Init
  <2> SUFFICES ASSUME Init PROVE Stream!Init
    OBVIOUS
  <2>1. \A r \in Requests : OnTheWay(r) = <<>>
    <3> SUFFICES ASSUME NEW r \in Requests PROVE OnTheWay(r) = <<>>
      OBVIOUS
    <3>1. hand[r] = <<>> /\ buf[r] = <<>> /\ TypeOK
      BY InitIInv DEF Init, IInv
    <3>2. Numbers(<<>>) = <<>>
      BY DEF Numbers
    <3> QED
      BY <3>1, <3>2, OnTheWayIs
  <2>2. \A r \in Requests : ReaderOf(r) = "reading" /\ scan[r] # "ended"
    BY DEF Init, ReaderOf
  <2> QED
    BY <2>1, <2>2 DEF Init, Stream!Init
<1>2. IInv /\ IInv' /\ [Next]_vars => [Stream!Next]_Stream!vars
  <2> SUFFICES ASSUME IInv, IInv', [Next]_vars PROVE [Stream!Next]_Stream!vars
    OBVIOUS
  <2>1. ASSUME NEW r \in Requests, RequestStep(r) PROVE [Stream!Next]_Stream!vars
    BY <2>1, RequestRefines DEF IInv
  <2>2. CASE Interrupt \/ Exit \/ UNCHANGED vars
    BY <2>2 DEF Interrupt, Exit, vars, handler, pipeline, Stream!vars, OnTheWay, ReaderOf
  <2> QED
    BY <2>1, <2>2 DEF Next, Done, RequestStep
<1> QED
  BY <1>1, <1>2, Invariance, PTL DEF Spec, KeepsStream, Stream!Spec

=============================================================================
