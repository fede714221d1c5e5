------------------------------ MODULE WebServer ------------------------------
(***************************************************************************)
(* internal/web: Serve and handleScan, with the pipeline goroutine of each *)
(* request and its event channel (internal/pipeline: Run, emit), the page  *)
(* that reads the stream (static/index.html) and the end of the process    *)
(* (cmd/asm main).                                                         *)
(*                                                                         *)
(* A request is served once.  Per request there are four actors: the       *)
(* client, the handler, the pipeline and the context that net/http ends.   *)
(* Their lifetimes differ, and that is what the module is about; what the  *)
(* pipeline does between two events is the subject of Runner.  A failed    *)
(* store call is an error event like any other, so of the store only its   *)
(* being open is followed; a runner without one is closed all the same.    *)
(***************************************************************************)
EXTENDS Naturals, Sequences, FiniteSets

CONSTANTS
  Requests,    \* GET /scan requests
  MaxSlots,    \* maxConcurrentScans, 50 in the code
  Capacity,    \* eventChannelBufferSize, 64 in the code
  MaxEvents,   \* bound: events a scan emits before its last one
  MayLeave     \* the user may close the page, or the connection may fail

ASSUME WebAssumption ==
  /\ IsFiniteSet(Requests)
  /\ MaxSlots \in Nat \ {0}
  /\ Capacity \in Nat \ {0}
  /\ MaxEvents \in Nat
  /\ MayLeave \in BOOLEAN

VARIABLES
  server,   \* "serving", "stopping" (Shutdown called), "exited"
  slots,    \* len(scanSemaphore)
  client,   \* per request: "idle", "streaming", "gone"
  pc,       \* the handler
  ctx,      \* r.Context() is done
  runner,   \* "none", "open" or, its store with it, "closed"
  scan,     \* the pipeline goroutine: "none", "running", "closing", "ended"
  sent,     \* events it emitted, dropped ones included
  buf,      \* the event channel
  hand,     \* the event the handler has received and not yet written, if any
  last      \* ghost: the number of the last event that reached the page

handler  == <<slots, pc, runner, hand>>
pipeline == <<scan, sent>>
vars     == <<server, slots, client, pc, ctx, runner, scan, sent, buf, hand, last>>

Kinds == {"news", "error", "done"}
Event == [n : 1..(MaxEvents + 1), kind : Kinds]

\* Where a handler owns a slot of the semaphore.
Holding == {"check", "invalid", "init", "range", "write", "watch", "close", "release"}
Places  == {"none", "acquire", "full", "returned"} \cup Holding
Holds(r) == pc[r] \in Holding

Init ==
  /\ server = "serving" /\ slots = 0
  /\ client = [r \in Requests |-> "idle"] /\ pc = [r \in Requests |-> "none"]
  /\ ctx = [r \in Requests |-> FALSE] /\ runner = [r \in Requests |-> "none"]
  /\ scan = [r \in Requests |-> "none"] /\ sent = [r \in Requests |-> 0]
  /\ buf = [r \in Requests |-> <<>>] /\ hand = [r \in Requests |-> <<>>]
  /\ last = [r \in Requests |-> 0]

Up == server # "exited"

GoTo(r, place) == pc' = [pc EXCEPT ![r] = place]

----------------------------------------------------------------------------
(* The pipeline goroutine.                                                 *)

EmitWaiting(r, kind) ==   \* mutant: a plain send, which waits for room
  /\ Len(buf[r]) < Capacity
  /\ sent' = [sent EXCEPT ![r] = @ + 1]
  /\ buf' = [buf EXCEPT ![r] = Append(@, [n |-> sent[r] + 1, kind |-> kind])]

EmitUnbounded(r, kind) ==   \* mutant: the channel has no bound
  /\ sent' = [sent EXCEPT ![r] = @ + 1]
  /\ buf' = [buf EXCEPT ![r] = Append(@, [n |-> sent[r] + 1, kind |-> kind])]

EmitOverwriting(r, kind) ==   \* mutant: a full channel makes room by losing its oldest
  /\ sent' = [sent EXCEPT ![r] = @ + 1]
  /\ buf' = [buf EXCEPT ![r] = LET room == IF Len(@) < Capacity THEN @ ELSE Tail(@)
                               IN Append(room, [n |-> sent[r] + 1, kind |-> kind])]

\* emit: dropped when the channel is full, never waiting.
Emit(r, kind) ==
  /\ sent' = [sent EXCEPT ![r] = @ + 1]
  /\ buf' = [buf EXCEPT ![r] = IF Len(@) < Capacity
                                 THEN Append(@, [n |-> sent[r] + 1, kind |-> kind]) ELSE @]

\* Any event but the last: progress, a finding, a difference, or an error.
Progress(r) ==
  /\ scan[r] = "running" /\ sent[r] < MaxEvents
  /\ \E kind \in Kinds \ {"done"} : Emit(r, kind)
  /\ UNCHANGED <<server, handler, client, ctx, scan, last>>

\* execute returns at one of its checks on ctx, without a last event.
Abort(r) ==
  /\ scan[r] = "running" /\ ctx[r]
  /\ scan' = [scan EXCEPT ![r] = "closing"]
  /\ UNCHANGED <<server, handler, client, ctx, sent, buf, last>>

\* execute runs to its end.
Complete(r) ==
  /\ scan[r] = "running"
  /\ Emit(r, "done")
  /\ scan' = [scan EXCEPT ![r] = "closing"]
  /\ UNCHANGED <<server, handler, client, ctx, last>>

CloseStreamUnlessAborted(r) ==   \* mutant: close(ch) not deferred, an early return skips it
  /\ scan[r] = "closing" /\ ~ctx[r]
  /\ scan' = [scan EXCEPT ![r] = "ended"]
  /\ UNCHANGED <<server, handler, client, ctx, sent, buf, last>>

\* The deferred close(ch).
CloseStream(r) ==
  /\ scan[r] = "closing"
  /\ scan' = [scan EXCEPT ![r] = "ended"]
  /\ UNCHANGED <<server, handler, client, ctx, sent, buf, last>>

Pipeline(r) == Up /\ (Progress(r) \/ Abort(r) \/ Complete(r) \/ CloseStream(r))

----------------------------------------------------------------------------
(* handleScan.                                                             *)

\* The select on scanSemaphore: a slot or a refusal, at once.
Acquire(r) ==
  /\ pc[r] = "acquire"
  /\ \/ slots < MaxSlots /\ slots' = slots + 1 /\ GoTo(r, "check")
     \/ slots = MaxSlots /\ UNCHANGED slots /\ GoTo(r, "full")
  /\ UNCHANGED <<server, client, ctx, runner, pipeline, buf, hand, last>>

\* The target is missing or private, or it is not.
CheckTarget(r) ==
  /\ pc[r] = "check"
  /\ GoTo(r, "invalid") \/ GoTo(r, "init")
  /\ UNCHANGED <<server, slots, client, ctx, runner, pipeline, buf, hand, last>>

InitFails(r) ==
  /\ pc[r] = "init" /\ GoTo(r, "invalid")
  /\ UNCHANGED <<server, slots, client, ctx, runner, pipeline, buf, hand, last>>

\* NewRunner, and Run, which starts the pipeline.
StartScan(r) ==
  /\ pc[r] = "init" /\ GoTo(r, "range")
  /\ runner' = [runner EXCEPT ![r] = "open"]
  /\ scan' = [scan EXCEPT ![r] = "running"]
  /\ UNCHANGED <<server, slots, client, ctx, sent, buf, hand, last>>

\* The listeners of the page close the EventSource on done, and on error:
\* onerror is the handler of every event of that name.
Closing == {"error", "done"}

PageReads(r, kind) ==
  client' = [client EXCEPT ![r] = IF kind \in Closing THEN "gone" ELSE @]

RefuseKeepingSlot(r) ==   \* mutant: the release is deferred only after the checks
  /\ pc[r] \in {"full", "invalid"} /\ GoTo(r, "returned")
  /\ IF client[r] = "streaming" THEN PageReads(r, "error") ELSE UNCHANGED client
  /\ UNCHANGED <<server, slots, ctx, runner, pipeline, buf, hand, last>>

\* writeSSEError and return; without a slot there is nothing to release.
Refuse(r) ==
  /\ \/ pc[r] = "full" /\ GoTo(r, "returned")
     \/ pc[r] = "invalid" /\ GoTo(r, "release")
  /\ IF client[r] = "streaming" THEN PageReads(r, "error") ELSE UNCHANGED client
  /\ UNCHANGED <<server, slots, ctx, runner, pipeline, buf, hand, last>>

\* range over the channel: the next event.
NextEvent(r) ==
  /\ pc[r] = "range" /\ buf[r] # <<>>
  /\ hand' = [hand EXCEPT ![r] = <<Head(buf[r])>>]
  /\ buf' = [buf EXCEPT ![r] = Tail(@)]
  /\ GoTo(r, "write")
  /\ UNCHANGED <<server, slots, client, ctx, runner, pipeline, last>>

StreamEndsEmpty(r) ==   \* mutant: an empty channel taken for a closed one
  /\ pc[r] = "range" /\ buf[r] = <<>>
  /\ GoTo(r, "close")
  /\ UNCHANGED <<server, slots, client, ctx, runner, pipeline, buf, hand, last>>

\* range ends: the channel is closed and drained.
StreamEnds(r) ==
  /\ pc[r] = "range" /\ buf[r] = <<>> /\ scan[r] = "ended"
  /\ GoTo(r, "close")
  /\ UNCHANGED <<server, slots, client, ctx, runner, pipeline, buf, hand, last>>

\* The event reaches the page, which reacts to it.
WriteToPage(r) ==
  /\ pc[r] = "write" /\ client[r] = "streaming"
  /\ last' = [last EXCEPT ![r] = Head(hand[r]).n]
  /\ PageReads(r, Head(hand[r]).kind)
  /\ hand' = [hand EXCEPT ![r] = <<>>]
  /\ GoTo(r, "watch")
  /\ UNCHANGED <<server, slots, ctx, runner, pipeline, buf>>

\* With the client gone the write fails, or is buffered and goes nowhere.
WriteLost(r) ==
  /\ pc[r] = "write" /\ client[r] = "gone"
  /\ hand' = [hand EXCEPT ![r] = <<>>]
  /\ GoTo(r, "close") \/ GoTo(r, "watch")
  /\ UNCHANGED <<server, slots, client, ctx, runner, pipeline, buf, last>>

\* The select on r.Context() after each event.
Watch(r) ==
  /\ pc[r] = "watch"
  /\ GoTo(r, IF ctx[r] THEN "close" ELSE "range")
  /\ UNCHANGED <<server, slots, client, ctx, runner, pipeline, buf, hand, last>>

\* The deferred runner.Close(), whether or not the pipeline still runs.
CloseRunner(r) ==
  /\ pc[r] = "close" /\ GoTo(r, "release")
  /\ runner' = [runner EXCEPT ![r] = "closed"]
  /\ UNCHANGED <<server, slots, client, ctx, pipeline, buf, hand, last>>

\* The deferred receive from scanSemaphore.
Release(r) ==
  /\ pc[r] = "release" /\ GoTo(r, "returned")
  /\ slots' = slots - 1
  /\ UNCHANGED <<server, client, ctx, runner, pipeline, buf, hand, last>>

\* All but the write to a page that is there, which waits for it to read:
\* the server has no WriteTimeout.
HandlerStep(r) ==
  \/ Acquire(r) \/ CheckTarget(r) \/ InitFails(r) \/ StartScan(r) \/ Refuse(r)
  \/ NextEvent(r) \/ StreamEnds(r) \/ WriteLost(r) \/ Watch(r)
  \/ CloseRunner(r) \/ Release(r)

----------------------------------------------------------------------------
(* The client, net/http and the process.                                   *)

Connect(r) ==
  /\ server = "serving" /\ client[r] = "idle"
  /\ client' = [client EXCEPT ![r] = "streaming"] /\ GoTo(r, "acquire")
  /\ UNCHANGED <<server, slots, ctx, runner, pipeline, buf, hand, last>>

LeavePage(r) ==
  /\ MayLeave /\ client[r] = "streaming"
  /\ client' = [client EXCEPT ![r] = "gone"]
  /\ UNCHANGED <<server, handler, ctx, pipeline, buf, last>>

\* The response or the process has ended; onerror closes the EventSource,
\* which would connect again otherwise.
ConnectionEnds(r) ==
  /\ client[r] = "streaming" /\ (pc[r] = "returned" \/ ~Up)
  /\ client' = [client EXCEPT ![r] = "gone"]
  /\ UNCHANGED <<server, handler, ctx, pipeline, buf, last>>

\* net/http ends the context some time after the client has gone or the
\* handler has returned.
EndContext(r) ==
  /\ ~ctx[r] /\ (client[r] = "gone" \/ pc[r] = "returned")
  /\ ctx' = [ctx EXCEPT ![r] = TRUE]
  /\ UNCHANGED <<server, handler, client, pipeline, buf, last>>

\* SIGINT: Shutdown closes the listener.
Interrupt ==
  /\ server = "serving" /\ server' = "stopping"
  /\ UNCHANGED <<handler, client, ctx, pipeline, buf, last>>

\* Serve returns as soon as Shutdown has begun, and so does main.
Exit ==
  /\ server = "stopping" /\ server' = "exited"
  /\ UNCHANGED <<handler, client, ctx, pipeline, buf, last>>

Done == ~Up /\ UNCHANGED vars

Next ==
  \/ \E r \in Requests :
       \/ Pipeline(r)
       \/ Up /\ (HandlerStep(r) \/ WriteToPage(r) \/ EndContext(r))
       \/ Connect(r) \/ LeavePage(r) \/ ConnectionEnds(r)
  \/ Interrupt \/ Exit \/ Done

Spec == Init /\ [][Next]_vars

\* The scheduler runs every goroutine that is not blocked; each step of a
\* pipeline is bounded by timeouts; net/http notices a closed connection.
\* No client need ever read, and nobody need ever interrupt the server.
Fairness == \A r \in Requests :
  /\ WF_vars(Pipeline(r))
  /\ WF_vars(Up /\ HandlerStep(r))
  /\ WF_vars(Up /\ EndContext(r))

FairSpec == Spec /\ Fairness

----------------------------------------------------------------------------
(* Properties.                                                             *)

\* Every variable has its type; the channel keeps to its capacity.
TypeOK ==
  /\ server \in {"serving", "stopping", "exited"}
  /\ slots \in 0..MaxSlots
  /\ client \in [Requests -> {"idle", "streaming", "gone"}]
  /\ pc \in [Requests -> Places] /\ ctx \in [Requests -> BOOLEAN]
  /\ runner \in [Requests -> {"none", "open", "closed"}]
  /\ scan \in [Requests -> {"none", "running", "closing", "ended"}]
  /\ sent \in [Requests -> 0..(MaxEvents + 1)]
  /\ buf \in [Requests -> Seq(Event)] /\ last \in [Requests -> 0..(MaxEvents + 1)]
  /\ hand \in [Requests -> {<<>>} \cup { <<e>> : e \in Event }]
  /\ \A r \in Requests : Len(buf[r]) <= Capacity

Holders == { r \in Requests : Holds(r) }

\* No way through handleScan loses a slot of the semaphore or frees one it
\* does not own: the semaphore counts the handlers between Acquire and Release.
SlotsMatchHandlers == slots = Cardinality(Holders)

\* The store is closed under a running pipeline, and its scan outlives its
\* slot, only when the client has gone: a scan that is watched keeps both.
WatchedScanKeepsRunner ==
  \A r \in Requests :
    scan[r] \in {"running", "closing"} /\ client[r] = "streaming"
      => Holds(r) /\ runner[r] # "closed"

\* What a reader of the channel sees of it: the events on their way to a
\* page that is still there, and where that page stands.
OnTheWay(r) ==
  LET p == hand[r] \o buf[r]
  IN IF client[r] = "gone" THEN <<>> ELSE [i \in 1..Len(p) |-> p[i].n]

ReaderOf(r) == IF client[r] = "gone" THEN "left"
               ELSE IF pc[r] \in {"close", "release", "returned"} THEN "ended"
               ELSE "reading"

\* The page gets the events of a scan in order, none twice, and none missing
\* but those emit dropped with the channel full.
Stream == INSTANCE LossyStream WITH
  Streams <- Requests,
  pending <- [r \in Requests |-> OnTheWay(r)],
  closed  <- [r \in Requests |-> scan[r] = "ended"],
  reader  <- [r \in Requests |-> ReaderOf(r)]

KeepsStream == Stream!Spec

\* A pipeline ends whatever its client and its handler do: emit never waits.
PipelineEnds ==
  \A r \in Requests : scan[r] = "running" ~> (scan[r] = "ended" \/ ~Up)

\* A client that goes away does not keep its slot, wherever its handler
\* stood; no client has to read for it.
SlotReturned ==
  \A r \in Requests : (Holds(r) /\ client[r] = "gone") ~> (~Holds(r) \/ ~Up)

\* events.go:46 calls the error events of the pipeline non-fatal.  Unless the
\* user leaves or the server stops, then, a page stays for its whole scan.
ErrorsAreNotFatal ==
  server = "serving" /\ ~MayLeave =>
    \A r \in Requests : scan[r] = "running" => client[r] = "streaming"

\* server.go:42 says that the server waits up to 5 seconds for the requests
\* in flight.  Exit waits for nothing, so it needs no clock to be refuted.
ShutdownWaits ==
  [][server # "exited" /\ server' = "exited"
       => \A r \in Requests : pc[r] \in {"none", "returned"}]_vars

=============================================================================
