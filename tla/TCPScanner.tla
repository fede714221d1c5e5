----------------------------- MODULE TCPScanner -----------------------------
(***************************************************************************)
(* internal/scanner TCPScanner.Scan: a pool of goroutines that takes jobs  *)
(* from one channel and puts open ports on another, a main goroutine that  *)
(* feeds the first and drains the second, a closer that waits for the      *)
(* pool, a ticker that limits the rate of the dials, and a context.        *)
(*                                                                         *)
(* Job j is the j-th (ip, port) pair in the order Scan sends them; the     *)
(* jobs channel, FIFO and wide enough for all, holds jobs taken+1..sent.   *)
(* Nobody depends on the order of the results, so that channel and the     *)
(* slice it is drained into are bags.  The early returns (asset without a  *)
(* name, nothing to probe) start no goroutine and are left out.            *)
(***************************************************************************)
EXTENDS Naturals, FiniteSets, Functions

CONSTANTS
  Total,        \* len(asset.IPs) * len(s.ports)
  NWorkers      \* s.workers, which NewTCPScanner makes positive

ASSUME ScannerAssumption ==
  /\ Total \in Nat \ {0}
  /\ NWorkers \in Nat \ {0}

Jobs     == 1..Total
PoolSize == IF NWorkers < Total THEN NWorkers ELSE Total
Workers  == 1..PoolSize

VARIABLES
  limited,       \* s.rateLimit > 0, the same throughout a scan
  main,          \* the goroutine of Scan: "send", "collect" or "returned"
  sent, taken,   \* jobs put on the jobs channel, jobs received from it
  jobsClosed,
  wpc, job,      \* per worker: where it is, the job it holds
  results,       \* the results channel, a bag of jobs
  resultsClosed,
  open,          \* the slice Scan builds, a bag of jobs
  cancelled,     \* ctx.Done() is closed
  tick,          \* the one-element buffer of ticker.C holds a tick
  ticks,         \* ghost: ticks delivered to that buffer
  probed,        \* ghost: jobs dialed
  accepted,      \* ghost: jobs whose dial succeeded
  late,          \* ghost: per worker, dials it began after the cancellation
  cancelTick     \* ghost: value of ticks at the cancellation

queue   == <<sent, taken, jobsClosed>>
pool    == <<wpc, job>>
output  == <<results, resultsClosed, open>>
limiter == <<limited, tick, ticks>>
ghosts  == <<probed, accepted, late, cancelTick>>
vars    == <<main, queue, pool, output, cancelled, limiter, ghosts>>

Init ==
  /\ main = "send" /\ limited \in BOOLEAN
  /\ sent = 0 /\ taken = 0 /\ jobsClosed = FALSE
  /\ wpc = [w \in Workers |-> "receive"] /\ job = [w \in Workers |-> 0]
  /\ results = [j \in Jobs |-> 0] /\ resultsClosed = FALSE
  /\ open = [j \in Jobs |-> 0]
  /\ cancelled = FALSE
  /\ tick = FALSE /\ ticks = 0
  /\ probed = {} /\ accepted = {} /\ late = [w \in Workers |-> 0] /\ cancelTick = 0

Places == {"receive", "check", "token", "dial", "put", "done"}

GoTo(w, pc) == wpc' = [wpc EXCEPT ![w] = pc]

----------------------------------------------------------------------------
(* The main goroutine.                                                     *)

SendJobOneMore ==   \* mutant: <= for <
  /\ main = "send" /\ sent <= Total
  /\ sent' = sent + 1
  /\ UNCHANGED <<main, taken, jobsClosed, pool, output, cancelled, limiter, ghosts>>

SendJob ==
  /\ main = "send" /\ sent < Total
  /\ sent' = sent + 1
  /\ UNCHANGED <<main, taken, jobsClosed, pool, output, cancelled, limiter, ghosts>>

NeverCloseJobs ==   \* mutant: close(jobs) forgotten
  /\ main = "send" /\ sent = Total
  /\ main' = "collect"
  /\ UNCHANGED <<queue, pool, output, cancelled, limiter, ghosts>>

\* close(jobs); the closer is started and the draining loop begins.
CloseJobs ==
  /\ main = "send" /\ sent = Total
  /\ jobsClosed' = TRUE
  /\ main' = "collect"
  /\ UNCHANGED <<sent, taken, pool, output, cancelled, limiter, ghosts>>

Collect(j) ==
  /\ main = "collect" /\ results[j] > 0
  /\ results' = [results EXCEPT ![j] = @ - 1]
  /\ open' = [open EXCEPT ![j] = @ + 1]
  /\ UNCHANGED <<main, queue, pool, resultsClosed, cancelled, limiter, ghosts>>

\* Mutant: the caller leaves as soon as results is closed or ctx cancelled.
ReturnUndrained ==
  /\ main = "collect"
  /\ resultsClosed \/ cancelled
  /\ main' = "returned"
  /\ UNCHANGED <<queue, pool, output, cancelled, limiter, ghosts>>

\* range over results ends: closed and drained.
Return ==
  /\ main = "collect"
  /\ resultsClosed /\ \A j \in Jobs : results[j] = 0
  /\ main' = "returned"
  /\ UNCHANGED <<queue, pool, output, cancelled, limiter, ghosts>>

CloseResultsEarly ==   \* mutant: wg.Wait dropped, only the jobs channel is looked at
  /\ jobsClosed /\ taken = sent /\ ~resultsClosed
  /\ resultsClosed' = TRUE
  /\ UNCHANGED <<main, queue, pool, results, open, cancelled, limiter, ghosts>>

\* The closer goroutine: wg.Wait(), close(results).
CloseResults ==
  /\ jobsClosed /\ ~resultsClosed
  /\ \A w \in Workers : wpc[w] = "done"
  /\ resultsClosed' = TRUE
  /\ UNCHANGED <<main, queue, pool, results, open, cancelled, limiter, ghosts>>

----------------------------------------------------------------------------
(* A worker.                                                               *)

Receive(w) ==
  /\ wpc[w] = "receive" /\ taken < sent
  /\ taken' = taken + 1
  /\ job' = [job EXCEPT ![w] = taken + 1]
  /\ GoTo(w, "check")
  /\ UNCHANGED <<main, sent, jobsClosed, output, cancelled, limiter, ghosts>>

\* range over jobs ends: closed and drained.
ReceiveClosed(w) ==
  /\ wpc[w] = "receive" /\ taken = sent /\ jobsClosed
  /\ GoTo(w, "done")
  /\ UNCHANGED <<main, queue, job, output, cancelled, limiter, ghosts>>

CheckIgnoringCtx(w) ==   \* mutant: the select on ctx.Done() is gone
  /\ wpc[w] = "check"
  /\ GoTo(w, IF limited THEN "token" ELSE "dial")
  /\ UNCHANGED <<main, queue, job, output, cancelled, limiter, ghosts>>

\* The select on ctx.Done(): a cancelled worker drops its job and ends.
Check(w) ==
  /\ wpc[w] = "check"
  /\ GoTo(w, IF cancelled THEN "done" ELSE IF limited THEN "token" ELSE "dial")
  /\ UNCHANGED <<main, queue, job, output, cancelled, limiter, ghosts>>

TakeTokenIfAny(w) ==   \* mutant: a select with a default instead of a receive
  /\ wpc[w] = "token"
  /\ tick' = FALSE
  /\ GoTo(w, "dial")
  /\ UNCHANGED <<main, queue, job, output, cancelled, limited, ticks, ghosts>>

\* <-tokens, which nothing but a tick ends.
TakeToken(w) ==
  /\ wpc[w] = "token" /\ tick
  /\ tick' = FALSE
  /\ GoTo(w, "dial")
  /\ UNCHANGED <<main, queue, job, output, cancelled, limited, ticks, ghosts>>

DialAs(w, refused) ==
  /\ wpc[w] = "dial"
  /\ probed' = probed \cup {job[w]}
  /\ late' = [late EXCEPT ![w] = IF cancelled THEN @ + 1 ELSE @]
  /\ \/ accepted' = accepted \cup {job[w]} /\ GoTo(w, "put")
     \/ UNCHANGED accepted /\ GoTo(w, refused)
  /\ UNCHANGED <<main, queue, job, output, cancelled, limiter, cancelTick>>

DialGivingUp(w) == DialAs(w, "done")     \* mutant: return where the code has continue

\* net.DialTimeout ends, one way or the other.
Dial(w) == DialAs(w, "receive")

PutThen(w, pc) ==
  /\ wpc[w] = "put" /\ SumFunction(results) < Total
  /\ results' = [results EXCEPT ![job[w]] = @ + 1]
  /\ GoTo(w, pc)
  /\ UNCHANGED <<main, queue, job, resultsClosed, open, cancelled, limiter, ghosts>>

PutAndDialAgain(w) == PutThen(w, "dial")    \* mutant: the loop keeps its job

\* results <- port; the channel has room for Total of them.
Put(w) == PutThen(w, "receive")

----------------------------------------------------------------------------
(* The environment.                                                        *)

\* A tick that finds the buffer full is dropped.  Scan's return stops the ticker.
Tick ==
  /\ limited /\ main # "returned" /\ ~tick
  /\ tick' = TRUE /\ ticks' = ticks + 1
  /\ UNCHANGED <<main, queue, pool, output, cancelled, limited, ghosts>>

Cancel ==
  /\ main # "returned" /\ ~cancelled
  /\ cancelled' = TRUE
  /\ cancelTick' = ticks
  /\ UNCHANGED <<main, queue, pool, output, limiter, probed, accepted, late>>

Done == main = "returned" /\ UNCHANGED vars

Worker(w) == \/ Receive(w) \/ ReceiveClosed(w) \/ Check(w) \/ TakeToken(w) \/ Dial(w) \/ Put(w)

Scan == SendJob \/ CloseJobs \/ (\E j \in Jobs : Collect(j)) \/ Return

Next == Scan \/ CloseResults \/ (\E w \in Workers : Worker(w)) \/ Tick \/ Cancel \/ Done

Spec == Init /\ [][Next]_vars

\* Goroutines are scheduled, dials time out, the ticker ticks.  A worker that
\* waits for a token competes with the others: each tick is taken by some of
\* them, and there are finitely many jobs, so weak fairness is enough.
Fairness == /\ WF_vars(Scan) /\ WF_vars(CloseResults) /\ WF_vars(Tick)
            /\ \A w \in Workers : WF_vars(Worker(w))

FairSpec == Spec /\ Fairness

----------------------------------------------------------------------------
(* Properties.                                                             *)

\* Every variable has its type.
TypeOK ==
  /\ main \in {"send", "collect", "returned"}
  /\ sent \in 0..Total /\ taken \in 0..sent /\ jobsClosed \in BOOLEAN
  /\ wpc \in [Workers -> Places]
  /\ job \in [Workers -> 0..Total]
  /\ results \in [Jobs -> Nat] /\ resultsClosed \in BOOLEAN /\ open \in [Jobs -> Nat]
  /\ cancelled \in BOOLEAN /\ limited \in BOOLEAN
  /\ tick \in BOOLEAN /\ ticks \in Nat /\ cancelTick \in 0..ticks
  /\ probed \subseteq Jobs /\ accepted \subseteq probed
  /\ late \in [Workers -> Nat]

\* No worker sends on the closed results channel, which would panic: the
\* closer waits for every worker that may still send (tcp_scanner.go:165).
NoSendOnClosed == \A w \in Workers : wpc[w] = "put" => ~resultsClosed

\* No port is reported twice, on its way or in the slice.
ReportedOnce == \A j \in Jobs : results[j] + open[j] <= 1

\* After ctx is cancelled a worker begins at most one more dial.
OneLateDial == \A w \in Workers : late[w] <= 1

\* With a rate limit no more dials begin than ticks were delivered.
RateRespected == limited => Cardinality(probed) <= ticks

\* Scan does what PortScan promises: its slice holds every endpoint that
\* accepted, cancelled or not, and all were probed unless cancelled.
Promise == INSTANCE PortScan WITH
             returned <- main = "returned",
             result   <- IF main = "returned" THEN { j \in Jobs : open[j] > 0 } ELSE {}

KeepsPromise == Promise!Spec

\* Scan returns, cancelled or not.
Terminates == <>(main = "returned")

\* tcp_scanner.go:72 claims that cancellation takes effect within one
\* ScanTimeout.  With the tick interval at least that long (1/s, 1 s), no
\* dial begins once a second tick has come since the cancellation.
PromptCancel ==
  [][\A w \in Workers : cancelled /\ wpc[w] = "token" /\ wpc'[w] = "dial"
                          => ticks - cancelTick <= 1]_vars

=============================================================================
