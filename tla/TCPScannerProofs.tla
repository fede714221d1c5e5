-------------------------- MODULE TCPScannerProofs --------------------------
(***************************************************************************)
(* TCPScanner's safety properties, proved for every number of probes and   *)
(* every size of the pool.                                                 *)
(***************************************************************************)
EXTENDS TCPScanner, FiniteSetTheorems, TLAPS

\* The worker holds a job it has not dialed yet.
Pending(w) == wpc[w] \in {"check", "token", "dial"}

\* The worker holds a job.
Busy(w) == Pending(w) \/ wpc[w] = "put"

\* Who has closed what.
ClosingOrder ==
  /\ jobsClosed <=> main # "send"
  /\ jobsClosed => sent = Total
  /\ resultsClosed => jobsClosed /\ \A w \in Workers : wpc[w] = "done"
  /\ main = "returned" => resultsClosed /\ \A j \in Jobs : results[j] = 0

\* The jobs received and not dialed are with one worker each.
JobsApart ==
  /\ \A w \in Workers : Busy(w) => job[w] \in 1..taken
  /\ \A v, w \in Workers : Busy(v) /\ Busy(w) /\ v # w => job[v] # job[w]
  /\ \A j \in probed : j <= taken
  /\ \A w \in Workers : Pending(w) => job[w] \notin probed

\* An accepted job is in one place: in a worker about to put it on results,
\* or on results, or in open.
AcceptedOnce ==
  /\ \A j \in Jobs : results[j] + open[j] <= 1
  /\ \A j \in Jobs : results[j] + open[j] = 1 => j \in accepted
  /\ \A w \in Workers : wpc[w] = "put" => /\ job[w] \in accepted
                                          /\ results[job[w]] + open[job[w]] = 0
  /\ \A j \in accepted :
       \/ results[j] + open[j] = 1
       \/ \E w \in Workers : wpc[w] = "put" /\ job[w] = j

\* A job received is dialed, or with a worker, or dropped after Cancel; a
\* worker ends when it sees the end of the jobs or the cancellation.
NoneForgotten ==
  /\ \A j \in 1..taken :
       j \in probed \/ cancelled \/ \E w \in Workers : Pending(w) /\ job[w] = j
  /\ \A w \in Workers : wpc[w] = "done" => cancelled \/ (jobsClosed /\ taken = sent)

\* A dial after Cancel is one whose check came before it.
LateOnce ==
  \A w \in Workers :
    /\ late[w] <= 1
    /\ late[w] = 1 => cancelled /\ wpc[w] \notin {"token", "dial"}

IInv == TypeOK /\ ClosingOrder /\ JobsApart /\ AcceptedOnce /\ NoneForgotten /\ LateOnce

----------------------------------------------------------------------------

\* The constants: jobs and workers are initial segments of the naturals, and
\* there is a worker.
LEMMA PoolFacts == Jobs \subseteq Nat /\ 1 \in Workers
  BY ScannerAssumption DEF Jobs, Workers, PoolSize

\* A worker that moves leaves the others where they are.
LEMMA Moved ==
  ASSUME TypeOK, NEW w \in Workers, NEW pc \in Places, GoTo(w, pc)
  PROVE  /\ wpc' \in [Workers -> Places]
         /\ wpc'[w] = pc
         /\ \A v \in Workers : v # w => wpc'[v] = wpc[v]
  BY DEF TypeOK, GoTo

\* No goroutine has run: the invariant holds.
LEMMA InitInv == Init => IInv
<1> SUFFICES ASSUME Init PROVE IInv
  OBVIOUS
<1> USE ScannerAssumption, PoolFacts DEF Init, Jobs, Pending, Busy, Places
<1>1. TypeOK
  <2>1. sent \in 0..Total /\ taken \in 0..sent /\ cancelTick \in 0..ticks
    OBVIOUS
  <2>2. job \in [Workers -> 0..Total]
    OBVIOUS
  <2> QED
    BY <2>1, <2>2 DEF TypeOK
<1>2. ClosingOrder /\ JobsApart
  BY DEF ClosingOrder, JobsApart
<1>3. AcceptedOnce /\ NoneForgotten /\ LateOnce
  BY DEF AcceptedOnce, NoneForgotten, LateOnce
<1> QED
  BY <1>1, <1>2, <1>3 DEF IInv

\* Every step of every goroutine preserves the invariant.
LEMMA StepInv == IInv /\ [Next]_vars => IInv'
<1> SUFFICES ASSUME IInv, [Next]_vars PROVE IInv'
  OBVIOUS
<1> USE ScannerAssumption, PoolFacts DEF IInv, Pending, Busy, Jobs
<1>1. CASE SendJob
  BY <1>1 DEF SendJob, TypeOK, ClosingOrder, JobsApart, AcceptedOnce, NoneForgotten, LateOnce, pool, output, limiter, ghosts
<1>2. CASE CloseJobs
  BY <1>2 DEF CloseJobs, TypeOK, ClosingOrder, JobsApart, AcceptedOnce, NoneForgotten, LateOnce, pool, output, limiter, ghosts
<1>3. ASSUME NEW j \in Jobs, Collect(j) PROVE IInv'
  <2>a. results[j] - 1 \in Nat /\ open[j] + 1 \in Nat
    BY <1>3 DEF Collect, TypeOK
  <2>b. results' \in [Jobs -> Nat] /\ open' \in [Jobs -> Nat]
    BY <1>3, <2>a DEF Collect, TypeOK
  <2>1. TypeOK'
    BY <1>3, <2>b DEF Collect, TypeOK, queue, pool, limiter, ghosts
  <2>2. ClosingOrder'
    BY <1>3 DEF Collect, TypeOK, ClosingOrder, queue, pool, limiter, ghosts
  <2>3. JobsApart'
    BY <1>3 DEF Collect, TypeOK, JobsApart, queue, pool, limiter, ghosts
  <2>4. AcceptedOnce'
    BY <1>3 DEF Collect, TypeOK, AcceptedOnce, queue, pool, limiter, ghosts
  <2>5. NoneForgotten'
    BY <1>3 DEF Collect, TypeOK, NoneForgotten, queue, pool, limiter, ghosts
  <2>6. LateOnce'
    BY <1>3 DEF Collect, TypeOK, LateOnce, queue, pool, limiter, ghosts
  <2> QED
    BY <2>1, <2>2, <2>3, <2>4, <2>5, <2>6
<1>4. CASE Return
  BY <1>4 DEF Return, TypeOK, ClosingOrder, JobsApart, AcceptedOnce, NoneForgotten, LateOnce, queue, pool, output, limiter, ghosts
<1>5. CASE CloseResults
  BY <1>5 DEF CloseResults, TypeOK, ClosingOrder, JobsApart, AcceptedOnce, NoneForgotten, LateOnce, queue, pool, output, limiter, ghosts
<1>6. ASSUME NEW w \in Workers, Receive(w) PROVE IInv'
  <2>a. /\ taken + 1 \in 1..Total /\ taken' = taken + 1 /\ taken' <= sent /\ sent \in 0..Total
        /\ taken' \in 0..sent /\ taken # sent /\ taken \in Nat
    BY <1>6 DEF Receive, TypeOK
  <2>e. 1..taken' = (1..taken) \cup {taken'} /\ taken' \notin 1..taken
    BY <2>a
  <2>b. /\ job' \in [Workers -> 0..Total] /\ job'[w] = taken + 1
        /\ \A v \in Workers : v # w => job'[v] = job[v]
    BY <1>6, <2>a DEF Receive, TypeOK
  <2>c. /\ wpc' \in [Workers -> Places] /\ wpc'[w] = "check" /\ wpc[w] = "receive"
        /\ \A v \in Workers : v # w => wpc'[v] = wpc[v]
    BY <1>6, Moved DEF Receive, Places
  <2>d. UNCHANGED <<main, sent, jobsClosed, results, resultsClosed, open, cancelled, limited,
                     tick, ticks, probed, accepted, late, cancelTick>>
    BY <1>6 DEF Receive, output, limiter, ghosts
  <2>1. TypeOK'
    <3>1. /\ (sent \in 0..Total)' /\ (taken \in 0..sent)'
          /\ (wpc \in [Workers -> Places])' /\ (job \in [Workers -> 0..Total])'
      BY <2>a, <2>b, <2>c, <2>d
    <3> QED
      BY <3>1, <2>d DEF TypeOK
  <2>2. ClosingOrder'
    BY <2>a, <2>c, <2>d DEF TypeOK, ClosingOrder
  <2>3. JobsApart'
    <3>1. \A v \in Workers : v # w /\ Busy(v)' => Busy(v) /\ job'[v] \in 1..taken
      BY <2>b, <2>c DEF JobsApart
    <3>2. \A v \in Workers : Busy(v)' => job'[v] \in 1..taken'
      BY <3>1, <2>a, <2>b, <2>e
    <3>3. \A u, v \in Workers : Busy(u)' /\ Busy(v)' /\ u # v => job'[u] # job'[v]
      <4>1. \A v \in Workers : v # w /\ Busy(v)' => job'[v] # job'[w]
        BY <3>1, <2>a, <2>b, <2>e
      <4> QED
        BY <4>1, <3>1, <2>b DEF JobsApart
    <3>4. (\A j \in probed : j <= taken)' /\ \A j \in probed : j # taken'
      BY <2>a, <2>d DEF TypeOK, JobsApart
    <3>5. \A v \in Workers : Pending(v)' => job'[v] \notin probed'
      BY <3>4, <2>a, <2>b, <2>c, <2>d DEF JobsApart
    <3> QED
      BY <3>2, <3>3, <3>4, <3>5 DEF JobsApart
  <2>4. AcceptedOnce'
    BY <2>b, <2>c, <2>d DEF AcceptedOnce
  <2>5. NoneForgotten'
    <3>1. \A j \in 1..taken' : j \in 1..taken \/ j = job'[w]
      BY <2>a, <2>b DEF TypeOK
    <3>2. \A v \in Workers : Pending(v) => Pending(v)' /\ job'[v] = job[v]
      BY <2>b, <2>c
    <3>3. \A j \in 1..taken' : j \in probed' \/ cancelled' \/ \E v \in Workers : Pending(v)' /\ job'[v] = j
      BY <3>1, <3>2, <2>b, <2>c, <2>d DEF NoneForgotten
    <3>4. \A v \in Workers : wpc'[v] = "done" => cancelled
      BY <2>a, <2>c DEF NoneForgotten
    <3> QED
      BY <3>3, <3>4, <2>d DEF NoneForgotten
  <2>6. LateOnce'
    BY <2>c, <2>d DEF LateOnce
  <2> QED
    BY <2>1, <2>2, <2>3, <2>4, <2>5, <2>6
<1>7. ASSUME NEW w \in Workers, ReceiveClosed(w) PROVE IInv'
  <2>1. TypeOK'
    BY <1>7 DEF GoTo, Places, ReceiveClosed, TypeOK, queue, output, limiter, ghosts
  <2>2. ClosingOrder'
    BY <1>7 DEF GoTo, Places, ReceiveClosed, TypeOK, ClosingOrder, queue, output, limiter, ghosts
  <2>3. JobsApart'
    BY <1>7 DEF GoTo, Places, ReceiveClosed, TypeOK, JobsApart, queue, output, limiter, ghosts
  <2>4. AcceptedOnce'
    BY <1>7 DEF GoTo, Places, ReceiveClosed, TypeOK, AcceptedOnce, queue, output, limiter, ghosts
  <2>5. NoneForgotten'
    BY <1>7 DEF GoTo, Places, ReceiveClosed, TypeOK, NoneForgotten, queue, output, limiter, ghosts
  <2>6. LateOnce'
    BY <1>7 DEF GoTo, Places, ReceiveClosed, TypeOK, LateOnce, queue, output, limiter, ghosts
  <2> QED
    BY <2>1, <2>2, <2>3, <2>4, <2>5, <2>6
<1>8. ASSUME NEW w \in Workers, Check(w) PROVE IInv'
  <2>1. TypeOK'
    BY <1>8 DEF GoTo, Places, Check, TypeOK, queue, output, limiter, ghosts
  <2>2. ClosingOrder'
    BY <1>8 DEF GoTo, Places, Check, TypeOK, ClosingOrder, queue, output, limiter, ghosts
  <2>3. JobsApart'
    BY <1>8 DEF GoTo, Places, Check, TypeOK, JobsApart, queue, output, limiter, ghosts
  <2>4. AcceptedOnce'
    BY <1>8 DEF GoTo, Places, Check, TypeOK, AcceptedOnce, queue, output, limiter, ghosts
  <2>5. NoneForgotten'
    BY <1>8 DEF GoTo, Places, Check, TypeOK, NoneForgotten, queue, output, limiter, ghosts
  <2>6. LateOnce'
    BY <1>8 DEF GoTo, Places, Check, TypeOK, LateOnce, queue, output, limiter, ghosts
  <2> QED
    BY <2>1, <2>2, <2>3, <2>4, <2>5, <2>6
<1>9. ASSUME NEW w \in Workers, TakeToken(w) PROVE IInv'
  <2>1. TypeOK'
    BY <1>9 DEF GoTo, Places, TakeToken, TypeOK, queue, output, limiter, ghosts
  <2>2. ClosingOrder'
    BY <1>9 DEF GoTo, Places, TakeToken, TypeOK, ClosingOrder, queue, output, limiter, ghosts
  <2>3. JobsApart'
    BY <1>9 DEF GoTo, Places, TakeToken, TypeOK, JobsApart, queue, output, limiter, ghosts
  <2>4. AcceptedOnce'
    BY <1>9 DEF GoTo, Places, TakeToken, TypeOK, AcceptedOnce, queue, output, limiter, ghosts
  <2>5. NoneForgotten'
    BY <1>9 DEF GoTo, Places, TakeToken, TypeOK, NoneForgotten, queue, output, limiter, ghosts
  <2>6. LateOnce'
    BY <1>9 DEF GoTo, Places, TakeToken, TypeOK, LateOnce, queue, output, limiter, ghosts
  <2> QED
    BY <2>1, <2>2, <2>3, <2>4, <2>5, <2>6
<1>10. ASSUME NEW w \in Workers, Dial(w) PROVE IInv'
  <2>a. job[w] \in 1..taken /\ job[w] \in Jobs /\ job[w] \notin probed
    BY <1>10 DEF Dial, DialAs, TypeOK, JobsApart
  <2>b. late' \in [Workers -> Nat]
    BY <1>10 DEF Dial, DialAs, TypeOK
  <2>c. PICK to \in {"put", "receive"} :
          /\ GoTo(w, to)
          /\ accepted' = IF to = "put" THEN accepted \cup {job[w]} ELSE accepted
    BY <1>10 DEF Dial, DialAs
  <2>d. /\ wpc' \in [Workers -> Places] /\ wpc'[w] = to /\ wpc[w] = "dial"
        /\ \A v \in Workers : v # w => wpc'[v] = wpc[v]
    BY <1>10, <2>c, Moved DEF Dial, DialAs, Places
  <2>e. /\ UNCHANGED <<main, sent, taken, jobsClosed, job, results, resultsClosed, open, cancelled,
                        limited, tick, ticks, cancelTick>>
        /\ probed' = probed \cup {job[w]}
    BY <1>10 DEF Dial, DialAs, queue, output, limiter
  <2>1. TypeOK'
    <3>1. (probed \subseteq Jobs /\ accepted \subseteq probed)'
      BY <2>a, <2>c, <2>e DEF TypeOK
    <3> QED
      BY <3>1, <2>b, <2>d, <2>e DEF TypeOK
  <2>2. ClosingOrder'
    BY <2>d, <2>e DEF ClosingOrder
  <2>3. JobsApart'
    <3>1. \A v \in Workers : Busy(v)' => Busy(v)
      BY <2>d
    <3>2. \A j \in probed' : j <= taken'
      BY <2>a, <2>e DEF TypeOK, JobsApart
    <3>3. \A v \in Workers : Pending(v)' => v # w /\ Pending(v)
      BY <2>d
    <3>4. \A v \in Workers : Pending(v)' => job'[v] \notin probed'
      BY <3>3, <2>d, <2>e DEF JobsApart
    <3> QED
      BY <3>1, <3>2, <3>4, <2>e DEF JobsApart
  <2>4. AcceptedOnce'
    <3>1. results[job[w]] + open[job[w]] = 0 /\ job[w] \notin accepted
      BY <2>a DEF TypeOK, AcceptedOnce
    <3>2. \A v \in Workers : wpc'[v] = "put" =>
             job[v] \in accepted' /\ results[job[v]] + open[job[v]] = 0
      BY <3>1, <2>c, <2>d DEF AcceptedOnce
    <3>3. \A j \in accepted' :
             results[j] + open[j] = 1 \/ \E v \in Workers : wpc'[v] = "put" /\ job[v] = j
      BY <2>c, <2>d DEF AcceptedOnce
    <3> QED
      BY <3>2, <3>3, <2>c, <2>e DEF AcceptedOnce
  <2>5. NoneForgotten'
    <3>1. \A v \in Workers : Pending(v) => Pending(v)' \/ v = w
      BY <2>d
    <3> QED
      BY <3>1, <2>c, <2>d, <2>e DEF NoneForgotten
  <2>6. LateOnce'
    BY <1>10, <2>c, <2>d, <2>e DEF Dial, DialAs, TypeOK, LateOnce
  <2> QED
    BY <2>1, <2>2, <2>3, <2>4, <2>5, <2>6
<1>11. ASSUME NEW w \in Workers, Put(w) PROVE IInv'
  <2>a. job[w] \in 1..taken /\ job[w] \in Jobs
    BY <1>11 DEF Put, PutThen, TypeOK, JobsApart
  <2>b. /\ results' \in [Jobs -> Nat] /\ results'[job[w]] = results[job[w]] + 1
        /\ \A j \in Jobs : j # job[w] => results'[j] = results[j]
    BY <1>11, <2>a DEF Put, PutThen, TypeOK
  <2>c. /\ wpc' \in [Workers -> Places] /\ wpc'[w] = "receive" /\ wpc[w] = "put"
        /\ \A v \in Workers : v # w => wpc'[v] = wpc[v]
    BY <1>11, Moved DEF Put, PutThen, Places
  <2>d. UNCHANGED <<main, sent, taken, jobsClosed, job, resultsClosed, open, cancelled, limited,
                     tick, ticks, probed, accepted, late, cancelTick>>
    BY <1>11 DEF Put, PutThen, queue, limiter, ghosts
  <2>1. TypeOK'
    BY <2>b, <2>c, <2>d DEF TypeOK
  <2>2. ClosingOrder'
    BY <2>c, <2>d DEF ClosingOrder
  <2>3. JobsApart'
    BY <2>c, <2>d DEF JobsApart
  <2>4. AcceptedOnce'
    <3>1. \A v \in Workers : v # w /\ wpc[v] = "put" => job[v] # job[w]
      BY <2>c DEF JobsApart
    <3>a. results[job[w]] + open[job[w]] = 0 /\ job[w] \in accepted
      BY <2>c DEF AcceptedOnce
    <3>b. results[job[w]] \in Nat /\ open[job[w]] \in Nat
      BY <2>a DEF TypeOK
    <3>2. results[job[w]] + open[job[w]] = 0 /\ results'[job[w]] + open[job[w]] = 1
          /\ job[w] \in accepted
      BY <3>a, <3>b, <2>b
    <3>3. \A j \in Jobs : results'[j] + open[j] <= 1
      BY <2>b, <3>2 DEF AcceptedOnce
    <3>4. \A j \in Jobs : results'[j] + open[j] = 1 => j \in accepted
      BY <2>b, <3>2 DEF AcceptedOnce
    <3>5. \A v \in Workers : wpc'[v] = "put" =>
             job[v] \in accepted /\ results'[job[v]] + open[job[v]] = 0
      <4>1. \A v \in Workers : wpc'[v] = "put" => v # w /\ wpc[v] = "put"
        BY <2>c
      <4>2. \A v \in Workers : wpc'[v] = "put" => job[v] \in Jobs /\ job[v] # job[w]
        BY <4>1, <3>1 DEF TypeOK, JobsApart
      <4> QED
        BY <4>1, <4>2, <2>b DEF AcceptedOnce
    <3>6. \A j \in accepted :
             results'[j] + open[j] = 1 \/ \E v \in Workers : wpc'[v] = "put" /\ job[v] = j
      <4>1. \A j \in accepted : j # job[w] => results'[j] = results[j]
        BY <2>b DEF TypeOK
      <4>2. \A v \in Workers : wpc[v] = "put" => v = w \/ wpc'[v] = "put"
        BY <2>c
      <4> QED
        BY <4>1, <4>2, <3>2 DEF AcceptedOnce
    <3> QED
      BY <3>3, <3>4, <3>5, <3>6, <2>d DEF AcceptedOnce
  <2>5. NoneForgotten'
    BY <2>c, <2>d DEF NoneForgotten
  <2>6. LateOnce'
    BY <2>c, <2>d DEF LateOnce
  <2> QED
    BY <2>1, <2>2, <2>3, <2>4, <2>5, <2>6
<1>12. CASE Tick
  BY <1>12 DEF Tick, TypeOK, ClosingOrder, JobsApart, AcceptedOnce, NoneForgotten, LateOnce, queue, pool, output, limiter, ghosts
<1>13. CASE Cancel
  BY <1>13 DEF Cancel, TypeOK, ClosingOrder, JobsApart, AcceptedOnce, NoneForgotten, LateOnce, queue, pool, output, limiter, ghosts
<1>14. CASE UNCHANGED vars
  BY <1>14 DEF vars, TypeOK, ClosingOrder, JobsApart, AcceptedOnce, NoneForgotten, LateOnce, queue, pool, output, limiter, ghosts
<1> QED
  BY <1>1, <1>2, <1>3, <1>4, <1>5, <1>6, <1>7, <1>8, <1>9, <1>10, <1>11, <1>12, <1>13, <1>14
  DEF Next, Scan, Worker, Done

\* The invariant holds in every reachable state.
LEMMA Invariance == Spec => []IInv
  BY InitInv, StepInv, PTL DEF Spec

\* Every variable keeps its type, whatever the interleaving.
THEOREM TypeCorrect == Spec => []TypeOK
  BY Invariance, PTL DEF IInv

\* No worker can send on results after the closer closed it: Scan never
\* panics.
THEOREM NeverSendsOnClosed == Spec => []NoSendOnClosed
<1>1. IInv => NoSendOnClosed
  BY DEF IInv, ClosingOrder, NoSendOnClosed
<1> QED
  BY <1>1, Invariance, PTL

\* No open port is reported twice.
THEOREM NeverReportsTwice == Spec => []ReportedOnce
<1>1. IInv => ReportedOnce
  BY DEF IInv, AcceptedOnce, ReportedOnce
<1> QED
  BY <1>1, Invariance, PTL

\* A worker begins at most one dial after the cancellation.
THEOREM CancelledWorkersStop == Spec => []OneLateDial
<1>1. IInv => OneLateDial
  BY DEF IInv, LateOnce, OneLateDial
<1> QED
  BY <1>1, Invariance, PTL

\* When Scan returns, its slice holds what accepted and nothing is left to
\* probe unless ctx was cancelled.
LEMMA ReturnIsRight ==
  ASSUME IInv, Return
  PROVE  { j \in Jobs : open[j] > 0 } = accepted /\ (probed = Jobs \/ cancelled)
<1> USE DEF IInv
<1>1. /\ \A j \in Jobs : results[j] = 0
      /\ \A w \in Workers : wpc[w] = "done"
      /\ jobsClosed /\ sent = Total
  BY DEF Return, ClosingOrder
<1>2. \A j \in Jobs : open[j] > 0 <=> j \in accepted
  <2>1. \A j \in Jobs : open[j] \in Nat /\ results[j] + open[j] = open[j] /\ open[j] <= 1
    BY <1>1 DEF TypeOK, AcceptedOnce
  <2>2. \A j \in Jobs : j \in accepted => open[j] = 1
    BY <1>1, <2>1 DEF AcceptedOnce
  <2>3. \A j \in Jobs : open[j] = 1 => j \in accepted
    BY <2>1 DEF AcceptedOnce
  <2> QED
    BY <2>1, <2>2, <2>3
<1>3. probed = Jobs \/ cancelled
  <2> SUFFICES ASSUME ~cancelled PROVE Jobs \subseteq probed
    BY DEF TypeOK
  <2>1. taken = Total
    BY <1>1, PoolFacts DEF NoneForgotten
  <2> QED
    BY <1>1, <2>1 DEF NoneForgotten, Pending, Jobs
<1> QED
  BY <1>2, <1>3 DEF TypeOK

\* Every step of the scanner is a step of PortScan or changes nothing there.
LEMMA StepRefines == IInv /\ [Next]_vars => [Promise!Next]_Promise!vars
<1> SUFFICES ASSUME IInv, [Next]_vars PROVE [Promise!Next]_Promise!vars
  OBVIOUS
<1> USE DEF Promise!vars
<1>1. CASE SendJob \/ CloseJobs
  BY <1>1 DEF SendJob, CloseJobs, output, ghosts
<1>2. ASSUME NEW j \in Jobs, Collect(j) PROVE [Promise!Next]_Promise!vars
  BY <1>2 DEF Collect, ghosts
<1>3. CASE Return
  <2>1. Promise!Return
    BY <1>3, ReturnIsRight DEF Return, Promise!Return, output, ghosts
  <2> QED
    BY <2>1 DEF Promise!Next
<1>4. CASE CloseResults
  BY <1>4 DEF CloseResults, ghosts
<1>5. ASSUME NEW w \in Workers, Dial(w) PROVE [Promise!Next]_Promise!vars
  <2>1. job[w] \in Jobs /\ job[w] \notin probed
    BY <1>5 DEF Dial, DialAs, IInv, TypeOK, JobsApart, Busy, Pending, Jobs
  <2>2. main # "returned"
    BY <1>5 DEF Dial, DialAs, IInv, ClosingOrder
  <2>3. Promise!Probe(job[w])
    BY <1>5, <2>1, <2>2 DEF Dial, DialAs, Promise!Probe, output
  <2> QED
    BY <2>1, <2>3 DEF Promise!Next
<1>6. ASSUME NEW w \in Workers,
             Receive(w) \/ ReceiveClosed(w) \/ Check(w) \/ TakeToken(w) \/ Put(w)
      PROVE  [Promise!Next]_Promise!vars
  <2>1. main' = main /\ open' = open /\ cancelled' = cancelled /\ ghosts' = ghosts
    BY <1>6 DEF Receive, ReceiveClosed, Check, TakeToken, Put, PutThen, output
  <2> QED
    BY <2>1 DEF ghosts
<1>7. CASE Tick
  BY <1>7 DEF Tick, output, ghosts
<1>8. CASE Cancel
  BY <1>8 DEF Cancel, Promise!Cancel, Promise!Next, output
<1>9. CASE UNCHANGED vars
  BY <1>9 DEF vars, output, ghosts
<1> QED
  BY <1>1, <1>2, <1>3, <1>4, <1>5, <1>6, <1>7, <1>8, <1>9 DEF Next, Scan, Worker, Done

\* The pool of goroutines does what PortScan promises the pipeline: every
\* endpoint that accepted is in the slice, cancelled or not, and an
\* uncancelled scan probed them all.
THEOREM PromiseKept == Spec => KeepsPromise
<1>1. Init => Promise!Init
  BY DEF Init, Promise!Init
<1> QED
  BY <1>1, Invariance, StepRefines, PTL DEF Spec, KeepsPromise, Promise!Spec

----------------------------------------------------------------------------
(* The rate limit.                                                         *)

\* The workers that have taken a token and not begun the dial it is for.
Armed == { w \in Workers : wpc[w] = "dial" }

\* The tick in the buffer of ticker.C.
Buffered == IF tick THEN 1 ELSE 0

\* Every tick delivered is in the buffer, with an armed worker, or spent on a
\* dial that has begun; no other dial begins.
TokensCounted ==
  /\ IsFiniteSet(probed)
  /\ limited => Cardinality(probed) + Cardinality(Armed) + Buffered <= ticks

\* There are finitely many workers.
LEMMA ArmedFinite == IsFiniteSet(Armed)
<1>1. PoolSize \in Int
  BY ScannerAssumption DEF PoolSize
<1>2. IsFiniteSet(Workers)
  BY <1>1, FS_Interval DEF Workers
<1> QED
  BY <1>2, FS_Subset DEF Armed

\* Nothing was dialed yet.
LEMMA InitTokens == Init => TokensCounted
<1> SUFFICES ASSUME Init PROVE TokensCounted
  OBVIOUS
<1>1. Armed = {} /\ probed = {} /\ ticks = 0 /\ Buffered = 0
  BY DEF Init, Armed, Buffered
<1> QED
  BY <1>1, FS_EmptySet DEF TokensCounted

\* A step that neither arms a worker, nor dials, nor touches the ticker.
LEMMA SameTokens ==
  ASSUME TokensCounted, UNCHANGED <<limited, tick, ticks, probed>>, Armed' = Armed
  PROVE  TokensCounted'
  BY DEF TokensCounted, Buffered

\* Every step of every goroutine keeps the count.
LEMMA TokensStep == IInv /\ TokensCounted /\ [Next]_vars => TokensCounted'
<1> SUFFICES ASSUME IInv, TokensCounted, [Next]_vars PROVE TokensCounted'
  OBVIOUS
<1> USE DEF queue, pool, output, limiter, ghosts
<1>n. /\ Cardinality(Armed) \in Nat /\ Cardinality(probed) \in Nat
      /\ TypeOK /\ ticks \in Nat /\ IsFiniteSet(probed)
  BY ArmedFinite, FS_CardinalityType DEF TokensCounted, IInv, TypeOK
<1>1. CASE SendJob \/ CloseJobs \/ Return \/ CloseResults \/ Cancel \/ UNCHANGED vars
  <2>1. UNCHANGED <<wpc, limited, tick, ticks, probed>>
    BY <1>1 DEF SendJob, CloseJobs, Return, CloseResults, Cancel, vars
  <2> QED
    BY <2>1, SameTokens DEF Armed
<1>2. ASSUME NEW j \in Jobs, Collect(j) PROVE TokensCounted'
  BY <1>2, SameTokens DEF Collect, Armed
<1>3. ASSUME NEW w \in Workers, Receive(w) \/ ReceiveClosed(w) \/ Check(w) \/ Put(w)
      PROVE  TokensCounted'
  <2>1. UNCHANGED <<limited, tick, ticks, probed>>
    BY <1>3 DEF Receive, ReceiveClosed, Check, Put, PutThen
  <2>2. PICK pc \in Places : GoTo(w, pc) /\ (limited => pc # "dial") /\ wpc[w] # "dial"
    BY <1>3 DEF Receive, ReceiveClosed, Check, Put, PutThen, Places
  <2>3. /\ wpc' \in [Workers -> Places] /\ wpc'[w] = pc
        /\ \A v \in Workers : v # w => wpc'[v] = wpc[v]
    BY <1>n, <2>2, Moved
  <2>4. limited => Armed' = Armed
    BY <2>2, <2>3 DEF Armed
  <2> QED
    BY <2>1, <2>4 DEF TokensCounted, Buffered
<1>4. ASSUME NEW w \in Workers, TakeToken(w) PROVE TokensCounted'
  <2>1. /\ UNCHANGED <<limited, ticks, probed>> /\ tick /\ ~tick'
        /\ GoTo(w, "dial") /\ "dial" \in Places /\ wpc[w] = "token"
    BY <1>4 DEF TakeToken, Places
  <2>2. wpc'[w] = "dial" /\ \A v \in Workers : v # w => wpc'[v] = wpc[v]
    BY <1>n, <2>1, Moved
  <2>3. Armed' = Armed \cup {w} /\ w \notin Armed
    BY <2>1, <2>2 DEF Armed
  <2>4. Cardinality(Armed') = Cardinality(Armed) + 1
    BY <2>3, ArmedFinite, FS_AddElement
  <2> QED
    BY <1>n, <2>1, <2>4 DEF TokensCounted, Buffered
<1>5. ASSUME NEW w \in Workers, Dial(w) PROVE TokensCounted'
  <2>1. /\ UNCHANGED <<limited, tick, ticks>> /\ wpc[w] = "dial"
        /\ probed' = probed \cup {job[w]}
    BY <1>5 DEF Dial, DialAs
  <2>2. PICK pc \in Places : GoTo(w, pc) /\ pc # "dial"
    BY <1>5 DEF Dial, DialAs, Places
  <2>3. wpc'[w] = pc /\ \A v \in Workers : v # w => wpc'[v] = wpc[v]
    BY <1>n, <2>2, Moved
  <2>4. Armed' = Armed \ {w} /\ w \in Armed
    BY <2>1, <2>2, <2>3 DEF Armed
  <2>5. Cardinality(Armed') = Cardinality(Armed) - 1
    BY <2>4, ArmedFinite, FS_RemoveElement
  <2>6. IsFiniteSet(probed') /\ Cardinality(probed') \in {Cardinality(probed), Cardinality(probed) + 1}
    BY <1>n, <2>1, FS_AddElement
  <2> QED
    BY <1>n, <2>1, <2>5, <2>6 DEF TokensCounted, Buffered
<1>6. CASE Tick
  <2>1. /\ UNCHANGED <<limited, wpc, probed>> /\ ~tick /\ tick' /\ ticks' = ticks + 1
    BY <1>6 DEF Tick
  <2>2. Armed' = Armed
    BY <2>1 DEF Armed
  <2> QED
    BY <1>n, <2>1, <2>2 DEF TokensCounted, Buffered
<1> QED
  BY <1>1, <1>2, <1>3, <1>4, <1>5, <1>6 DEF Next, Scan, Worker, Done

\* With a rate limit no more dials begin than the ticker has ticked, however
\* the workers compete for the ticks (tcp_scanner.go:139).
THEOREM RateIsRespected == Spec => []RateRespected
<1>1. IInv /\ TokensCounted => RateRespected
  <2> SUFFICES ASSUME TokensCounted, IInv, limited PROVE Cardinality(probed) <= ticks
    BY DEF RateRespected
  <2>1. Cardinality(Armed) \in Nat /\ Cardinality(probed) \in Nat /\ ticks \in Nat
    BY ArmedFinite, FS_CardinalityType DEF TokensCounted, IInv, TypeOK
  <2> QED
    BY <2>1 DEF TokensCounted, Buffered
<1>2. Init => IInv /\ TokensCounted
  BY InitInv, InitTokens
<1>3. IInv /\ TokensCounted /\ [Next]_vars => (IInv /\ TokensCounted)'
  BY StepInv, TokensStep
<1> QED
  BY <1>1, <1>2, <1>3, PTL DEF Spec

=============================================================================
