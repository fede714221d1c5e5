----------------------------- MODULE LossyStream -----------------------------
(***************************************************************************)
(* What the event channel of a scan promises its reader, for any number of *)
(* scans: events arrive in the order they were sent and none twice; one is *)
(* dropped only while Capacity others wait; the sender never waits for the *)
(* reader; and a reader that stays meets the end of the stream only after  *)
(* the sender closed it and everything not dropped has arrived.  Events    *)
(* are the numbers 1, 2, ... in the order they are sent.                   *)
(***************************************************************************)
EXTENDS Naturals, Sequences

CONSTANTS Streams, Capacity

VARIABLES
  sent,       \* per stream: the number of events sent
  pending,    \* sent, not dropped, not arrived
  last,       \* the last event that arrived, 0 before the first
  closed,
  reader      \* "reading", "ended" (it met the end) or "left"

vars == <<sent, pending, last, closed, reader>>

Init ==
  /\ sent = [s \in Streams |-> 0]
  /\ pending = [s \in Streams |-> <<>>] /\ last = [s \in Streams |-> 0]
  /\ closed = [s \in Streams |-> FALSE] /\ reader = [s \in Streams |-> "reading"]

\* An event nobody will read may be forgotten.
Send(s) ==
  /\ ~closed[s]
  /\ sent' = [sent EXCEPT ![s] = @ + 1]
  /\ \/ reader[s] # "left" /\ pending' = [pending EXCEPT ![s] = Append(@, sent[s] + 1)]
     \/ (reader[s] = "left" \/ Len(pending[s]) >= Capacity) /\ UNCHANGED pending
  /\ UNCHANGED <<last, closed, reader>>

\* A reader may leave because of what it has just read.
Receive(s) ==
  /\ reader[s] = "reading" /\ pending[s] # <<>>
  /\ last' = [last EXCEPT ![s] = Head(pending[s])]
  /\ \/ pending' = [pending EXCEPT ![s] = Tail(@)] /\ UNCHANGED reader
     \/ pending' = [pending EXCEPT ![s] = <<>>] /\ reader' = [reader EXCEPT ![s] = "left"]
  /\ UNCHANGED <<sent, closed>>

Close(s) ==
  /\ ~closed[s] /\ closed' = [closed EXCEPT ![s] = TRUE]
  /\ UNCHANGED <<sent, pending, last, reader>>

MeetEnd(s) ==
  /\ reader[s] = "reading" /\ closed[s] /\ pending[s] = <<>>
  /\ reader' = [reader EXCEPT ![s] = "ended"]
  /\ UNCHANGED <<sent, pending, last, closed>>

Leave(s) ==
  /\ reader' = [reader EXCEPT ![s] = "left"]
  /\ pending' = [pending EXCEPT ![s] = <<>>]
  /\ UNCHANGED <<sent, last, closed>>

Next == \E s \in Streams : Send(s) \/ Receive(s) \/ Close(s) \/ MeetEnd(s) \/ Leave(s)

Spec == Init /\ [][Next]_vars

=============================================================================
