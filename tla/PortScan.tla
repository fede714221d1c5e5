------------------------------ MODULE PortScan ------------------------------
(***************************************************************************)
(* What Scanner.Scan promises its caller, with no goroutine in sight: the  *)
(* endpoints are probed in some order, each at most once; the result is    *)
(* exactly those that accepted; it is given up early only after ctx is     *)
(* cancelled, and then it still holds every endpoint that accepted.        *)
(***************************************************************************)
CONSTANT Jobs

VARIABLES probed, accepted, cancelled, returned, result

vars == <<probed, accepted, cancelled, returned, result>>

Init ==
  /\ probed = {} /\ accepted = {} /\ cancelled = FALSE
  /\ returned = FALSE /\ result = {}

Probe(j) ==
  /\ ~returned /\ j \notin probed
  /\ probed' = probed \cup {j}
  /\ accepted' \in {accepted, accepted \cup {j}}
  /\ UNCHANGED <<cancelled, returned, result>>

Cancel ==
  /\ ~cancelled /\ cancelled' = TRUE
  /\ UNCHANGED <<probed, accepted, returned, result>>

Return ==
  /\ ~returned /\ returned' = TRUE
  /\ probed = Jobs \/ cancelled
  /\ result' = accepted
  /\ UNCHANGED <<probed, accepted, cancelled>>

Next == (\E j \in Jobs : Probe(j)) \/ Cancel \/ Return

Spec == Init /\ [][Next]_vars

=============================================================================
