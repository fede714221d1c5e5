-------------------------------- MODULE Gather --------------------------------
(***************************************************************************)
(* What a call of MultiSourceDiscoverer.Discover promises its caller       *)
(* (multi_source_discoverer.go:55-71), whatever the order of the answers:  *)
(* the reply comes when every source has answered and is a function of     *)
(* the answers, except for the order of one source's own names.            *)
(***************************************************************************)
EXTENDS Naturals, Sequences

CONSTANTS Host, N, Outcomes

VARIABLES
  called,     \* a call is in progress
  answers,    \* answers[i]: <<>>, or what source i returned
  reply       \* <<>>, or what the call returned

gatherVars == <<called, answers, reply>>

Answered(i) == answers[i] # <<>>
Succeeded(i) == Answered(i) /\ answers[i][1].ok
Names(i) == {answers[i][1].names[k] : k \in DOMAIN answers[i][1].names}

\* "If every source fails, Discover returns an error"
IsFailure(r) == r.failed <=> (N > 0 /\ \A i \in 1..N : ~Succeeded(i))

\* "... returns all unique subdomains"
IsUnion(r) ==
  /\ {r.result[k].name : k \in DOMAIN r.result} = UNION {Names(i) : i \in {j \in 1..N : Succeeded(j)}}
  /\ \A k, l \in DOMAIN r.result : r.result[k].name = r.result[l].name => k = l

\* "only the first occurrence (in original source order) is kept and its
\* Source tag reflects that source"
IsAttributed(r) ==
  \A k \in DOMAIN r.result :
    LET item == r.result[k]
    IN  /\ Succeeded(item.source) /\ item.name \in Names(item.source)
        /\ \A i \in 1..item.source-1 : Succeeded(i) => item.name \notin Names(i)
        /\ \A l \in DOMAIN r.result : k <= l => item.source <= r.result[l].source

IsReply(r) == IsFailure(r) /\ IsUnion(r) /\ IsAttributed(r)

Init ==
  /\ called = FALSE
  /\ answers = [i \in 1..N |-> <<>>]
  /\ reply = <<>>

Call ==
  /\ ~called
  /\ called' = TRUE
  /\ UNCHANGED <<answers, reply>>

Answer(i) ==
  /\ called /\ ~Answered(i)
  /\ \E o \in Outcomes[i] : answers' = [answers EXCEPT ![i] = <<o>>]
  /\ UNCHANGED <<called, reply>>

Reply ==
  /\ called /\ reply = <<>>
  /\ \A i \in 1..N : Answered(i)
  /\ reply' # <<>> /\ IsReply(reply'[1])
  /\ UNCHANGED <<called, answers>>

Take ==
  /\ reply # <<>>
  /\ called' = FALSE
  /\ answers' = [i \in 1..N |-> <<>>]
  /\ reply' = <<>>

Next == Call \/ (\E i \in 1..N : Answer(i)) \/ Reply \/ Take

Spec == Init /\ [][Next]_gatherVars
===============================================================================
