------------------------------- MODULE Sources -------------------------------
(***************************************************************************)
(* The three passive sources of phase 1a: crt.sh (ct_discoverer.go),       *)
(* HackerTarget (hackertarget_discoverer.go) and the Wayback Machine       *)
(* (wayback_discoverer.go), as functions from what the service answers to  *)
(* what Discover returns.                                                  *)
(*                                                                         *)
(* An answer is [status, broken, body]: status 0 stands for a request that *)
(* got no response (network, timeout, cancelled context), broken for a     *)
(* body that cannot be read or decoded to its end.  A body is              *)
(*   crt.sh        a sequence of entries, each the sequence of its names   *)
(*   HackerTarget  a sequence of lines [comma, host]                       *)
(*   Wayback       a sequence of rows, each <<>> or <<host of the URL>>    *)
(* with host <<>> for a URL that does not parse or names no host, which    *)
(* the header row ["original"] is an instance of.                          *)
(***************************************************************************)
EXTENDS Names

Failed == [ok |-> FALSE, names |-> <<>>]
Found(names) == [ok |-> TRUE, names |-> names]

\* The filter all three apply to the names of a body.
Scoped(names, target) ==
  Select(names, LAMBDA name : name # <<>> /\ InScope(name, Lower(target)))

LowerAll(names) == [i \in DOMAIN names |-> Lower(names[i])]

parseSubdomains(entries, target) == Unique(Scoped(LowerAll(FlattenSeq(entries)), target))

CTDiscover(a, target) ==
  IF a.status # 200 \/ a.broken THEN Failed ELSE Found(parseSubdomains(a.body, target))

HTDiscoverUnscoped(a, target) ==   \* mutant: the service is trusted to answer within the target
  LET entries == Select(a.body, LAMBDA line : line.comma)
  IN  IF a.status = 429 THEN Found(<<>>)
      ELSE IF a.status # 200 \/ a.broken THEN Failed
      ELSE Found(Unique([i \in DOMAIN entries |-> Lower(entries[i].host)]))

\* Lines without a comma are messages, not entries.  429, the quota of the
\* free tier, is an empty result; a read error drops the names read before it.
HTDiscover(a, target) ==
  LET entries == Select(a.body, LAMBDA line : line.comma)
      hosts   == [i \in DOMAIN entries |-> entries[i].host]
  IN  IF a.status = 429 THEN Found(<<>>)
      ELSE IF a.status # 200 \/ a.broken THEN Failed
      ELSE Found(Unique(Scoped(LowerAll(hosts), target)))

parseWayBackRecords(records, target) == Unique(Scoped(LowerAll(FlattenSeq(records)), target))

WBDiscover(a, target) ==
  IF a.status # 200 \/ a.broken THEN Failed ELSE Found(parseWayBackRecords(a.body, target))

\* What the sources can return, in the order NewRunner registers them.
SourceOutcomes(cts, hts, wbs, target) ==
  << {CTDiscover(a, target) : a \in cts},
     {HTDiscover(a, target) : a \in hts},
     {WBDiscover(a, target) : a \in wbs} >>
==============================================================================
