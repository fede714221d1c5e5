------------------------------ MODULE Resolution ------------------------------
(***************************************************************************)
(* Phases 1b and 1c: the discovered names are resolved one after another,  *)
(* the addresses found are looked up in reverse (ptr_enricher.go), and the *)
(* names that yields are resolved in turn (runner.go, runPhase1).          *)
(*                                                                         *)
(* The caller enters with BeginResolve(names), steps with ResolveNext      *)
(* until rpc = "done" and takes live with TakeAssets.  An asset is         *)
(* [domain, ips].  Saving and events are module Runner's subject.          *)
(***************************************************************************)
EXTENDS Names, Context

CONSTANTS
  Addresses,    \* what LookupHost may answer: lists of addresses, <<>> for an error
  Pointers      \* what LookupAddr may answer: lists of names, <<>> for an error

ASSUME LookupAssumption ==
  /\ \A answer \in Addresses : answer \in Seq(UNION {ToSet(a) : a \in Addresses})
  /\ \A answer \in Pointers : answer \in Seq(Seq(STRING))

VARIABLES
  rpc,      \* where the phases are
  todo,     \* names not resolved yet
  live,     \* liveAssets
  addrs,    \* rest of allIPs, the argument of Enrich
  asked,    \* addresses looked up, in order: seenIPs
  ptr       \* what Enrich has found, in order: seenNames

resolutionVars == <<rpc, todo, live, addrs, asked, ptr>>

ResolutionInit ==
  /\ rpc = "idle"
  /\ todo = <<>> /\ live = <<>> /\ addrs = <<>> /\ asked = <<>> /\ ptr = <<>>

BeginResolve(names) ==
  /\ rpc = "idle"
  /\ rpc' = "resolve"
  /\ todo' = names
  /\ UNCHANGED <<live, addrs, asked, ptr, cancelled>>

\* DNSResolver.Discover: the addresses without repetitions; an error: no asset.
Resolved(name, answer) ==
  IF answer = <<>> THEN live ELSE Append(live, [domain |-> name, ips |-> Unique(answer)])

ResolveName ==
  /\ rpc = "resolve" /\ todo # <<>> /\ ~cancelled
  /\ \/ IsWildcard(todo[1]) /\ UNCHANGED live
     \/ ~IsWildcard(todo[1]) /\ \E answer \in Addresses : live' = Resolved(todo[1], answer)
  /\ todo' = Tail(todo)
  /\ UNCHANGED <<rpc, addrs, asked, ptr, cancelled>>

\* Without live assets there is nothing to enrich.
EndResolve ==
  /\ rpc = "resolve" /\ todo = <<>> /\ ~cancelled
  /\ rpc' = IF live = <<>> THEN "done" ELSE "lookup"
  /\ addrs' = FlattenSeq([k \in DOMAIN live |-> live[k].ips])
  /\ UNCHANGED <<todo, live, asked, ptr, cancelled>>

LookupAddrAgain ==   \* mutant: no seenIPs, a shared address is looked up once per asset
  /\ rpc = "lookup" /\ addrs # <<>>
  /\ asked' = Append(asked, addrs[1])
  /\ \E answer \in Pointers :
       LET names == [k \in DOMAIN answer |-> Lower(TrimDots(answer[k]))]
       IN  ptr' = Unique(ptr \o Select(names, LAMBDA name : name # <<>>))
  /\ addrs' = Tail(addrs)
  /\ UNCHANGED <<rpc, todo, live, cancelled>>

\* Enrich takes no context: a cancelled scan finishes its lookups.
LookupAddr ==
  /\ rpc = "lookup" /\ addrs # <<>>
  /\ IF Contains(asked, addrs[1]) THEN UNCHANGED <<asked, ptr>>
     ELSE /\ asked' = Append(asked, addrs[1])
          /\ \E answer \in Pointers :
               LET names == [k \in DOMAIN answer |-> Lower(TrimDots(answer[k]))]
               IN  ptr' = Unique(ptr \o Select(names, LAMBDA name : name # <<>>))
  /\ addrs' = Tail(addrs)
  /\ UNCHANGED <<rpc, todo, live, cancelled>>

EndEnrich ==
  /\ rpc = "lookup" /\ addrs = <<>>
  /\ rpc' = "adopt"
  /\ todo' = ptr
  /\ UNCHANGED <<live, addrs, asked, ptr, cancelled>>

\* knownDomains holds the live domains, those adopted meanwhile included.
Known(name) == \E k \in DOMAIN live : live[k].domain = name

AdoptAnyName ==   \* mutant: knownDomains not consulted
  /\ rpc = "adopt" /\ todo # <<>> /\ ~cancelled
  /\ \/ IsWildcard(todo[1]) /\ UNCHANGED live
     \/ ~IsWildcard(todo[1]) /\ \E answer \in Addresses : live' = Resolved(todo[1], answer)
  /\ todo' = Tail(todo)
  /\ UNCHANGED <<rpc, addrs, asked, ptr, cancelled>>

AdoptName ==
  /\ rpc = "adopt" /\ todo # <<>> /\ ~cancelled
  /\ \/ (Known(todo[1]) \/ IsWildcard(todo[1])) /\ UNCHANGED live
     \/ /\ ~Known(todo[1]) /\ ~IsWildcard(todo[1])
        /\ \E answer \in Addresses : live' = Resolved(todo[1], answer)
  /\ todo' = Tail(todo)
  /\ UNCHANGED <<rpc, addrs, asked, ptr, cancelled>>

EndAdopt ==
  /\ rpc = "adopt" /\ todo = <<>>
  /\ rpc' = "done"
  /\ UNCHANGED <<todo, live, addrs, asked, ptr, cancelled>>

\* The assets found so far are returned when the context is seen cancelled.
StopResolving ==
  /\ rpc \in {"resolve", "adopt"} /\ cancelled
  /\ rpc' = "done"
  /\ UNCHANGED <<todo, live, addrs, asked, ptr, cancelled>>

TakeAssets ==
  /\ rpc = "done"
  /\ rpc' = "idle"
  /\ todo' = <<>> /\ live' = <<>> /\ addrs' = <<>> /\ asked' = <<>> /\ ptr' = <<>>
  /\ UNCHANGED cancelled

ResolveNext ==
  \/ ResolveName \/ EndResolve
  \/ LookupAddr \/ EndEnrich
  \/ AdoptName \/ EndAdopt
  \/ StopResolving

----------------------------------------------------------------------------
IPsOf(assets) == UNION {ToSet(assets[k].ips) : k \in DOMAIN assets}

\* No host is scanned twice: neither two sources, nor two PTR records, nor a
\* source and a PTR record, make two assets of one name; and no asset lists an
\* address twice (the invariant of models/asset.go:69-72).
NoAssetTwice ==
  /\ \A k, l \in DOMAIN live : live[k].domain = live[l].domain => k = l
  /\ \A k \in DOMAIN live : IsInjective(live[k].ips)

\* Each address of the assets phase 1b found is looked up in reverse exactly
\* once, shared or not (ptr_enricher.go:66-70), before the first name is adopted.
AddressesAskedOnce ==
  /\ IsInjective(asked)
  /\ rpc \in {"lookup", "adopt"} => ToSet(asked) \cup ToSet(addrs) \subseteq IPsOf(live)
  /\ rpc = "adopt" =>
       \A k \in DOMAIN live : ~Contains(ptr, live[k].domain) => ToSet(live[k].ips) \subseteq ToSet(asked)
===============================================================================
