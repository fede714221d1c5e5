------------------------------- MODULE Runner -------------------------------
(***************************************************************************)
(* internal/pipeline Runner.execute: one scan after another against one    *)
(* store.  Each scan is a run of the program (or one /scan request): it    *)
(* discovers domains, saves them, port-scans each in turn, fingerprints    *)
(* and saves what is open, diffs it against the stored history and, at the *)
(* end of Phase 2, reports the differences.                                *)
(*                                                                         *)
(* One action is the code between two points where ctx may be cancelled or *)
(* the process may die and something depends on it; every store write is a *)
(* step of its own.  The network decides, hence \E: which names a source   *)
(* returns, which resolve, which ports accept, what a banner says.  The    *)
(* scan number is the clock of the timestamps.  Events that carry no       *)
(* difference are left out.                                                *)
(***************************************************************************)
EXTENDS Differ, Integers, Sequences, FiniteSets, Functions

CONSTANTS
  Domains,      \* host names discovery and the resolver can return
  Wildcards,    \* those of the form "*.x"
  EmptyName,    \* the domain "" that NormalizeDomain makes of the target "."
  Roots,        \* cfg.Domain of the scans that go through Phase 1
  Locals,       \* cfg.Domain of the scans with IsLocal: addresses, dotless names
  Endpoints,    \* (ip, number, tcp) triples, as numbers in their sort order
  Services,     \* what a banner can be parsed to: [name, version] records
  Buckets,      \* cloud storage URLs
  MaxScans,     \* bound: scans
  MaxFaults,    \* bound: failing store calls in one scan
  MayStop       \* whether scans are cancelled and the process killed

ASSUME RunnerAssumption ==
  /\ Wildcards \subseteq Domains
  /\ EmptyName \notin Domains
  /\ Roots \subseteq Domains
  /\ Locals \subseteq Domains \cup {EmptyName}
  /\ Endpoints \subseteq Nat
  /\ \A s \in Services : DOMAIN s = {"name", "version"}
  /\ MaxScans \in Nat
  /\ MaxFaults \in Nat
  /\ MayStop \in BOOLEAN

VARIABLES
  db,           \* the store; survives every scan and crash
  scan,         \* number of the current or last scan
  pc,           \* where execute stands
  cancelled,    \* ctx.Err() # nil
  target,       \* cfg.Domain
  persist,      \* r.store # nil, hence r.differ # nil
  ports,        \* cfg.Ports (with the asset's IPs: the endpoints to probe)
  faults,       \* store calls that failed in this scan
  todo,         \* names still to process in Phase 1b or 1c, buckets in Phase 3
  live,         \* liveAssets
  idx,          \* index in live of the asset Phase 2 is at
  assetDiff,    \* assetDiff.AssetChanges
  open,         \* openPorts of that asset
  rest,         \* those of open the port loop has not reached
  history,      \* history of that asset
  loaded,       \* history # nil
  services,     \* scannedServices of that asset
  allDiffs,     \* allDiffs
  report,       \* the EventDiff payloads emitted
  badges,       \* <<domain, endpoint>> of EventPorts with DiffKind PORT OPENED
  pre,          \* ghost: the store when the scan began
  observed      \* ghost: what this scan found open and identified, by domain

conf   == <<scan, target, persist, ports, pre>>
phase1 == <<todo, live, assetDiff>>
asset  == <<open, rest, history, loaded, services>>
output == <<allDiffs, report, badges, observed>>
vars   == <<db, pc, cancelled, faults, idx, conf, phase1, asset, output>>

Names == Domains \cup {EmptyName}
NoHistory == [ports |-> {}, services |-> [p \in {} |-> 0]]
Nothing   == [p \in {} |-> 0]

Init ==
  /\ db = EmptyStore /\ pre = EmptyStore
  /\ scan = 0
  /\ pc = "idle" /\ target = EmptyName
  /\ cancelled = FALSE /\ persist = FALSE /\ loaded = FALSE
  /\ ports = {} /\ faults = 0
  /\ todo = {} /\ live = <<>> /\ idx = 1 /\ assetDiff = {}
  /\ open = {} /\ rest = {} /\ history = NoHistory /\ services = Nothing
  /\ allDiffs = <<>> /\ report = {} /\ badges = {} /\ observed = Nothing

----------------------------------------------------------------------------
(* Store calls.  A failed one is logged as an EventError and the scan goes *)
(* on: a foreign key not satisfied always fails, any call may fail.        *)

Fault == faults < MaxFaults /\ faults' = faults + 1

StoreAsset(d) ==
  \/ ~persist /\ UNCHANGED <<db, faults>>
  \/ persist /\ db' = SaveAsset(db, d, scan) /\ UNCHANGED faults
  \/ persist /\ Fault /\ UNCHANGED db

StorePort(d, p) ==
  \/ ~persist /\ UNCHANGED <<db, faults>>
  \/ persist /\ PortHasAsset(db, d) /\ db' = SavePort(db, d, p, scan) /\ UNCHANGED faults
  \/ persist /\ ~PortHasAsset(db, d) /\ UNCHANGED <<db, faults>>
  \/ persist /\ Fault /\ UNCHANGED db

StoreService(d, p, svc) ==
  \/ ~persist /\ UNCHANGED <<db, faults>>
  \/ persist /\ ServiceHasPort(db, d, p) /\ db' = SaveService(db, d, p, svc, scan)
             /\ UNCHANGED faults
  \/ persist /\ ~ServiceHasPort(db, d, p) /\ UNCHANGED <<db, faults>>
  \/ persist /\ Fault /\ UNCHANGED db

StoreBucket(d, url, accessible) ==
  \/ ~persist /\ UNCHANGED <<db, faults>>
  \/ persist /\ db' = SaveBucket(db, d, url, accessible, scan) /\ UNCHANGED faults
  \/ persist /\ Fault /\ UNCHANGED db

----------------------------------------------------------------------------
(* Run and Phase 1.                                                        *)

BeginScan(i) ==
  /\ pc = "idle" /\ scan < MaxScans
  /\ scan' = scan + 1
  /\ cancelled' = FALSE /\ faults' = 0
  /\ persist' \in BOOLEAN
  /\ ports' \in SUBSET Endpoints \ {{}}
  /\ target' \in Roots \cup Locals
  /\ pc' = IF target' \in Locals THEN "local" ELSE "discover"
  /\ pre' = db
  /\ todo' = {} /\ live' = <<>> /\ idx' = i /\ assetDiff' = {}
  /\ open' = {} /\ rest' = {} /\ history' = NoHistory /\ loaded' = FALSE
  /\ services' = Nothing
  /\ allDiffs' = <<>> /\ report' = {} /\ badges' = {} /\ observed' = Nothing
  /\ UNCHANGED db

StartScanStaleIndex == BeginScan(idx)    \* mutant: the asset index is not reset

\* NewRunner and Run: nothing is carried over from an earlier scan.
StartScan == BeginScan(1)

\* A local target: one synthetic asset, no OSINT.
LocalAsset ==
  /\ pc = "local"
  /\ live' = <<target>>
  /\ StoreAsset(target)
  /\ pc' = "phase2"
  /\ UNCHANGED <<cancelled, idx, conf, todo, assetDiff, asset, output>>

\* Phase 1a.  The discoverer returns distinct names, or fails as a whole.
Discover ==
  /\ pc = "discover"
  /\ \E names \in SUBSET Domains :
       IF cancelled THEN pc' = "phase2" /\ todo' = {}
                    ELSE pc' = "resolve" /\ todo' = names
  /\ UNCHANGED <<db, cancelled, faults, idx, conf, live, assetDiff, asset, output>>

DiscoverFails ==
  /\ pc = "discover"
  /\ pc' = "phase2"
  /\ UNCHANGED <<db, cancelled, faults, idx, conf, phase1, asset, output>>

\* The name resolves: it joins the live assets and is saved.
GoLive(d) ==
  /\ live' = Append(live, d)
  /\ StoreAsset(d)

\* It is a wildcard entry or does not resolve.
Skip == UNCHANGED <<live, db, faults>>

\* One iteration of Phase 1b.
Resolve ==
  /\ pc = "resolve" /\ ~cancelled
  /\ \E d \in todo :
       /\ todo' = todo \ {d}
       /\ (d \notin Wildcards /\ GoLive(d)) \/ Skip
  /\ UNCHANGED <<pc, cancelled, idx, conf, assetDiff, asset, output>>

\* After Phase 1b: Enrich, unless there is nothing to enrich.  PTR names are
\* distinct and of any domain, known or not.
Enrich ==
  /\ pc = "resolve" /\ ~cancelled /\ todo = {}
  /\ IF live = <<>> THEN pc' = "phase2" /\ UNCHANGED todo
                    ELSE pc' = "enrich" /\ todo' \in SUBSET Domains
  /\ UNCHANGED <<db, cancelled, faults, idx, conf, live, assetDiff, asset, output>>

\* One iteration of Phase 1c: the names already live are passed over.
EnrichName(known) ==
  /\ pc = "enrich" /\ ~cancelled
  /\ \E d \in todo :
       /\ todo' = todo \ {d}
       /\ (d \notin known \cup Wildcards /\ GoLive(d)) \/ Skip
  /\ UNCHANGED <<pc, cancelled, idx, conf, assetDiff, asset, output>>

ResolvePTRUnfiltered == EnrichName({})    \* mutant: knownDomains not consulted

\* Mutant: a live PTR name is not saved.
ResolvePTRUnsaved ==
  /\ pc = "enrich" /\ ~cancelled
  /\ \E d \in todo :
       /\ todo' = todo \ {d}
       /\ \/ d \notin Range(live) \cup Wildcards /\ live' = Append(live, d)
          \/ UNCHANGED live
  /\ UNCHANGED <<db, faults, pc, cancelled, idx, conf, assetDiff, asset, output>>

ResolvePTR == EnrichName(Range(live))

\* Phase 1 ends: all of it done (1d stores nothing), or ctx cancelled.
EndPhase1 ==
  /\ \/ pc = "enrich" /\ todo = {}
     \/ pc \in {"resolve", "enrich"} /\ cancelled
  /\ pc' = "phase2"
  /\ UNCHANGED <<db, cancelled, faults, idx, conf, phase1, asset, output>>

----------------------------------------------------------------------------
(* Phase 2.                                                                *)

\* execute returns; the channel is closed.
Return == pc' = "idle"

\* execute checks ctx, then calls runPhase2, which asks for the new assets.
BeginPhase2 ==
  /\ pc = "phase2"
  /\ \/ cancelled /\ Return /\ UNCHANGED <<assetDiff, faults>>
     \/ ~cancelled /\ live = <<>> /\ pc' = "phase3" /\ UNCHANGED <<assetDiff, faults>>
     \/ ~cancelled /\ live # <<>> /\ pc' = "asset"
        /\ \/ assetDiff' = (IF persist THEN DiffAssets(db, Range(live)) ELSE {})
              /\ UNCHANGED faults
           \/ persist /\ Fault /\ UNCHANGED assetDiff
  /\ UNCHANGED <<db, cancelled, idx, conf, todo, live, asset, output>>

\* tcpScanner.Scan of the next asset.  A cancelled Scan returns what it has;
\* an asset without a name is an error and is passed over.
ScanAsset ==
  /\ pc = "asset" /\ ~cancelled /\ idx <= Len(live)
  /\ IF live[idx] = EmptyName
       THEN idx' = idx + 1 /\ UNCHANGED <<pc, open>>
       ELSE pc' = "scan" /\ open' = {} /\ UNCHANGED idx
  /\ UNCHANGED <<db, cancelled, faults, conf, phase1, rest, history, loaded, services, output>>

\* Between the scan's start and its end ctx may be cancelled: any subset.
ScanReturns ==
  /\ pc = "scan"
  /\ open' \in SUBSET ports
  /\ pc' = "history"
  /\ UNCHANGED <<db, cancelled, faults, idx, conf, phase1, rest, history, loaded,
                 services, output>>

\* LoadAssetHistory, before any write for the asset.
LoadHistory ==
  /\ pc = "history"
  /\ \/ persist /\ loaded' = TRUE /\ history' = LoadAssetHistory(db, live[idx])
                /\ UNCHANGED faults
     \/ persist /\ Fault /\ loaded' = FALSE /\ history' = NoHistory
     \/ ~persist /\ loaded' = FALSE /\ history' = NoHistory /\ UNCHANGED faults
  /\ rest' = open /\ services' = Nothing
  /\ pc' = "port"
  /\ UNCHANGED <<db, cancelled, idx, conf, phase1, open, output>>

\* The lowest endpoint not reached yet: openPorts was sorted.
Next_(p) == p \in rest /\ \A q \in rest : p <= q

\* One iteration of the port loop, up to the banner.
HandlePort ==
  /\ pc = "port"
  /\ \E p \in rest : Next_(p) /\ StorePort(live[idx], p)
  /\ pc' = "banner"
  /\ UNCHANGED <<cancelled, idx, conf, phase1, asset, output>>

BadgeWithoutHistory(p) ==   \* mutant: no check for a missing history
  badges' = IF p \notin history.ports THEN badges \cup {<<live[idx], p>>} ELSE badges

\* The [OPENED] badge of the port's event.
Badge(p) ==
  badges' = IF loaded /\ p \notin history.ports
              THEN badges \cup {<<live[idx], p>>} ELSE badges

\* No banner, or a banner with neither name nor text: nothing to save.
NoService ==
  /\ pc = "banner"
  /\ \E p \in rest : Next_(p) /\ Badge(p) /\ rest' = rest \ {p}
  /\ pc' = "port"
  /\ UNCHANGED <<db, cancelled, faults, idx, conf, phase1, open, history, loaded, services,
                 allDiffs, report, observed>>

\* The service is saved and kept for the diff.
HandleService ==
  /\ pc = "banner"
  /\ \E p \in rest, svc \in Services :
       /\ Next_(p)
       /\ StoreService(live[idx], p, svc)
       /\ services' = Upsert(services, p, svc)
       /\ Badge(p)
       /\ rest' = rest \ {p}
  /\ pc' = "port"
  /\ UNCHANGED <<cancelled, idx, conf, phase1, open, history, loaded, allDiffs, report,
                 observed>>

\* The diff of one asset, kept when it says anything.  The code has two
\* calls, one for no open port; with open = {} both are this one.
DiffWith(h) ==
  LET diff == DiffAsset(live[idx], h, open, services)
  IN  allDiffs' = IF loaded /\ ~IsEmptyDiff(diff) THEN Append(allDiffs, diff) ELSE allDiffs

DiffLateHistory == DiffWith(LoadAssetHistory(db, live[idx]))  \* mutant: read after the writes

DiffCurrent == DiffWith(history)

FinishAsset ==
  /\ pc = "port" /\ rest = {}
  /\ DiffCurrent
  /\ observed' = Upsert(observed, live[idx], [open |-> open, services |-> services])
  /\ idx' = idx + 1
  /\ pc' = "asset"
  /\ UNCHANGED <<db, cancelled, faults, conf, phase1, asset, report, badges>>

NewAssetEvent(d) == [kind |-> "NEW ASSET", domain |-> d]
OpenedEvent(d, p) == [kind |-> "PORT OPENED", domain |-> d, port |-> p]
ClosedEvent(d, p) == [kind |-> "PORT CLOSED", domain |-> d, port |-> p]
VersionEvent(d, c) == [kind |-> "VERSION CHANGE", domain |-> d, change |-> c]

DiffEvents(diff) ==
  { OpenedEvent(diff.domain, p) : p \in diff.opened }
    \cup { ClosedEvent(diff.domain, p) : p \in diff.closed }
    \cup { VersionEvent(diff.domain, c) : c \in diff.changes }

PortEvents == UNION { DiffEvents(diff) : diff \in Range(allDiffs) }

\* The end of runPhase2: every asset done, the differences are emitted.
EmitDiffs ==
  /\ pc = "asset" /\ idx > Len(live)
  /\ report' = { NewAssetEvent(d) : d \in assetDiff } \cup PortEvents
  /\ pc' = "phase3"
  /\ UNCHANGED <<db, cancelled, faults, idx, conf, phase1, asset, allDiffs, badges, observed>>

\* runPhase2 finds ctx cancelled before an asset: no difference is emitted.
AbandonPhase2 ==
  /\ pc = "asset" /\ cancelled /\ idx <= Len(live)
  /\ Return
  /\ UNCHANGED <<db, cancelled, faults, idx, conf, phase1, asset, output>>

----------------------------------------------------------------------------
(* Phase 3 and the end.                                                    *)

BeginPhase3 ==
  /\ pc = "phase3"
  /\ \/ cancelled /\ Return /\ UNCHANGED todo
     \/ ~cancelled /\ pc' = "buckets"
        /\ todo' \in IF target = EmptyName THEN {{}} ELSE SUBSET Buckets
  /\ UNCHANGED <<db, cancelled, faults, idx, conf, live, assetDiff, asset, output>>

\* One iteration of the loop over the buckets; it does not look at ctx.
HandleBucket ==
  /\ pc = "buckets"
  /\ \E url \in todo, accessible \in BOOLEAN :
       /\ todo' = todo \ {url}
       /\ StoreBucket(target, url, accessible)
  /\ UNCHANGED <<pc, cancelled, idx, conf, live, assetDiff, asset, output>>

Finish ==
  /\ pc = "buckets" /\ todo = {}
  /\ Return
  /\ UNCHANGED <<db, cancelled, faults, idx, conf, phase1, asset, output>>

\* The client goes away, or the operator presses Ctrl-C.
Cancel ==
  /\ MayStop /\ pc # "idle" /\ ~cancelled
  /\ cancelled' = TRUE
  /\ UNCHANGED <<db, pc, faults, idx, conf, phase1, asset, output>>

\* The process dies: the store is all that is left of the scan.
Crash ==
  /\ MayStop /\ pc # "idle"
  /\ pc' = "idle"
  /\ allDiffs' = <<>>
  /\ UNCHANGED <<db, cancelled, faults, idx, conf, phase1, asset, report, badges, observed>>

\* The bound on scans is reached.
Stop == pc = "idle" /\ scan = MaxScans /\ UNCHANGED vars

Phase1 == LocalAsset \/ Discover \/ DiscoverFails \/ Resolve \/ Enrich \/ ResolvePTR \/ EndPhase1
Phase2 == \/ BeginPhase2 \/ ScanAsset \/ ScanReturns \/ LoadHistory \/ HandlePort
          \/ NoService \/ HandleService \/ FinishAsset \/ EmitDiffs \/ AbandonPhase2
Phase3 == BeginPhase3 \/ HandleBucket \/ Finish

Next == StartScan \/ Phase1 \/ Phase2 \/ Phase3 \/ Cancel \/ Crash \/ Stop

Spec == Init /\ [][Next]_vars

----------------------------------------------------------------------------
(* Properties.                                                             *)

Scans == 0..MaxScans

FoundType(ps, svcs) == ps \subseteq Endpoints /\ IsTable(svcs, Endpoints, Services)

ServiceNames == { s.name : s \in Services }
Versions == { s.version : s \in Services }
Changes == [port : Endpoints, name : ServiceNames, old : Versions, new : Versions]
Diffs == [domain : Names, opened : SUBSET Endpoints, closed : SUBSET Endpoints,
          changes : SUBSET Changes]

StoreType(s) ==
  /\ s = [assets |-> s.assets, ports |-> s.ports, services |-> s.services,
          buckets |-> s.buckets]
  /\ IsTable(s.assets, Names, Stamp(Scans))
  /\ IsTable(s.ports, Names \X Endpoints, Stamp(Scans))
  /\ IsTable(s.services, Names \X Endpoints, ServiceRows(Services, Scans))
  /\ IsTable(s.buckets, Buckets, BucketRows(Names, Scans))

\* Every variable has its type.
TypeOK ==
  /\ StoreType(db) /\ StoreType(pre)
  /\ scan \in Scans
  /\ pc \in {"idle", "local", "discover", "resolve", "enrich", "phase2", "asset", "scan",
             "history", "port", "banner", "phase3", "buckets"}
  /\ target \in Names
  /\ cancelled \in BOOLEAN /\ persist \in BOOLEAN /\ loaded \in BOOLEAN
  /\ faults \in 0..MaxFaults
  /\ todo \subseteq Domains \cup Buckets
  /\ live \in Seq(Names)
  /\ idx \in 1..(Len(live) + 1)
  /\ assetDiff \subseteq Names
  /\ ports \subseteq Endpoints /\ open \subseteq ports /\ rest \subseteq open
  /\ FoundType(history.ports, history.services)
  /\ IsTable(services, Endpoints, Services)
  /\ allDiffs \in Seq(Diffs)
  /\ \A e \in report : e.domain \in Names
  /\ badges \subseteq Names \X Endpoints
  /\ DOMAIN observed \subseteq Names
  /\ \A d \in DOMAIN observed : FoundType(observed[d].open, observed[d].services)

\* Every difference found is the difference between what the store held when
\* the scan began and what this scan found, although the store has been
\* written many times in between (runner.go:457, differ.go:75).
DiffsAgainstPreScan ==
  \A i \in DOMAIN allDiffs :
    LET d == allDiffs[i].domain
    IN  allDiffs[i] = DiffAsset(d, LoadAssetHistory(pre, d), observed[d].open,
                                observed[d].services)

AllAssetsDone == pc \in {"phase3", "buckets"}

Quiet == persist /\ faults = 0   \* no store call failed in this scan

\* When no store call failed, the ports reported as opened are exactly the
\* rows of ports whose first_seen is this scan: the report and the store tell
\* the same story.
OpenedIffFirstSeen ==
  AllAssetsDone /\ Quiet =>
    \A k \in Names \X Endpoints :
      OpenedEvent(k[1], k[2]) \in report <=>
        k \in DOMAIN db.ports /\ db.ports[k].first = scan

\* When no store call failed, a version change is reported exactly for the
\* services whose stored version this scan replaced by another one.
VersionReportsMatchStore ==
  AllAssetsDone /\ Quiet =>
    \A k \in DOMAIN pre.services :
      LET old == pre.services[k].svc
          new == db.services[k].svc
      IN  (\E c \in {ServiceChangeOf(k[2], old, new)} : VersionEvent(k[1], c) \in report)
            <=> /\ old.version # new.version
                /\ NoVersion \notin {old.version, new.version}

\* The [OPENED] badges shown while ports arrive and the PORT OPENED lines
\* printed at the end are computed by different code and agree.
BadgesMatchReport ==
  AllAssetsDone =>
    badges = { k \in Names \X Endpoints : OpenedEvent(k[1], k[2]) \in report }

\* When no store call failed, everything found is stored: no foreign key
\* refuses a port or a service, whichever phase found the asset.
FoundIsStored ==
  AllAssetsDone /\ Quiet =>
    /\ \A i \in DOMAIN live : live[i] \in DOMAIN db.assets /\ db.assets[live[i]].last = scan
    /\ \A d \in DOMAIN observed :
         /\ \A p \in observed[d].open :
              <<d, p>> \in DOMAIN db.ports /\ db.ports[<<d, p>>].last = scan
         /\ \A p \in DOMAIN observed[d].services :
              /\ <<d, p>> \in DOMAIN db.services
              /\ db.services[<<d, p>>].last = scan
              /\ db.services[<<d, p>>].svc = observed[d].services[p]

\* Keeps every row, with its first_seen, and never moves last_seen back.
Keeps(t, u) ==
  /\ DOMAIN t \subseteq DOMAIN u
  /\ \A k \in DOMAIN t : u[k].first = t[k].first /\ u[k].last >= t[k].last

\* A bucket stays with the domain it was first found for.
OwnersKept(t, u) == \A k \in DOMAIN t : u[k].owner = t[k].owner

\* FirstSeen is written once and never overwritten, LastSeen is refreshed on
\* every run, no row goes away (postgres_store.go:90) and no bucket changes
\* hands between two targets (postgres_store.go:226), through crashes, failures
\* and repeated scans.
HistoryIsKept ==
  [][/\ Keeps(db.assets, db'.assets)
     /\ Keeps(db.ports, db'.ports)
     /\ Keeps(db.services, db'.services)
     /\ Keeps(db.buckets, db'.buckets)
     /\ OwnersKept(db.buckets, db'.buckets)]_db

\* runner.go:421 claims that DiffAssets sees the state before the scan, so a
\* live domain with no row then is reported as new.
NewAssetsReported ==
  AllAssetsDone /\ Quiet =>
    \A d \in Range(live) \ FindAssets(pre) : NewAssetEvent(d) \in report

\* differ.go:37 and models/diff.go:107 claim that the history holds the ports
\* of the previous scan; assets.last_seen dates that scan.
HistoryIsPreviousScan ==
  pc = "port" /\ loaded =>
    \A p \in history.ports : pre.ports[<<live[idx], p>>].last = pre.assets[live[idx]].last

\* events.go:43: EventDiff fires once per differential change detected.
DetectedIsReported == pc = "idle" => PortEvents \subseteq report
=============================================================================
