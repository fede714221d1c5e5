------------------------- MODULE RunnerReportProofs -------------------------
(***************************************************************************)
(* What a scan of Runner tells and what it leaves in the store, proved to  *)
(* agree for every set of names, endpoints and services and every number   *)
(* of scans.  The invariants of RunnerProofs are the ground they stand on. *)
(***************************************************************************)
EXTENDS RunnerProofs

\* Phase 2 is in the port loop of an asset.
AtAsset == pc \in {"port", "banner"}

\* The table t holds the row of k, saved at now.
Current(t, k, now) == k \in DOMAIN t /\ t[k].last = now

\* The store s holds these ports and services of d, saved at now.
FoundIn(s, now, d, ps, svcs) ==
  /\ \A p \in ps : Current(s.ports, <<d, p>>, now)
  /\ \A p \in DOMAIN svcs : /\ Current(s.services, <<d, p>>, now)
                            /\ s.services[<<d, p>>].svc = svcs[p]

\* What is kept of the findings is about the assets Phase 2 is done with.
ObservedInv == \A d \in DOMAIN observed : \E k \in DOMAIN live : k < idx /\ live[k] = d

\* As long as no store call failed, what was found so far is stored: the live
\* assets, the findings of the assets done, and those of the ports the loop
\* has passed.  At the banner the port itself is stored, which is what the
\* foreign key of services asks for.
StoredInv ==
  Quiet =>
    /\ \A i \in DOMAIN live : Current(db.assets, live[i], scan)
    /\ \A d \in DOMAIN observed :
         FoundIn(db, scan, d, observed[d].open, observed[d].services)
    /\ AtAsset => loaded /\ FoundIn(db, scan, live[idx], open \ rest, services)
    /\ pc = "banner" =>
         \A p \in rest : Next_(p) => Current(db.ports, <<live[idx], p>>, scan)

FoundInv == ObservedInv /\ StoredInv

----------------------------------------------------------------------------
(* Steps and stores.                                                       *)

\* Within a scan its parameters stay, and a failure is not forgotten.
LEMMA QuietStep ==
  ASSUME TypeInv, [Next]_vars, ~StartScan
  PROVE  UNCHANGED conf /\ (Quiet' => Quiet)
<1> USE DEF conf, phase1, asset, output
<1>n. faults \in Nat
  BY RunnerAssumption DEF TypeInv, TypeOK
<1>1. UNCHANGED <<scan, target, persist, ports, pre>> /\ (faults' = faults \/ faults' = faults + 1)
  <2>1. CASE LocalAsset \/ Resolve \/ ResolvePTR
    BY <2>1 DEF LocalAsset, Resolve, ResolvePTR, EnrichName, GoLive, Skip, StoreAsset, Fault
  <2>2. CASE Discover \/ DiscoverFails \/ Enrich \/ EndPhase1 \/ BeginPhase2
    BY <2>2 DEF Discover, DiscoverFails, Enrich, EndPhase1, BeginPhase2, Fault
  <2>3. CASE ScanAsset \/ ScanReturns \/ LoadHistory \/ NoService
    BY <2>3 DEF ScanAsset, ScanReturns, LoadHistory, NoService, Fault
  <2>4. CASE HandlePort \/ HandleService \/ HandleBucket
    BY <2>4 DEF HandlePort, HandleService, HandleBucket, StorePort, StoreService,
                StoreBucket, Fault
  <2>5. CASE FinishAsset \/ EmitDiffs \/ AbandonPhase2 \/ BeginPhase3 \/ Finish
    BY <2>5 DEF FinishAsset, EmitDiffs, AbandonPhase2, BeginPhase3, Finish
  <2>6. CASE Cancel \/ Crash \/ UNCHANGED vars
    BY <2>6 DEF Cancel, Crash, vars
  <2> QED
    BY <2>1, <2>2, <2>3, <2>4, <2>5, <2>6 DEF Next, Phase1, Phase2, Phase3, Stop
<1>2. Quiet' => Quiet
  BY <1>n, <1>1 DEF Quiet
<1> QED
  BY <1>1, <1>2

\* A row saved in this scan is still there after any step of the scan.
LEMMA RowsStay ==
  ASSUME TypeInv, [Next]_vars, scan' = scan
  PROVE  /\ \A k : Current(db.assets, k, scan) => Current(db'.assets, k, scan)
         /\ \A k : Current(db.ports, k, scan) => Current(db'.ports, k, scan)
         /\ \A k : Current(db.services, k, scan) => Current(db'.services, k, scan)
<1>1. StoreType(db') /\ KeepsAll(db, db') /\ Aged(db', scan) /\ scan \in Nat
  BY WriteStep, RunnerAssumption DEF TypeInv, TypeOK, Scans
<1>2. ASSUME NEW t, NEW u, NEW K, NEW R, IsTable(u, K, R), Keeps(t, u), SeenBy(u, scan),
             \A r \in R : r.first \in Scans /\ r.last \in Scans,
             NEW k, Current(t, k, scan)
      PROVE  Current(u, k, scan)
  <2>1. k \in DOMAIN u /\ u[k].last >= scan /\ u[k].last <= scan
    BY <1>2 DEF Keeps, SeenBy, Current
  <2>2. u[k].last \in Nat
    BY <1>2, <2>1, RunnerAssumption DEF IsTable, Scans
  <2> QED
    BY <1>1, <2>1, <2>2 DEF Current
<1> QED
  BY <1>1, <1>2, StampTypes DEF StoreType, KeepsAll, Aged

\* Findings stay stored through a step that saves no service.
LEMMA FoundStays ==
  ASSUME TypeInv, [Next]_vars, scan' = scan, db'.services = db.services,
         NEW d, NEW ps, NEW svcs, FoundIn(db, scan, d, ps, svcs)
  PROVE  FoundIn(db', scan, d, ps, svcs)
  BY RowsStay DEF FoundIn

\* With no failure, an asset is saved.
LEMMA QuietAsset ==
  ASSUME TypeInv, NEW d \in Names, StoreAsset(d), Quiet', UNCHANGED persist
  PROVE  Current(db'.assets, d, scan)
<1>1. faults \in Nat /\ StoreType(db)
  BY RunnerAssumption DEF TypeInv, TypeOK
<1>2. db' = SaveAsset(db, d, scan)
  BY <1>1 DEF StoreAsset, Quiet, Fault
<1> QED
  BY <1>1, <1>2 DEF SaveAsset, StoreType, Upsert, Current

\* So is a port whose asset is.
LEMMA QuietPort ==
  ASSUME TypeInv, NEW d \in Names, NEW p \in Endpoints, StorePort(d, p), Quiet',
         UNCHANGED persist, PortHasAsset(db, d)
  PROVE  Current(db'.ports, <<d, p>>, scan)
<1>1. faults \in Nat /\ StoreType(db)
  BY RunnerAssumption DEF TypeInv, TypeOK
<1>2. db' = SavePort(db, d, p, scan)
  BY <1>1 DEF StorePort, Quiet, Fault
<1> QED
  BY <1>1, <1>2 DEF SavePort, StoreType, Upsert, Current

\* So is a service whose port is.
LEMMA QuietService ==
  ASSUME TypeInv, NEW d \in Names, NEW p \in Endpoints, NEW svc \in Services,
         StoreService(d, p, svc), Quiet', UNCHANGED persist, ServiceHasPort(db, d, p)
  PROVE  Current(db'.services, <<d, p>>, scan) /\ db'.services[<<d, p>>].svc = svc
<1>1. faults \in Nat /\ StoreType(db)
  BY RunnerAssumption DEF TypeInv, TypeOK
<1>2. db' = SaveService(db, d, p, svc, scan)
  BY <1>1 DEF StoreService, Quiet, Fault
<1> QED
  BY <1>1, <1>2 DEF SaveService, StoreType, Upsert, Current

\* Saving a port touches no service and no other port.
LEMMA StorePortRest ==
  ASSUME TypeInv, NEW d \in Names, NEW p \in Endpoints, StorePort(d, p)
  PROVE  /\ db'.services = db.services
         /\ DOMAIN db'.ports \subseteq DOMAIN db.ports \cup {<<d, p>>}
         /\ <<d, p>> \notin DOMAIN db.ports /\ <<d, p>> \in DOMAIN db'.ports
              => db'.ports[<<d, p>>].first = scan
<1>1. StoreType(db)
  BY DEF TypeInv, TypeOK
<1>2. CASE UNCHANGED db
  BY <1>2
<1>3. CASE db' = SavePort(db, d, p, scan)
  <2>1. db'.ports = Upsert(db.ports, <<d, p>>,
                           [first |-> FirstSeen(db.ports, <<d, p>>, scan), last |-> scan])
    BY <1>1, <1>3 DEF SavePort, StoreType
  <2>2. db'.services = db.services
    BY <1>1, <1>3 DEF SavePort, StoreType
  <2> QED
    BY <2>1, <2>2 DEF Upsert, FirstSeen
<1> QED
  BY <1>2, <1>3 DEF StorePort

\* Saving a service touches no port and no other service.
LEMMA StoreServiceRest ==
  ASSUME TypeInv, NEW d \in Names, NEW p \in Endpoints, NEW svc \in Services,
         StoreService(d, p, svc)
  PROVE  /\ db'.ports = db.ports
         /\ \A k \in DOMAIN db.services : k \in DOMAIN db'.services
         /\ \A k \in DOMAIN db.services :
              k # <<d, p>> => db'.services[k] = db.services[k]
<1>1. StoreType(db)
  BY DEF TypeInv, TypeOK
<1>2. CASE UNCHANGED db
  BY <1>2
<1>3. CASE db' = SaveService(db, d, p, svc, scan)
  BY <1>1, <1>3 DEF SaveService, StoreType, Upsert
<1> QED
  BY <1>2, <1>3 DEF StoreService

\* The asset at hand is a name, and none of those that are done.
LEMMA AtHand ==
  ASSUME TypeInv, LiveInv, ObservedInv, AtAsset
  PROVE  /\ idx \in DOMAIN live /\ live[idx] \in Names
         /\ live[idx] \notin DOMAIN observed
<1>1. idx \in DOMAIN live /\ live[idx] \in Names /\ idx \in Nat
  BY DEF TypeInv, TypeOK, PlaceInv, AtAsset
<1>2. ASSUME live[idx] \in DOMAIN observed PROVE FALSE
  <2>1. PICK k \in DOMAIN live : k < idx /\ live[k] = live[idx]
    BY <1>2 DEF ObservedInv
  <2>2. k # idx
    BY <1>1, <2>1
  <2> QED
    BY <1>1, <2>1, <2>2 DEF LiveInv
<1> QED
  BY <1>1, <1>2

\* In Phase 1 nothing was found yet.
LEMMA EarlyObserved ==
  ASSUME TypeInv, ObservedInv, pc \in Early
  PROVE  DOMAIN observed = {}
<1>1. \A k \in DOMAIN live : ~(k < 1)
  BY DEF TypeInv, TypeOK
<1>2. idx = 1
  BY DEF TypeInv, PlaceInv
<1> QED
  BY <1>1, <1>2 DEF ObservedInv

----------------------------------------------------------------------------
(* What was found is stored.                                               *)

\* Before the first scan nothing was found.
LEMMA InitFound == Init => FoundInv
<1> SUFFICES ASSUME Init PROVE FoundInv
  OBVIOUS
<1>1. DOMAIN live = {} /\ DOMAIN observed = {} /\ pc = "idle"
  BY DEF Init, Nothing
<1> QED
  BY <1>1 DEF FoundInv, ObservedInv, StoredInv, AtAsset

\* A step that leaves the findings of the assets done, saves no service and
\* does not end in a port loop, whatever else it saves.
LEMMA IdleStep ==
  ASSUME TypeInv, FoundInv, [Next]_vars, ~StartScan, db'.services = db.services,
         UNCHANGED <<live, observed>>, idx' \in {idx, idx + 1}, ~AtAsset'
  PROVE  FoundInv'
<1>1. UNCHANGED conf /\ scan' = scan /\ (Quiet' => Quiet)
  BY QuietStep DEF conf
<1>2. ObservedInv'
  <2>1. idx \in Nat /\ DOMAIN live \subseteq Nat
    BY DEF TypeInv, TypeOK
  <2>2. \A k \in DOMAIN live : k < idx => k < idx'
    BY <2>1
  <2> QED
    BY <2>2 DEF FoundInv, ObservedInv
<1>3. StoredInv'
  <2> SUFFICES ASSUME Quiet' PROVE StoredInv'
    BY DEF StoredInv
  <2>1. \A i \in DOMAIN live : Current(db'.assets, live[i], scan)
    BY <1>1, RowsStay DEF FoundInv, StoredInv
  <2>2. \A d \in DOMAIN observed :
          FoundIn(db', scan, d, observed[d].open, observed[d].services)
    BY <1>1, FoundStays DEF FoundInv, StoredInv
  <2> QED
    BY <1>1, <2>1, <2>2 DEF StoredInv, AtAsset
<1> QED
  BY <1>2, <1>3 DEF FoundInv

\* One more name is live, and saved.
LEMMA GoLiveStep ==
  ASSUME TypeInv, FoundInv, [Next]_vars, ~StartScan, NEW d \in Names, GoLive(d),
         UNCHANGED <<idx, observed>>, pc \in Early, ~AtAsset'
  PROVE  FoundInv'
<1>1. UNCHANGED conf /\ scan' = scan /\ persist' = persist /\ (Quiet' => Quiet)
  BY QuietStep DEF conf
<1>2. DOMAIN observed = {}
  BY EarlyObserved DEF FoundInv
<1>3. ASSUME Quiet', NEW i \in DOMAIN live' PROVE Current(db'.assets, live'[i], scan)
  <2>1. Current(db'.assets, d, scan)
    BY <1>1, <1>3, QuietAsset DEF GoLive
  <2>2. /\ DOMAIN live' = DOMAIN live \cup {Len(live) + 1}
        /\ live'[Len(live) + 1] = d /\ \A j \in DOMAIN live : live'[j] = live[j]
    BY LiveGrows
  <2>3. \A j \in DOMAIN live : Current(db'.assets, live[j], scan)
    BY <1>1, <1>3, RowsStay DEF FoundInv, StoredInv
  <2> QED
    BY <1>3, <2>1, <2>2, <2>3
<1> QED
  BY <1>1, <1>2, <1>3 DEF FoundInv, ObservedInv, StoredInv, AtAsset

\* Every step keeps what was found stored.
LEMMA FoundStep == TypeInv /\ LiveInv /\ FoundInv /\ [Next]_vars => FoundInv'
<1> SUFFICES ASSUME TypeInv, LiveInv, FoundInv, [Next]_vars PROVE FoundInv'
  OBVIOUS
<1> USE DEF conf, phase1, asset, output
<1>n. idx \in Nat /\ DOMAIN live \subseteq Nat \ {0} /\ rest \subseteq open /\ open \subseteq Endpoints
  BY DEF TypeInv, TypeOK
<1>s. ~StartScan => UNCHANGED conf /\ scan' = scan /\ persist' = persist /\ (Quiet' => Quiet)
  BY QuietStep
<1>1. CASE StartScan
  <2>1. DOMAIN live' = {} /\ DOMAIN observed' = {} /\ pc' \in {"local", "discover"}
    BY <1>1 DEF StartScan, BeginScan, Nothing
  <2> QED
    BY <2>1 DEF FoundInv, ObservedInv, StoredInv, AtAsset
<1>2. CASE LocalAsset
  <2>1. /\ pc = "local" /\ pc' = "phase2" /\ target \in Names /\ StoreAsset(target)
        /\ UNCHANGED <<idx, observed>> /\ live' = <<target>> /\ ~StartScan
    BY <1>2 DEF LocalAsset, TypeInv, TypeOK, StartScan, BeginScan
  <2>2. DOMAIN observed = {} /\ DOMAIN live' = {1} /\ live'[1] = target
    BY <2>1, EarlyObserved DEF FoundInv, Early
  <2>3. Quiet' => Current(db'.assets, target, scan')
    BY <2>1, <1>s, QuietAsset
  <2> QED
    BY <2>1, <2>2, <2>3 DEF FoundInv, ObservedInv, StoredInv, AtAsset
<1>3. CASE Resolve
  <2>1. PICK d \in todo : GoLive(d) \/ Skip
    BY <1>3 DEF Resolve
  <2>2. /\ d \in Names /\ pc = "resolve" /\ pc' = "resolve" /\ UNCHANGED <<idx, observed>>
        /\ ~StartScan
    BY <1>3 DEF Resolve, TypeInv, PlaceInv, Names, StartScan, BeginScan
  <2>3. CASE GoLive(d)
    BY <2>2, <2>3, GoLiveStep DEF Early, AtAsset
  <2>4. CASE Skip
    BY <2>2, <2>4, IdleStep DEF Skip, AtAsset
  <2> QED
    BY <2>1, <2>3, <2>4
<1>4. CASE ResolvePTR
  <2>1. PICK d \in todo : GoLive(d) \/ Skip
    BY <1>4 DEF ResolvePTR, EnrichName
  <2>2. /\ d \in Names /\ pc = "enrich" /\ pc' = "enrich" /\ UNCHANGED <<idx, observed>>
        /\ ~StartScan
    BY <1>4 DEF ResolvePTR, EnrichName, TypeInv, PlaceInv, Names, StartScan, BeginScan
  <2>3. CASE GoLive(d)
    BY <2>2, <2>3, GoLiveStep DEF Early, AtAsset
  <2>4. CASE Skip
    BY <2>2, <2>4, IdleStep DEF Skip, AtAsset
  <2> QED
    BY <2>1, <2>3, <2>4
<1>5. CASE Discover \/ DiscoverFails \/ Enrich \/ EndPhase1 \/ BeginPhase2 \/ ScanAsset
  <2>1. /\ UNCHANGED <<db, live, observed>> /\ idx' \in {idx, idx + 1}
        /\ pc' \in {"idle", "resolve", "enrich", "phase2", "phase3", "asset", "scan"} /\ pc # "idle"
    BY <1>5 DEF Discover, DiscoverFails, Enrich, EndPhase1, BeginPhase2, ScanAsset, Return
  <2> QED
    BY <2>1, IdleStep DEF AtAsset, StartScan, BeginScan
<1>6. CASE ScanReturns \/ EmitDiffs \/ AbandonPhase2 \/ BeginPhase3 \/ Finish \/ Crash
  <2>1. /\ UNCHANGED <<db, live, observed>> /\ idx' \in {idx, idx + 1}
        /\ pc' \in {"idle", "history", "phase3", "buckets"} /\ pc # "idle"
    BY <1>6 DEF ScanReturns, EmitDiffs, AbandonPhase2, BeginPhase3, Finish, Crash, Return
  <2> QED
    BY <2>1, IdleStep DEF AtAsset, StartScan, BeginScan
<1>7. CASE HandleBucket
  <2>1. PICK u \in todo, a \in BOOLEAN : StoreBucket(target, u, a)
    BY <1>7 DEF HandleBucket
  <2>2. /\ target \in Names /\ u \in Buckets /\ pc = "buckets" /\ pc' = pc
        /\ UNCHANGED <<live, observed, idx>>
    BY <1>7 DEF HandleBucket, TypeInv, TypeOK, PlaceInv
  <2>3. db'.services = db.services
    BY <2>1, <2>2, StoreBucketOK
  <2> QED
    BY <2>2, <2>3, IdleStep DEF AtAsset, StartScan, BeginScan
<1>8. CASE Cancel \/ UNCHANGED vars
  <2>1. UNCHANGED <<db, scan, persist, faults, pc, live, idx, open, rest, services, loaded, observed>>
    BY <1>8 DEF Cancel, vars
  <2> QED
    BY <2>1 DEF FoundInv, ObservedInv, StoredInv, AtAsset, Quiet, Next_
<1>9. CASE LoadHistory
  <2>1. /\ UNCHANGED <<db, live, idx, observed, open>> /\ pc = "history" /\ pc' = "port"
        /\ rest' = open /\ services' = Nothing /\ ~StartScan
    BY <1>9 DEF LoadHistory, StartScan, BeginScan
  <2>2. faults \in Nat
    BY RunnerAssumption DEF TypeInv, TypeOK
  <2>3. Quiet' => loaded'
    BY <1>9, <2>2 DEF LoadHistory, Fault, Quiet
  <2>4. FoundIn(db, scan, live[idx], open \ open, Nothing)
    BY DEF FoundIn, Nothing
  <2> QED
    BY <1>s, <2>1, <2>3, <2>4 DEF FoundInv, ObservedInv, StoredInv, AtAsset
<1>10. CASE HandlePort
  <2>1. PICK p \in rest : Next_(p) /\ StorePort(live[idx], p)
    BY <1>10 DEF HandlePort
  <2>2. /\ UNCHANGED <<live, idx, observed, open, rest, services, loaded>>
        /\ pc = "port" /\ pc' = "banner" /\ ~StartScan
    BY <1>10 DEF HandlePort, StartScan, BeginScan
  <2>3. idx \in DOMAIN live /\ live[idx] \in Names /\ p \in Endpoints
    BY <1>n, <2>1, <2>2, AtHand DEF AtAsset, FoundInv
  <2>4. db'.services = db.services
    BY <2>1, <2>3, StorePortRest
  <2>5. ASSUME Quiet' PROVE StoredInv'
    <3>1. Current(db.assets, live[idx], scan)
      BY <1>s, <2>2, <2>3, <2>5 DEF FoundInv, StoredInv
    <3>2. Current(db'.ports, <<live[idx], p>>, scan)
      BY <1>s, <2>1, <2>2, <2>3, <2>5, <3>1, QuietPort DEF PortHasAsset, Current
    <3>3. \A i \in DOMAIN live : Current(db'.assets, live[i], scan)
      BY <1>s, <2>2, <2>5, RowsStay DEF FoundInv, StoredInv
    <3>4. \A d \in DOMAIN observed :
            FoundIn(db', scan, d, observed[d].open, observed[d].services)
      BY <1>s, <2>2, <2>4, <2>5, FoundStays DEF FoundInv, StoredInv
    <3>5. loaded /\ FoundIn(db', scan, live[idx], open \ rest, services)
      BY <1>s, <2>2, <2>4, <2>5, FoundStays DEF FoundInv, StoredInv, AtAsset
    <3>6. \A q \in rest : Next_(q) => q = p
      BY <1>n, <2>1, RunnerAssumption DEF Next_
    <3> QED
      BY <1>s, <2>2, <3>2, <3>3, <3>4, <3>5, <3>6 DEF StoredInv, AtAsset, Next_
  <2>6. ObservedInv' /\ (~Quiet' => StoredInv')
    BY <2>2 DEF FoundInv, ObservedInv, StoredInv
  <2> QED
    BY <2>5, <2>6 DEF FoundInv
<1>11. CASE NoService
  <2>1. PICK p \in rest : Next_(p) /\ rest' = rest \ {p}
    BY <1>11 DEF NoService
  <2>2. /\ UNCHANGED <<db, live, idx, observed, open, services, loaded>>
        /\ pc = "banner" /\ pc' = "port" /\ ~StartScan
    BY <1>11 DEF NoService, StartScan, BeginScan
  <2>3. ASSUME Quiet' PROVE FoundIn(db, scan, live[idx], open \ rest', services)
    <3>1. Current(db.ports, <<live[idx], p>>, scan)
      BY <1>s, <2>1, <2>2, <2>3 DEF FoundInv, StoredInv
    <3>2. FoundIn(db, scan, live[idx], open \ rest, services)
      BY <1>s, <2>2, <2>3 DEF FoundInv, StoredInv, AtAsset
    <3> QED
      BY <2>1, <3>1, <3>2 DEF FoundIn
  <2> QED
    BY <1>s, <2>2, <2>3 DEF FoundInv, ObservedInv, StoredInv, AtAsset
<1>12. CASE HandleService
  <2>1. PICK p \in rest, svc \in Services :
          /\ Next_(p) /\ StoreService(live[idx], p, svc)
          /\ services' = Upsert(services, p, svc) /\ rest' = rest \ {p}
    BY <1>12 DEF HandleService
  <2>2. /\ UNCHANGED <<live, idx, observed, open, loaded>>
        /\ pc = "banner" /\ pc' = "port" /\ ~StartScan
    BY <1>12 DEF HandleService, StartScan, BeginScan
  <2> DEFINE d == live[idx]
  <2>3. /\ idx \in DOMAIN live /\ d \in Names /\ p \in Endpoints
        /\ d \notin DOMAIN observed
    BY <1>n, <2>1, <2>2, AtHand DEF AtAsset, FoundInv
  <2>4. /\ \A k \in DOMAIN db.services : k \in DOMAIN db'.services
        /\ \A k \in DOMAIN db.services : k # <<d, p>> => db'.services[k] = db.services[k]
    BY <2>1, <2>3, StoreServiceRest
  <2>5. ASSUME Quiet' PROVE StoredInv'
    <3>1. Current(db.ports, <<d, p>>, scan)
      BY <1>s, <2>1, <2>2, <2>5 DEF FoundInv, StoredInv
    <3>2. Current(db'.services, <<d, p>>, scan) /\ db'.services[<<d, p>>].svc = svc
      BY <1>s, <2>1, <2>2, <2>3, <2>5, <3>1, QuietService DEF ServiceHasPort, Current
    <3>3. \A i \in DOMAIN live : Current(db'.assets, live[i], scan)
      BY <1>s, <2>2, <2>5, RowsStay DEF FoundInv, StoredInv
    <3>4. ASSUME NEW e \in DOMAIN observed
          PROVE  FoundIn(db', scan, e, observed[e].open, observed[e].services)
      <4>1. FoundIn(db, scan, e, observed[e].open, observed[e].services)
        BY <1>s, <2>2, <2>5 DEF FoundInv, StoredInv
      <4>2. \A q : <<e, q>> # <<d, p>>
        BY <2>3
      <4>3. \A q \in observed[e].open : Current(db'.ports, <<e, q>>, scan)
        BY <1>s, <2>2, <4>1, RowsStay DEF FoundIn
      <4>4. \A q \in DOMAIN observed[e].services :
              /\ Current(db'.services, <<e, q>>, scan)
              /\ db'.services[<<e, q>>].svc = observed[e].services[q]
        BY <2>4, <4>1, <4>2 DEF FoundIn, Current
      <4> QED
        BY <4>3, <4>4 DEF FoundIn
    <3>5. loaded /\ FoundIn(db, scan, d, open \ rest, services)
      BY <1>s, <2>2, <2>5 DEF FoundInv, StoredInv, AtAsset
    <3>6. FoundIn(db', scan, d, open \ rest', services')
      <4>1. \A q \in open \ rest' : Current(db'.ports, <<d, q>>, scan)
        BY <1>s, <2>1, <2>2, <3>1, <3>5, RowsStay DEF FoundIn
      <4>2. ASSUME NEW q \in DOMAIN services'
            PROVE  /\ Current(db'.services, <<d, q>>, scan)
                   /\ db'.services[<<d, q>>].svc = services'[q]
        <5>1. CASE q = p
          BY <2>1, <3>2, <5>1 DEF Upsert
        <5>2. CASE q # p
          <6>1. q \in DOMAIN services /\ services'[q] = services[q] /\ <<d, q>> # <<d, p>>
            BY <2>1, <4>2, <5>2 DEF Upsert
          <6>2. <<d, q>> \in DOMAIN db.services /\ db.services[<<d, q>>].last = scan
                /\ db.services[<<d, q>>].svc = services[q]
            BY <3>5, <6>1 DEF FoundIn, Current
          <6> QED
            BY <2>4, <6>1, <6>2 DEF Current
        <5> QED
          BY <5>1, <5>2
      <4> QED
        BY <4>1, <4>2 DEF FoundIn
    <3> QED
      BY <1>s, <2>2, <3>3, <3>4, <3>5, <3>6 DEF StoredInv, AtAsset
  <2>6. ObservedInv' /\ (~Quiet' => StoredInv')
    BY <2>2 DEF FoundInv, ObservedInv, StoredInv
  <2> QED
    BY <2>5, <2>6 DEF FoundInv
<1>13. CASE FinishAsset
  <2> DEFINE d == live[idx]
  <2>1. /\ UNCHANGED <<db, live>> /\ pc = "port" /\ pc' = "asset" /\ idx' = idx + 1
        /\ rest = {} /\ observed' = Upsert(observed, d, [open |-> open, services |-> services])
        /\ ~StartScan
    BY <1>13 DEF FinishAsset, StartScan, BeginScan
  <2>2. idx \in DOMAIN live /\ idx < idx + 1 /\ \A k \in DOMAIN live : k < idx => k < idx + 1
    BY <1>n, <2>1, AtHand DEF AtAsset, FoundInv
  <2>3. /\ DOMAIN observed' = DOMAIN observed \cup {d}
        /\ observed'[d].open = open /\ observed'[d].services = services
        /\ \A e \in DOMAIN observed : e # d => observed'[e] = observed[e]
    BY <2>1 DEF Upsert
  <2>4. ObservedInv'
    BY <2>1, <2>2, <2>3 DEF FoundInv, ObservedInv
  <2>5. ASSUME Quiet' PROVE StoredInv'
    <3>1. open \ rest = open
      BY <2>1
    <3>2. FoundIn(db, scan, d, open, services)
      BY <1>s, <2>1, <2>5, <3>1 DEF FoundInv, StoredInv, AtAsset
    <3>3. \A e \in DOMAIN observed' :
            FoundIn(db, scan, e, observed'[e].open, observed'[e].services)
      BY <1>s, <2>1, <2>3, <2>5, <3>2 DEF FoundInv, StoredInv
    <3> QED
      BY <1>s, <2>1, <2>5, <3>3 DEF FoundInv, StoredInv, AtAsset
  <2>6. ~Quiet' => StoredInv'
    BY DEF StoredInv
  <2> QED
    BY <2>4, <2>5, <2>6 DEF FoundInv
<1> QED
  BY <1>1, <1>2, <1>3, <1>4, <1>5, <1>6, <1>7, <1>8, <1>9, <1>10, <1>11, <1>12, <1>13
     DEF Next, Phase1, Phase2, Phase3, Stop

\* All the invariants hold together.
LEMMA Foundations == Spec => [](TypeInv /\ PreScanInv /\ FoundInv)
<1>1. Init => TypeInv /\ PreScanInv /\ FoundInv
  BY InitType, InitPreScan, InitFound
<1>2. TypeInv /\ PreScanInv /\ FoundInv /\ [Next]_vars => (TypeInv /\ PreScanInv /\ FoundInv)'
  BY TypeStep, PreScanStep, FoundStep DEF PreScanInv
<1> QED
  BY <1>1, <1>2, PTL DEF Spec

\* When no store call failed, everything found is stored and dated by this
\* scan: no foreign key (postgres_store.go:41, 62) refuses a port or a service.
THEOREM StoredWhenQuiet == Spec => []FoundIsStored
<1>1. TypeInv /\ PreScanInv /\ FoundInv => FoundIsStored
  BY DEF FoundInv, StoredInv, FoundIsStored, FoundIn, Current
<1> QED
  BY <1>1, Foundations, PTL

----------------------------------------------------------------------------
(* Badges and report.                                                      *)

\* What the report will say is what the differences say; in Phase 1 there is
\* nothing to say.
EmitInv ==
  /\ pc \in Early => assetDiff = {} /\ allDiffs = <<>> /\ report = {}
  /\ AllAssetsDone => report = { NewAssetEvent(d) : d \in assetDiff } \cup PortEvents

\* The opened ports of a difference found.
OpenedOf(d, p) == \E i \in DOMAIN allDiffs : allDiffs[i].domain = d /\ p \in allDiffs[i].opened

\* The badges shown are the opened ports of the assets done, and of the one
\* at hand those that the loop has passed.
BadgesInv ==
  pc # "idle" =>
    \A d \in Names, p \in Endpoints :
      <<d, p>> \in badges <=>
        \/ OpenedOf(d, p)
        \/ AtAsset /\ loaded /\ d = live[idx] /\ p \in (open \ rest) \ history.ports

\* A port is reported as opened when a difference says so: no other event
\* looks like it.
LEMMA OpenedReported ==
  ASSUME NEW d, NEW p
  PROVE  OpenedEvent(d, p) \in { NewAssetEvent(e) : e \in assetDiff } \cup PortEvents
           <=> OpenedOf(d, p)
<1>1. \A e : OpenedEvent(d, p) # NewAssetEvent(e)
  BY DEF OpenedEvent, NewAssetEvent
<1>2. ASSUME NEW diff
      PROVE  OpenedEvent(d, p) \in DiffEvents(diff) <=> diff.domain = d /\ p \in diff.opened
  <2>1. \A q : OpenedEvent(d, p) = OpenedEvent(diff.domain, q) <=> d = diff.domain /\ p = q
    BY DEF OpenedEvent
  <2>2. \A q : OpenedEvent(d, p) # ClosedEvent(diff.domain, q)
    BY DEF OpenedEvent, ClosedEvent
  <2>3. \A c : OpenedEvent(d, p) # VersionEvent(diff.domain, c)
    BY DEF OpenedEvent, VersionEvent
  <2> QED
    BY <2>1, <2>2, <2>3 DEF DiffEvents
<1>3. OpenedEvent(d, p) \in PortEvents
        <=> \E diff \in Range(allDiffs) : diff.domain = d /\ p \in diff.opened
  BY <1>2 DEF PortEvents
<1> QED
  BY <1>1, <1>3 DEF OpenedOf, Range

\* A version change is reported when a difference says so.
LEMMA ChangeReported ==
  ASSUME NEW d, NEW c
  PROVE  VersionEvent(d, c) \in { NewAssetEvent(e) : e \in assetDiff } \cup PortEvents
           <=> \E i \in DOMAIN allDiffs : allDiffs[i].domain = d /\ c \in allDiffs[i].changes
<1>1. \A e : VersionEvent(d, c) # NewAssetEvent(e)
  BY DEF VersionEvent, NewAssetEvent
<1>2. ASSUME NEW diff
      PROVE  VersionEvent(d, c) \in DiffEvents(diff) <=> diff.domain = d /\ c \in diff.changes
  <2>1. \A q : VersionEvent(d, c) = VersionEvent(diff.domain, q) <=> d = diff.domain /\ c = q
    BY DEF VersionEvent
  <2>2. \A q : VersionEvent(d, c) # ClosedEvent(diff.domain, q)
    BY DEF VersionEvent, ClosedEvent
  <2>3. \A q : VersionEvent(d, c) # OpenedEvent(diff.domain, q)
    BY DEF OpenedEvent, VersionEvent
  <2> QED
    BY <2>1, <2>2, <2>3 DEF DiffEvents
<1>3. VersionEvent(d, c) \in PortEvents
        <=> \E diff \in Range(allDiffs) : diff.domain = d /\ c \in diff.changes
  BY <1>2 DEF PortEvents
<1> QED
  BY <1>1, <1>3 DEF Range

\* Before the first scan there are no badges to be wrong.
LEMMA InitBadges == Init => EmitInv /\ BadgesInv
  BY DEF Init, EmitInv, BadgesInv, Early, AllAssetsDone

\* The report is what the differences say.
LEMMA EmitStep == PreScanInv /\ EmitInv /\ [Next]_vars => EmitInv'
<1> SUFFICES ASSUME PreScanInv, EmitInv, [Next]_vars PROVE EmitInv'
  OBVIOUS
<1> USE DEF conf, phase1, asset, output
<1>1. CASE StartScan
  BY <1>1 DEF StartScan, BeginScan, EmitInv, AllAssetsDone
<1>2. CASE Phase1
  <2>1. pc \in Early /\ pc' \in Early /\ UNCHANGED <<assetDiff, allDiffs, report>>
    BY <1>2 DEF Phase1, LocalAsset, Discover, DiscoverFails, Resolve, Enrich, ResolvePTR,
                EnrichName, EndPhase1, Early
  <2> QED
    BY <2>1 DEF EmitInv, Early, AllAssetsDone
<1>3. CASE BeginPhase2
  <2>1. /\ pc = "phase2" /\ pc' \in {"idle", "asset", "phase3"} /\ UNCHANGED <<allDiffs, report>>
        /\ pc' = "phase3" => assetDiff' = assetDiff /\ live = <<>>
    BY <1>3 DEF BeginPhase2, Return
  <2>2. CASE pc' # "phase3"
    BY <2>1, <2>2 DEF EmitInv, Early, AllAssetsDone
  <2>3. CASE pc' = "phase3"
    <3>1. assetDiff' = {} /\ allDiffs' = <<>> /\ report' = {}
      BY <2>1, <2>3 DEF EmitInv, Early
    <3>2. PortEvents' = {}
      BY <3>1 DEF PortEvents, Range
    <3> QED
      BY <2>3, <3>1, <3>2 DEF EmitInv, Early, AllAssetsDone
  <2> QED
    BY <2>2, <2>3
<1>4. CASE EmitDiffs
  <2>1. /\ pc' = "phase3" /\ UNCHANGED <<assetDiff, allDiffs>>
        /\ report' = { NewAssetEvent(d) : d \in assetDiff } \cup PortEvents
    BY <1>4 DEF EmitDiffs
  <2>2. PortEvents' = PortEvents
    BY <2>1 DEF PortEvents, DiffEvents
  <2> QED
    BY <2>1, <2>2 DEF EmitInv, Early, AllAssetsDone
<1>5. CASE ScanAsset \/ ScanReturns \/ LoadHistory \/ HandlePort \/ NoService \/ HandleService
  <2>1. pc' \in {"asset", "scan", "history", "port", "banner"}
    BY <1>5 DEF ScanAsset, ScanReturns, LoadHistory, HandlePort, NoService, HandleService
  <2> QED
    BY <2>1 DEF EmitInv, Early, AllAssetsDone
<1>6. CASE FinishAsset \/ AbandonPhase2 \/ Finish \/ Crash
  <2>1. pc' \in {"asset", "idle"}
    BY <1>6 DEF FinishAsset, AbandonPhase2, Finish, Crash, Return
  <2> QED
    BY <2>1 DEF EmitInv, Early, AllAssetsDone
<1>7. CASE BeginPhase3 \/ HandleBucket
  <2>1. /\ AllAssetsDone /\ pc' \in {"idle", "buckets"} /\ UNCHANGED <<assetDiff, allDiffs, report>>
    BY <1>7 DEF BeginPhase3, HandleBucket, AllAssetsDone, Return
  <2>2. PortEvents' = PortEvents
    BY <2>1 DEF PortEvents, DiffEvents
  <2> QED
    BY <2>1, <2>2 DEF EmitInv, Early, AllAssetsDone
<1>8. CASE Cancel \/ UNCHANGED vars
  <2>1. UNCHANGED <<pc, assetDiff, allDiffs, report>>
    BY <1>8 DEF Cancel, vars
  <2>2. PortEvents' = PortEvents
    BY <2>1 DEF PortEvents, DiffEvents
  <2> QED
    BY <2>1, <2>2 DEF EmitInv, Early, AllAssetsDone
<1> QED
  BY <1>1, <1>2, <1>3, <1>4, <1>5, <1>6, <1>7, <1>8 DEF Next, Phase2, Phase3, Stop

\* The difference of the asset at hand is added to the others, unless it is
\* empty or the history could not be read.
LEMMA DiffAdded ==
  ASSUME TypeInv, FinishAsset
  PROVE  LET d == live[idx]
             diff == DiffAsset(d, history, open, services)
         IN  /\ \A i \in DOMAIN allDiffs : i \in DOMAIN allDiffs' /\ allDiffs'[i] = allDiffs[i]
             /\ \A i \in DOMAIN allDiffs' \ DOMAIN allDiffs : allDiffs'[i] = diff /\ loaded
             /\ loaded => IsEmptyDiff(diff) \/ \E i \in DOMAIN allDiffs' : allDiffs'[i] = diff
<1> DEFINE diff == DiffAsset(live[idx], history, open, services)
<1>1. \/ allDiffs' = allDiffs /\ (loaded => IsEmptyDiff(diff))
      \/ allDiffs' = Append(allDiffs, diff) /\ loaded
  BY DEF FinishAsset, DiffCurrent, DiffWith
<1>2. CASE allDiffs' = allDiffs /\ (loaded => IsEmptyDiff(diff))
  BY <1>2
<1>3. CASE allDiffs' = Append(allDiffs, diff) /\ loaded
  <2>1. allDiffs \in Seq(Diffs)
    BY DEF TypeInv, TypeOK
  <2>2. Len(allDiffs) \in Nat /\ DOMAIN allDiffs = 1..Len(allDiffs)
    BY <2>1
  <2>3. DOMAIN Append(allDiffs, diff) = 1..(Len(allDiffs) + 1)
    BY <2>1
  <2>4. /\ \A i \in 1..Len(allDiffs) : Append(allDiffs, diff)[i] = allDiffs[i]
        /\ Append(allDiffs, diff)[Len(allDiffs) + 1] = diff
    BY <2>1
  <2>5. DOMAIN allDiffs' = DOMAIN allDiffs \cup {Len(allDiffs) + 1}
    BY <1>3, <2>2, <2>3
  <2>6. \A i \in DOMAIN allDiffs : i \in DOMAIN allDiffs' /\ allDiffs'[i] = allDiffs[i]
    BY <1>3, <2>2, <2>4, <2>5
  <2>7. Len(allDiffs) + 1 \in DOMAIN allDiffs' /\ allDiffs'[Len(allDiffs) + 1] = diff
    BY <1>3, <2>4, <2>5
  <2>8. \A i \in DOMAIN allDiffs' \ DOMAIN allDiffs : i = Len(allDiffs) + 1
    BY <2>5
  <2> HIDE DEF diff
  <2>9. /\ \A i \in DOMAIN allDiffs' \ DOMAIN allDiffs : allDiffs'[i] = diff /\ loaded
        /\ \E i \in DOMAIN allDiffs' : allDiffs'[i] = diff
    BY <1>3, <2>7, <2>8
  <2> QED
    BY <2>6, <2>9 DEF diff
<1> QED
  BY <1>1, <1>2, <1>3

\* A badge goes to the lowest port not passed yet, which then is passed.
LEMMA BadgeStep ==
  ASSUME TypeInv, BadgesInv, pc = "banner", pc' = "port", NEW p \in rest, Badge(p),
         rest' = rest \ {p}, UNCHANGED <<live, idx, open, history, loaded, allDiffs>>
  PROVE  BadgesInv'
<1>1. rest \subseteq open
  BY DEF TypeInv, TypeOK
<1>2. open \ rest' = (open \ rest) \cup {p}
  BY <1>1
<1>3. badges' = IF loaded /\ p \notin history.ports THEN badges \cup {<<live[idx], p>>} ELSE badges
  BY DEF Badge
<1>4. ASSUME NEW d \in Names, NEW q \in Endpoints
      PROVE  <<d, q>> \in badges' <=>
               \/ OpenedOf(d, q)
               \/ loaded /\ d = live[idx] /\ q \in (open \ rest') \ history.ports
  <2>1. <<d, q>> \in badges <=>
          \/ OpenedOf(d, q)
          \/ loaded /\ d = live[idx] /\ q \in (open \ rest) \ history.ports
    BY DEF BadgesInv, AtAsset
  <2>2. <<d, q>> = <<live[idx], p>> <=> d = live[idx] /\ q = p
    OBVIOUS
  <2> QED
    BY <1>2, <1>3, <2>1, <2>2
<1> QED
  BY <1>4 DEF BadgesInv, AtAsset, OpenedOf

\* Every step keeps the badges in line with the differences.
LEMMA BadgesStep == TypeInv /\ BadgesInv /\ [Next]_vars => BadgesInv'
<1> SUFFICES ASSUME TypeInv, BadgesInv, [Next]_vars PROVE BadgesInv'
  OBVIOUS
<1> USE DEF conf, phase1, asset, output
<1>1. CASE StartScan
  <2>1. badges' = {} /\ DOMAIN allDiffs' = {} /\ pc' \in {"local", "discover"}
    BY <1>1 DEF StartScan, BeginScan
  <2> QED
    BY <2>1 DEF BadgesInv, OpenedOf, AtAsset
<1>2. CASE Phase1
  <2>1. pc \in Early /\ pc' \in Early /\ UNCHANGED <<allDiffs, badges>>
    BY <1>2 DEF Phase1, LocalAsset, Discover, DiscoverFails, Resolve, Enrich, ResolvePTR,
                EnrichName, EndPhase1, Early
  <2>2. ~AtAsset /\ ~AtAsset' /\ pc # "idle"
    BY <2>1 DEF AtAsset, Early
  <2>3. \A d, p : OpenedOf(d, p)' <=> OpenedOf(d, p)
    BY <2>1 DEF OpenedOf
  <2> QED
    BY <2>1, <2>2, <2>3 DEF BadgesInv
<1>3. CASE BeginPhase2 \/ ScanAsset \/ ScanReturns \/ EmitDiffs \/ AbandonPhase2
  <2>1. /\ pc \in {"phase2", "asset", "scan"} /\ UNCHANGED <<allDiffs, badges>>
        /\ pc' \in {"idle", "asset", "scan", "history", "phase3"}
    BY <1>3 DEF BeginPhase2, ScanAsset, ScanReturns, EmitDiffs, AbandonPhase2, Return
  <2> QED
    BY <2>1 DEF BadgesInv, OpenedOf, AtAsset
<1>4. CASE BeginPhase3 \/ HandleBucket \/ Finish
  <2>1. /\ pc \in {"phase3", "buckets"} /\ UNCHANGED <<allDiffs, badges>>
        /\ pc' \in {"idle", "buckets"}
    BY <1>4 DEF BeginPhase3, HandleBucket, Finish, Return
  <2> QED
    BY <2>1 DEF BadgesInv, OpenedOf, AtAsset
<1>5. CASE Crash
  BY <1>5 DEF Crash, BadgesInv
<1>6. CASE Cancel \/ UNCHANGED vars
  <2>1. UNCHANGED <<pc, live, idx, open, rest, history, loaded, allDiffs, badges>>
    BY <1>6 DEF Cancel, vars
  <2> QED
    BY <2>1 DEF BadgesInv, OpenedOf, AtAsset
<1>7. CASE LoadHistory
  <2>1. /\ pc = "history" /\ pc' = "port" /\ rest' = open
        /\ UNCHANGED <<live, idx, open, allDiffs, badges>>
    BY <1>7 DEF LoadHistory
  <2> QED
    BY <2>1 DEF BadgesInv, OpenedOf, AtAsset
<1>8. CASE HandlePort
  <2>1. /\ pc = "port" /\ pc' = "banner"
        /\ UNCHANGED <<live, idx, open, rest, history, loaded, allDiffs, badges>>
    BY <1>8 DEF HandlePort
  <2> QED
    BY <2>1 DEF BadgesInv, OpenedOf, AtAsset
<1>9. CASE NoService
  BY <1>9, BadgeStep DEF NoService
<1>10. CASE HandleService
  BY <1>10, BadgeStep DEF HandleService
<1>11. CASE FinishAsset
  <2> DEFINE a == live[idx]
             diff == DiffAsset(a, history, open, services)
  <2>1. pc = "port" /\ pc' = "asset" /\ badges' = badges /\ rest = {}
    BY <1>11 DEF FinishAsset
  <2>2. /\ \A i \in DOMAIN allDiffs : i \in DOMAIN allDiffs' /\ allDiffs'[i] = allDiffs[i]
        /\ \A i \in DOMAIN allDiffs' \ DOMAIN allDiffs : allDiffs'[i] = diff /\ loaded
        /\ loaded => IsEmptyDiff(diff) \/ \E i \in DOMAIN allDiffs' : allDiffs'[i] = diff
    BY <1>11, DiffAdded
  <2>3. diff.domain = a /\ diff.opened = open \ history.ports
    BY DEF DiffAsset
  <2>4. ASSUME NEW d \in Names, NEW p \in Endpoints
        PROVE  OpenedOf(d, p)' <=> \/ OpenedOf(d, p)
                                   \/ loaded /\ d = a /\ p \in open \ history.ports
    <3> HIDE DEF diff
    <3>1. OpenedOf(d, p) => OpenedOf(d, p)'
      BY <2>2 DEF OpenedOf
    <3>2. ASSUME loaded, d = a, p \in open \ history.ports PROVE OpenedOf(d, p)'
      <4>1. ~IsEmptyDiff(diff)
        BY <2>3, <3>2 DEF IsEmptyDiff
      <4> QED
        BY <2>2, <2>3, <3>2, <4>1 DEF OpenedOf
    <3>3. ASSUME OpenedOf(d, p)', ~OpenedOf(d, p)
          PROVE  loaded /\ d = a /\ p \in open \ history.ports
      <4>1. PICK i \in DOMAIN allDiffs' : allDiffs'[i].domain = d /\ p \in allDiffs'[i].opened
        BY <3>3 DEF OpenedOf
      <4>2. i \notin DOMAIN allDiffs
        BY <2>2, <3>3, <4>1 DEF OpenedOf
      <4> QED
        BY <2>2, <2>3, <4>1, <4>2
    <3> QED
      BY <3>1, <3>2, <3>3
  <2> QED
    BY <2>1, <2>4 DEF BadgesInv, AtAsset
<1> QED
  BY <1>1, <1>2, <1>3, <1>4, <1>5, <1>6, <1>7, <1>8, <1>9, <1>10, <1>11
     DEF Next, Phase2, Phase3, Stop

\* The badges and the report agree.
LEMMA BadgesAgree == TypeInv /\ EmitInv /\ BadgesInv => BadgesMatchReport
<1> SUFFICES ASSUME TypeInv, EmitInv, BadgesInv, AllAssetsDone
             PROVE  badges = { k \in Names \X Endpoints : OpenedEvent(k[1], k[2]) \in report }
  BY DEF BadgesMatchReport
<1>1. badges \subseteq Names \X Endpoints
  BY DEF TypeInv, TypeOK
<1>2. ASSUME NEW d \in Names, NEW p \in Endpoints
      PROVE  <<d, p>> \in badges <=> OpenedEvent(d, p) \in report
  <2>1. <<d, p>> \in badges <=> OpenedOf(d, p)
    BY DEF BadgesInv, AllAssetsDone, AtAsset
  <2> QED
    BY <2>1, OpenedReported DEF EmitInv
<1> QED
  BY <1>1, <1>2

\* The badges the page shows while ports arrive and the lines printed at the
\* end, computed at different times by different code (runner.go:509
\* and 542; runner.go:584), name the same ports.
THEOREM BadgesAreRight == Spec => []BadgesMatchReport
<1>1. Init => EmitInv /\ BadgesInv
  BY InitBadges
<1>2. TypeInv /\ PreScanInv /\ EmitInv /\ BadgesInv /\ [Next]_vars => (EmitInv /\ BadgesInv)'
  BY EmitStep, BadgesStep
<1>3. TypeInv /\ EmitInv /\ BadgesInv => BadgesMatchReport
  BY BadgesAgree
<1> QED
  BY <1>1, <1>2, <1>3, Foundations, PTL DEF Spec

----------------------------------------------------------------------------
(* Report and store.                                                       *)

\* A row of ports is older than this scan just when it was there before.
FirstInv ==
  /\ DOMAIN pre.ports \subseteq DOMAIN db.ports
  /\ \A k \in DOMAIN db.ports :
       IF k \in DOMAIN pre.ports THEN db.ports[k].first < scan ELSE db.ports[k].first = scan

\* A row of ports that was not there before is that of a port found open.
NewRowsInv ==
  pc # "idle" =>
    \A d \in Names, p \in Endpoints :
      <<d, p>> \in DOMAIN db.ports \ DOMAIN pre.ports =>
        \/ d \in DOMAIN observed /\ p \in observed[d].open
        \/ AtAsset /\ d = live[idx] /\ p \in open \ rest
        \/ pc = "banner" /\ d = live[idx] /\ Next_(p)

\* A service row says what it said before, or was found by this scan.
OldServicesInv ==
  pc # "idle" =>
    \A d \in Names, p \in Endpoints :
      <<d, p>> \in DOMAIN pre.services =>
        /\ <<d, p>> \in DOMAIN db.services
        /\ \/ db.services[<<d, p>>].svc = pre.services[<<d, p>>].svc
           \/ d \in DOMAIN observed /\ p \in DOMAIN observed[d].services
           \/ AtAsset /\ d = live[idx] /\ p \in DOMAIN services

\* The difference of the asset d, as the findings kept of it say.
PreDiff(d) == DiffAsset(d, LoadAssetHistory(pre, d), observed[d].open, observed[d].services)

\* With no failure, no difference that says anything is missing.
CompleteInv ==
  Quiet /\ pc # "idle" =>
    \A d \in DOMAIN observed :
      IsEmptyDiff(PreDiff(d)) \/ \E i \in DOMAIN allDiffs : allDiffs[i] = PreDiff(d)

RowsInv == FirstInv /\ NewRowsInv /\ OldServicesInv /\ CompleteInv

\* Reading the ports of an asset reads its rows.
LEMMA PortsRead ==
  ASSUME NEW s, StoreType(s), NEW d, NEW p
  PROVE  p \in LoadAssetHistory(s, d).ports <=> <<d, p>> \in DOMAIN s.ports
<1>1. \A k \in DOMAIN s.ports : k = <<k[1], k[2]>>
  BY DEF StoreType, IsTable
<1>2. LoadAssetHistory(s, d).ports = { k[2] : k \in { x \in DOMAIN s.ports : x[1] = d } }
  BY DEF LoadAssetHistory, FindPorts
<1>3. <<d, p>>[1] = d /\ <<d, p>>[2] = p
  OBVIOUS
<1>4. p \in LoadAssetHistory(s, d).ports
        <=> \E k \in DOMAIN s.ports : k[1] = d /\ k[2] = p
  BY <1>2
<1> QED
  BY <1>1, <1>3, <1>4

\* So does reading its services.
LEMMA ServicesRead ==
  ASSUME NEW s, StoreType(s), NEW d, NEW p
  PROVE  /\ p \in DOMAIN LoadAssetHistory(s, d).services <=> <<d, p>> \in DOMAIN s.services
         /\ <<d, p>> \in DOMAIN s.services =>
              LoadAssetHistory(s, d).services[p] = s.services[<<d, p>>].svc
<1> DEFINE Q == { k[2] : k \in { x \in DOMAIN s.services : x[1] = d } }
<1>1. \A k \in DOMAIN s.services : k = <<k[1], k[2]>>
  BY DEF StoreType, IsTable
<1>2. LoadAssetHistory(s, d).services = [q \in Q |-> s.services[<<d, q>>].svc]
  BY DEF LoadAssetHistory, FindServices
<1>3. <<d, p>>[1] = d /\ <<d, p>>[2] = p
  OBVIOUS
<1>4. p \in Q <=> \E k \in DOMAIN s.services : k[1] = d /\ k[2] = p
  OBVIOUS
<1>5. p \in Q <=> <<d, p>> \in DOMAIN s.services
  BY <1>1, <1>3, <1>4
<1> HIDE DEF Q
<1> QED
  BY <1>2, <1>5

\* Before the first scan there are no rows.
LEMMA InitRows == Init => RowsInv
<1> SUFFICES ASSUME Init PROVE RowsInv
  OBVIOUS
<1>1. DOMAIN db.ports = {} /\ DOMAIN pre.ports = {} /\ pc = "idle"
  BY DEF Init, EmptyStore
<1> QED
  BY <1>1 DEF RowsInv, FirstInv, NewRowsInv, OldServicesInv, CompleteInv

\* A step that writes no port and no service and finds nothing.
LEMMA RowsSame ==
  ASSUME RowsInv, [Next]_vars, ~StartScan, TypeInv, pc # "idle",
         db'.ports = db.ports, db'.services = db.services,
         UNCHANGED <<observed, allDiffs>>, ~AtAsset, ~AtAsset'
  PROVE  RowsInv'
<1>1. UNCHANGED <<pre, scan>> /\ (Quiet' => Quiet)
  BY QuietStep DEF conf
<1>2. FirstInv' /\ NewRowsInv' /\ OldServicesInv'
  BY <1>1 DEF RowsInv, FirstInv, NewRowsInv, OldServicesInv, AtAsset
<1>3. CompleteInv'
  BY <1>1 DEF RowsInv, CompleteInv, PreDiff
<1> QED
  BY <1>2, <1>3 DEF RowsInv

\* A scan that begins finds every row older than itself.
LEMMA RowsBegin == TypeInv /\ RowsInv /\ StartScan => RowsInv'
<1> SUFFICES ASSUME TypeInv, RowsInv, StartScan PROVE RowsInv'
  OBVIOUS
<1>1. /\ pre' = db /\ db' = db /\ scan' = scan + 1 /\ DOMAIN observed' = {}
  BY DEF StartScan, BeginScan, Nothing
<1>2. scan \in Nat /\ \A k \in DOMAIN db.ports : db.ports[k].first \in Nat
  BY StampTypes, RunnerAssumption DEF TypeInv, TypeOK, StoreType, IsTable, Scans
<1>3. \A k \in DOMAIN db.ports : db.ports[k].first <= scan
  BY <1>2 DEF RowsInv, FirstInv
<1>4. \A k \in DOMAIN db.ports : db.ports[k].first < scan + 1
  BY <1>2, <1>3
<1> QED
  BY <1>1, <1>4 DEF RowsInv, FirstInv, NewRowsInv, OldServicesInv, CompleteInv

\* Every step keeps report and store in line.
LEMMA RowsStep ==
  TypeInv /\ PreScanInv /\ FoundInv /\ RowsInv /\ [Next]_vars => RowsInv'
<1> SUFFICES ASSUME TypeInv, PreScanInv, FoundInv, RowsInv, [Next]_vars PROVE RowsInv'
  OBVIOUS
<1> USE DEF conf, phase1, asset, output
<1>n. rest \subseteq open /\ open \subseteq Endpoints /\ Endpoints \subseteq Nat
  BY RunnerAssumption DEF TypeInv, TypeOK
<1>s. ~StartScan => UNCHANGED <<pre, scan>> /\ (Quiet' => Quiet)
  BY QuietStep
<1>h. AtAsset => /\ idx \in DOMAIN live /\ live[idx] \in Names
                 /\ live[idx] \notin DOMAIN observed
  BY AtHand DEF PreScanInv, FoundInv
<1>1. CASE StartScan
  BY <1>1, RowsBegin
<1>2. CASE LocalAsset
  <2>1. target \in Names /\ StoreAsset(target)
    BY <1>2 DEF LocalAsset, TypeInv, TypeOK
  <2>2. db'.ports = db.ports /\ db'.services = db.services
    BY <2>1, StoreAssetOK
  <2> QED
    BY <1>2, <2>2, RowsSame DEF LocalAsset, AtAsset, StartScan, BeginScan
<1>3. CASE Resolve \/ ResolvePTR
  <2>1. PICK d \in todo : GoLive(d) \/ Skip
    BY <1>3 DEF Resolve, ResolvePTR, EnrichName
  <2>2. d \in Names /\ pc \in {"resolve", "enrich"} /\ pc' = pc /\ UNCHANGED <<observed, allDiffs>>
    BY <1>3 DEF Resolve, ResolvePTR, EnrichName, TypeInv, PlaceInv, Names
  <2>3. db'.ports = db.ports /\ db'.services = db.services
    BY <2>1, <2>2, StoreAssetOK DEF GoLive, Skip
  <2> QED
    BY <2>2, <2>3, RowsSame DEF AtAsset, StartScan, BeginScan
<1>4. CASE Discover \/ DiscoverFails \/ Enrich \/ EndPhase1 \/ BeginPhase2 \/ ScanAsset
  <2>1. /\ UNCHANGED <<db, observed, allDiffs>> /\ pc \notin {"idle", "port", "banner"}
        /\ pc' \notin {"port", "banner"}
    BY <1>4 DEF Discover, DiscoverFails, Enrich, EndPhase1, BeginPhase2, ScanAsset, Return
  <2> QED
    BY <2>1, RowsSame DEF AtAsset, StartScan, BeginScan
<1>5. CASE ScanReturns \/ EmitDiffs \/ AbandonPhase2 \/ BeginPhase3 \/ Finish
  <2>1. /\ UNCHANGED <<db, observed, allDiffs>> /\ pc \notin {"idle", "port", "banner"}
        /\ pc' \notin {"port", "banner"}
    BY <1>5 DEF ScanReturns, EmitDiffs, AbandonPhase2, BeginPhase3, Finish, Return
  <2> QED
    BY <2>1, RowsSame DEF AtAsset, StartScan, BeginScan
<1>6. CASE HandleBucket
  <2>1. PICK u \in todo, a \in BOOLEAN : StoreBucket(target, u, a)
    BY <1>6 DEF HandleBucket
  <2>2. /\ target \in Names /\ u \in Buckets /\ pc = "buckets" /\ pc' = pc
        /\ UNCHANGED <<observed, allDiffs>>
    BY <1>6 DEF HandleBucket, TypeInv, TypeOK, PlaceInv
  <2>3. db'.ports = db.ports /\ db'.services = db.services
    BY <2>1, <2>2, StoreBucketOK
  <2> QED
    BY <2>2, <2>3, RowsSame DEF AtAsset, StartScan, BeginScan
<1>7. CASE Crash
  <2>1. UNCHANGED <<db, pre, scan>> /\ pc' = "idle"
    BY <1>7 DEF Crash
  <2> QED
    BY <2>1 DEF RowsInv, FirstInv, NewRowsInv, OldServicesInv, CompleteInv
<1>8. CASE Cancel \/ UNCHANGED vars
  <2>1. UNCHANGED <<db, pre, scan, persist, faults, pc, live, idx, open, rest, services,
                    observed, allDiffs>>
    BY <1>8 DEF Cancel, vars
  <2> QED
    BY <2>1 DEF RowsInv, FirstInv, NewRowsInv, OldServicesInv, CompleteInv, PreDiff, AtAsset,
                Quiet, Next_
<1>9. CASE LoadHistory
  <2>1. /\ UNCHANGED <<db, live, idx, open, observed, allDiffs>> /\ pc = "history" /\ pc' = "port"
        /\ ~StartScan
    BY <1>9 DEF LoadHistory, StartScan, BeginScan
  <2>2. FirstInv' /\ NewRowsInv' /\ OldServicesInv'
    BY <1>s, <2>1 DEF RowsInv, FirstInv, NewRowsInv, OldServicesInv, AtAsset
  <2>3. CompleteInv'
    BY <1>s, <2>1 DEF RowsInv, CompleteInv, PreDiff
  <2> QED
    BY <2>2, <2>3 DEF RowsInv
<1>10. CASE HandlePort
  <2>1. PICK p \in rest : Next_(p) /\ StorePort(live[idx], p)
    BY <1>10 DEF HandlePort
  <2>2. /\ UNCHANGED <<live, idx, open, rest, services, observed, allDiffs>>
        /\ pc = "port" /\ pc' = "banner" /\ ~StartScan
    BY <1>10 DEF HandlePort, StartScan, BeginScan
  <2> DEFINE key == <<live[idx], p>>
  <2>3. /\ db'.services = db.services
        /\ DOMAIN db'.ports \subseteq DOMAIN db.ports \cup {key}
        /\ key \notin DOMAIN db.ports /\ key \in DOMAIN db'.ports => db'.ports[key].first = scan
    BY <1>n, <1>h, <2>1, <2>2, StorePortRest DEF AtAsset
  <2>4. /\ DOMAIN db.ports \subseteq DOMAIN db'.ports
        /\ \A k \in DOMAIN db.ports : db'.ports[k].first = db.ports[k].first
    BY WriteStep DEF KeepsAll, Keeps
  <2>5. FirstInv'
    BY <1>s, <2>2, <2>3, <2>4 DEF RowsInv, FirstInv
  <2>6. NewRowsInv'
    <3> SUFFICES ASSUME NEW d \in Names, NEW q \in Endpoints,
                        <<d, q>> \in DOMAIN db'.ports \ DOMAIN pre.ports
                 PROVE  \/ d \in DOMAIN observed /\ q \in observed[d].open
                        \/ d = live[idx] /\ q \in open \ rest
                        \/ d = live[idx] /\ Next_(q)
      BY <1>s, <2>2 DEF NewRowsInv, AtAsset, Next_
    <3>1. CASE <<d, q>> \in DOMAIN db.ports
      BY <2>2, <3>1 DEF RowsInv, NewRowsInv
    <3>2. CASE <<d, q>> = key
      BY <2>1, <3>2
    <3> QED
      BY <2>3, <3>1, <3>2
  <2>7. OldServicesInv'
    BY <1>s, <2>2, <2>3 DEF RowsInv, OldServicesInv, AtAsset
  <2>8. CompleteInv'
    BY <1>s, <2>2 DEF RowsInv, CompleteInv, PreDiff
  <2> QED
    BY <2>5, <2>6, <2>7, <2>8 DEF RowsInv
<1>11. CASE NoService
  <2>1. PICK p \in rest : Next_(p) /\ rest' = rest \ {p}
    BY <1>11 DEF NoService
  <2>2. /\ UNCHANGED <<db, live, idx, open, services, observed, allDiffs>>
        /\ pc = "banner" /\ pc' = "port" /\ ~StartScan
    BY <1>11 DEF NoService, StartScan, BeginScan
  <2>3. \A q : (q \in open \ rest \/ Next_(q)) => q \in open \ rest'
    <3>1. \A q : Next_(q) => q = p
      BY <1>n, <2>1 DEF Next_
    <3> QED
      BY <1>n, <2>1, <3>1
  <2>4. FirstInv' /\ OldServicesInv'
    BY <1>s, <2>2 DEF RowsInv, FirstInv, OldServicesInv, AtAsset
  <2>5. NewRowsInv'
    BY <1>s, <2>2, <2>3 DEF RowsInv, NewRowsInv, AtAsset
  <2>6. CompleteInv'
    BY <1>s, <2>2 DEF RowsInv, CompleteInv, PreDiff
  <2> QED
    BY <2>4, <2>5, <2>6 DEF RowsInv
<1>12. CASE HandleService
  <2>1. PICK p \in rest, svc \in Services :
          /\ Next_(p) /\ StoreService(live[idx], p, svc)
          /\ services' = Upsert(services, p, svc) /\ rest' = rest \ {p}
    BY <1>12 DEF HandleService
  <2>2. /\ UNCHANGED <<live, idx, open, observed, allDiffs>>
        /\ pc = "banner" /\ pc' = "port" /\ ~StartScan
    BY <1>12 DEF HandleService, StartScan, BeginScan
  <2> DEFINE key == <<live[idx], p>>
  <2>3. /\ db'.ports = db.ports
        /\ \A k \in DOMAIN db.services : k \in DOMAIN db'.services
        /\ \A k \in DOMAIN db.services : k # key => db'.services[k] = db.services[k]
    BY <1>n, <1>h, <2>1, <2>2, StoreServiceRest DEF AtAsset
  <2>4. \A q : (q \in open \ rest \/ Next_(q)) => q \in open \ rest'
    <3>1. \A q : Next_(q) => q = p
      BY <1>n, <2>1 DEF Next_
    <3> QED
      BY <1>n, <2>1, <3>1
  <2>5. FirstInv'
    BY <1>s, <2>2, <2>3 DEF RowsInv, FirstInv
  <2>6. NewRowsInv'
    BY <1>s, <2>2, <2>3, <2>4 DEF RowsInv, NewRowsInv, AtAsset
  <2>7. DOMAIN services' = DOMAIN services \cup {p}
    BY <2>1 DEF Upsert
  <2>8. OldServicesInv'
    <3> SUFFICES ASSUME NEW d \in Names, NEW q \in Endpoints,
                        <<d, q>> \in DOMAIN pre.services
                 PROVE  /\ <<d, q>> \in DOMAIN db'.services
                        /\ \/ db'.services[<<d, q>>].svc = pre.services[<<d, q>>].svc
                           \/ d \in DOMAIN observed /\ q \in DOMAIN observed[d].services
                           \/ d = live[idx] /\ q \in DOMAIN services'
      BY <1>s, <2>2 DEF OldServicesInv, AtAsset
    <3>1. /\ <<d, q>> \in DOMAIN db.services
          /\ \/ db.services[<<d, q>>].svc = pre.services[<<d, q>>].svc
             \/ d \in DOMAIN observed /\ q \in DOMAIN observed[d].services
             \/ d = live[idx] /\ q \in DOMAIN services
      BY <2>2 DEF RowsInv, OldServicesInv
    <3>2. CASE <<d, q>> = key
      BY <2>3, <2>7, <3>1, <3>2
    <3>3. CASE <<d, q>> # key
      BY <2>3, <2>7, <3>1, <3>3
    <3> QED
      BY <3>2, <3>3
  <2>9. CompleteInv'
    BY <1>s, <2>2 DEF RowsInv, CompleteInv, PreDiff
  <2> QED
    BY <2>5, <2>6, <2>8, <2>9 DEF RowsInv
<1>13. CASE FinishAsset
  <2> DEFINE a == live[idx]
             diff == DiffAsset(a, history, open, services)
  <2>1. /\ UNCHANGED <<db, live>> /\ pc = "port" /\ pc' = "asset" /\ rest = {}
        /\ observed' = Upsert(observed, a, [open |-> open, services |-> services])
        /\ ~StartScan
    BY <1>13 DEF FinishAsset, StartScan, BeginScan
  <2>2. a \notin DOMAIN observed
    BY <1>h, <2>1 DEF AtAsset
  <2>3. /\ DOMAIN observed' = DOMAIN observed \cup {a}
        /\ observed'[a].open = open /\ observed'[a].services = services
        /\ \A e \in DOMAIN observed : e # a /\ observed'[e] = observed[e]
    BY <2>1, <2>2 DEF Upsert
  <2>4. FirstInv' /\ NewRowsInv' /\ OldServicesInv'
    BY <1>s, <2>1, <2>3 DEF RowsInv, FirstInv, NewRowsInv, OldServicesInv, AtAsset
  <2>5. /\ \A i \in DOMAIN allDiffs : i \in DOMAIN allDiffs' /\ allDiffs'[i] = allDiffs[i]
        /\ loaded => IsEmptyDiff(diff) \/ \E i \in DOMAIN allDiffs' : allDiffs'[i] = diff
    BY <1>13, DiffAdded
  <2>6. ASSUME Quiet', NEW d \in DOMAIN observed'
        PROVE  IsEmptyDiff(PreDiff(d)') \/ \E i \in DOMAIN allDiffs' : allDiffs'[i] = PreDiff(d)'
    <3>1. CASE d = a
      <4>1. loaded /\ history = LoadAssetHistory(pre, a)
        BY <1>s, <2>1, <2>6 DEF FoundInv, StoredInv, PreScanInv, HistoryInv, AtAsset
      <4>2. PreDiff(d)' = diff
        BY <1>s, <2>1, <2>3, <3>1, <4>1 DEF PreDiff
      <4> QED
        BY <2>5, <3>1, <4>1, <4>2
    <3>2. CASE d # a
      <4>1. d \in DOMAIN observed /\ PreDiff(d)' = PreDiff(d)
        BY <1>s, <2>1, <2>3, <2>6, <3>2 DEF PreDiff
      <4>2. IsEmptyDiff(PreDiff(d)) \/ \E i \in DOMAIN allDiffs : allDiffs[i] = PreDiff(d)
        BY <1>s, <2>1, <2>6, <4>1 DEF RowsInv, CompleteInv
      <4> QED
        BY <2>5, <4>1, <4>2
    <3> QED
      BY <3>1, <3>2
  <2>7. CompleteInv'
    BY <2>6 DEF CompleteInv
  <2> QED
    BY <2>4, <2>7 DEF RowsInv
<1> QED
  BY <1>1, <1>2, <1>3, <1>4, <1>5, <1>6, <1>7, <1>8, <1>9, <1>10, <1>11, <1>12, <1>13
     DEF Next, Phase1, Phase2, Phase3, Stop

\* All that is known of a state of Runner.
AllInv == TypeInv /\ PreScanInv /\ FoundInv /\ EmitInv /\ RowsInv

\* It holds in every reachable state.
LEMMA AllInvariant == Spec => []AllInv
<1>1. Init => EmitInv /\ RowsInv
  BY InitBadges, InitRows
<1>2. TypeInv /\ PreScanInv /\ FoundInv /\ EmitInv /\ RowsInv /\ [Next]_vars
        => (EmitInv /\ RowsInv)'
  BY EmitStep, RowsStep
<1> QED
  BY <1>1, <1>2, Foundations, PTL DEF Spec, AllInv

\* Each difference found is that of an asset whose findings are kept.
LEMMA DiffKept ==
  ASSUME AllInv, NEW i \in DOMAIN allDiffs
  PROVE  /\ allDiffs[i].domain \in DOMAIN observed
         /\ allDiffs[i] = PreDiff(allDiffs[i].domain)
  BY DEF AllInv, PreScanInv, DiffsInv, PreDiff

\* The ports reported as opened and the new rows are the same.
LEMMA OpenedAgree == AllInv => OpenedIffFirstSeen
<1> SUFFICES ASSUME AllInv, AllAssetsDone, Quiet, NEW d \in Names, NEW p \in Endpoints
             PROVE  OpenedEvent(d, p) \in report <=>
                      <<d, p>> \in DOMAIN db.ports /\ db.ports[<<d, p>>].first = scan
  BY DEF OpenedIffFirstSeen
<1>n. StoreType(pre) /\ scan \in Nat /\ pc # "idle" /\ ~AtAsset
  BY RunnerAssumption DEF AllInv, TypeInv, TypeOK, Scans, AllAssetsDone, AtAsset
<1>1. OpenedEvent(d, p) \in report <=> OpenedOf(d, p)
  BY OpenedReported DEF AllInv, EmitInv
<1>2. PreDiff(d).opened = observed[d].open \ LoadAssetHistory(pre, d).ports
  BY DEF PreDiff, DiffAsset
<1>3. ASSUME OpenedOf(d, p)
      PROVE  <<d, p>> \in DOMAIN db.ports /\ db.ports[<<d, p>>].first = scan
  <2>1. PICK i \in DOMAIN allDiffs : allDiffs[i].domain = d /\ p \in allDiffs[i].opened
    BY <1>3 DEF OpenedOf
  <2>2. d \in DOMAIN observed /\ allDiffs[i] = PreDiff(d)
    BY <2>1, DiffKept
  <2>3. p \in observed[d].open /\ p \notin LoadAssetHistory(pre, d).ports
    BY <1>2, <2>1, <2>2
  <2>4. <<d, p>> \notin DOMAIN pre.ports
    BY <1>n, <2>3, PortsRead
  <2>5. <<d, p>> \in DOMAIN db.ports
    BY <2>2, <2>3 DEF AllInv, FoundInv, StoredInv, FoundIn, Current
  <2> QED
    BY <2>4, <2>5 DEF AllInv, RowsInv, FirstInv
<1>4. ASSUME <<d, p>> \in DOMAIN db.ports, db.ports[<<d, p>>].first = scan
      PROVE  OpenedOf(d, p)
  <2>1. <<d, p>> \notin DOMAIN pre.ports
    BY <1>n, <1>4 DEF AllInv, RowsInv, FirstInv
  <2>2. d \in DOMAIN observed /\ p \in observed[d].open
    BY <1>n, <1>4, <2>1 DEF AllInv, RowsInv, NewRowsInv, AtAsset
  <2>3. p \in PreDiff(d).opened
    BY <1>n, <1>2, <2>1, <2>2, PortsRead
  <2>4. PICK i \in DOMAIN allDiffs : allDiffs[i] = PreDiff(d)
    BY <1>n, <2>2, <2>3 DEF AllInv, RowsInv, CompleteInv, IsEmptyDiff
  <2>5. allDiffs[i].domain = d
    BY <2>4 DEF PreDiff, DiffAsset
  <2> QED
    BY <2>3, <2>4, <2>5 DEF OpenedOf
<1> QED
  BY <1>1, <1>3, <1>4

\* The version changes reported and those stored are the same.
LEMMA VersionsAgree == AllInv => VersionReportsMatchStore
<1> SUFFICES ASSUME AllInv, AllAssetsDone, Quiet, NEW k \in DOMAIN pre.services
             PROVE  LET old == pre.services[k].svc
                        new == db.services[k].svc
                    IN  (\E c \in {ServiceChangeOf(k[2], old, new)} :
                            VersionEvent(k[1], c) \in report)
                          <=> /\ old.version # new.version
                              /\ NoVersion \notin {old.version, new.version}
  BY DEF VersionReportsMatchStore
<1> DEFINE d == k[1]
           p == k[2]
           old == pre.services[k].svc
           new == db.services[k].svc
           c == ServiceChangeOf(p, old, new)
           h == LoadAssetHistory(pre, d).services
           found == observed[d].services
<1>n. StoreType(pre) /\ pc # "idle" /\ ~AtAsset
  BY DEF AllInv, TypeInv, TypeOK, AllAssetsDone, AtAsset
<1>k. k = <<d, p>> /\ d \in Names /\ p \in Endpoints
  BY <1>n DEF StoreType, IsTable
<1>h. p \in DOMAIN h /\ h[p] = old
  BY <1>n, <1>k, ServicesRead
<1>1. VersionEvent(d, c) \in report
        <=> \E i \in DOMAIN allDiffs : allDiffs[i].domain = d /\ c \in allDiffs[i].changes
  BY ChangeReported DEF AllInv, EmitInv
<1>2. PreDiff(d).changes =
        { ServiceChangeOf(q, h[q], found[q]) :
            q \in VersionChanged(LoadAssetHistory(pre, d), found) }
  BY DEF PreDiff, DiffAsset
<1>3. ASSUME VersionEvent(d, c) \in report
      PROVE  old.version # new.version /\ NoVersion \notin {old.version, new.version}
  <2>1. PICK i \in DOMAIN allDiffs : allDiffs[i].domain = d /\ c \in allDiffs[i].changes
    BY <1>1, <1>3
  <2>2. allDiffs[i] = PreDiff(d)
    BY <2>1, DiffKept
  <2>3. PICK q \in VersionChanged(LoadAssetHistory(pre, d), found) :
          c = ServiceChangeOf(q, h[q], found[q])
    BY <1>2, <2>1, <2>2
  <2>4. h[q].version = old.version /\ found[q].version = new.version
    BY <2>3 DEF ServiceChangeOf
  <2> QED
    BY <2>3, <2>4 DEF VersionChanged
<1>4. ASSUME old.version # new.version, NoVersion \notin {old.version, new.version}
      PROVE  VersionEvent(d, c) \in report
  <2>1. d \in DOMAIN observed /\ p \in DOMAIN found
    <3>1. \/ new = old
          \/ d \in DOMAIN observed /\ p \in DOMAIN found
      BY <1>n, <1>k DEF AllInv, RowsInv, OldServicesInv
    <3> QED
      BY <1>4, <3>1
  <2>2. found[p] = new
    BY <1>k, <2>1 DEF AllInv, FoundInv, StoredInv, FoundIn
  <2>3. p \in VersionChanged(LoadAssetHistory(pre, d), found)
    BY <1>4, <1>h, <2>1, <2>2 DEF VersionChanged
  <2>4. c \in PreDiff(d).changes
    BY <1>2, <1>h, <2>2, <2>3
  <2>5. PICK i \in DOMAIN allDiffs : allDiffs[i] = PreDiff(d)
    BY <1>n, <2>1, <2>4 DEF AllInv, RowsInv, CompleteInv, IsEmptyDiff
  <2>6. allDiffs[i].domain = d
    BY <2>5 DEF PreDiff, DiffAsset
  <2> QED
    BY <1>1, <2>4, <2>5, <2>6
<1> QED
  BY <1>3, <1>4

\* When no store call failed, the report says PORT OPENED for exactly the
\* ports this scan saved for the first time (the
\* history of runner.go:460 against the upsert of postgres_store.go:174), however many scans there were before.
THEOREM OpenedMeansFirstSeen == Spec => []OpenedIffFirstSeen
  BY AllInvariant, OpenedAgree, PTL

\* When no store call failed, the report names exactly the services whose
\* stored version this scan replaced by another one.
THEOREM VersionChangesAreStored == Spec => []VersionReportsMatchStore
  BY AllInvariant, VersionsAgree, PTL

=============================================================================
