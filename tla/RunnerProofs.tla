---------------------------- MODULE RunnerProofs ----------------------------
(***************************************************************************)
(* Properties of Runner proved for every set of names, endpoints, services *)
(* and buckets, every number of scans and of failing store calls.          *)
(***************************************************************************)
EXTENDS Runner, TLAPS

\* Phase 2 has not begun to write.
Early == {"local", "discover", "resolve", "enrich", "phase2"}

\* Phase 2 is before or at an asset; the list at hand is one of names or of
\* buckets.
PlaceInv ==
  /\ pc \in Early => idx = 1
  /\ pc \in {"scan", "history", "port", "banner"} => idx \in DOMAIN live
  /\ pc \notin {"idle", "port", "banner"} => rest = {}
  /\ pc \in {"resolve", "enrich"} => todo \subseteq Domains
  /\ pc = "buckets" => todo \subseteq Buckets

\* The store's ports and services of d are what they were before the scan.
Untouched(d) == LoadAssetHistory(db, d) = LoadAssetHistory(pre, d)

\* Until Phase 2 no port or service is written and no difference is found.
EarlyInv ==
  pc \in Early => /\ allDiffs = <<>>
                  /\ db.ports = pre.ports /\ db.services = pre.services

\* No name is live twice.
LiveInv ==
  /\ pc \in {"local", "discover"} => live = <<>>
  /\ pc = "resolve" => \A i \in DOMAIN live : live[i] \notin todo
  /\ \A i, j \in DOMAIN live : live[i] = live[j] => i = j

\* The assets Phase 2 has not come to are untouched, and the history of the
\* one it is at was read when that was so.
HistoryInv ==
  /\ \A i \in DOMAIN live :
       i > idx \/ (i = idx /\ pc \notin {"idle", "port", "banner"}) => Untouched(live[i])
  /\ pc \in {"port", "banner"} /\ loaded => history = LoadAssetHistory(pre, live[idx])

\* Every difference found is right, and of an asset Phase 2 is done with.
DiffsInv ==
  \A i \in DOMAIN allDiffs :
    LET d == allDiffs[i].domain
    IN  /\ \E k \in DOMAIN live : k < idx /\ live[k] = d
        /\ d \in DOMAIN observed
        /\ allDiffs[i] = DiffAsset(d, LoadAssetHistory(pre, d), observed[d].open,
                                   observed[d].services)

PreScanInv == EarlyInv /\ LiveInv /\ HistoryInv /\ DiffsInv

\* No row was seen later than now.
SeenBy(t, now) == \A k \in DOMAIN t : t[k].last <= now

Aged(s, now) == /\ SeenBy(s.assets, now) /\ SeenBy(s.ports, now)
                /\ SeenBy(s.services, now) /\ SeenBy(s.buckets, now)

ClockInv == Aged(db, scan)

\* The store t keeps what the store s says.
KeepsAll(s, t) == /\ Keeps(s.assets, t.assets) /\ Keeps(s.ports, t.ports)
                  /\ Keeps(s.services, t.services) /\ Keeps(s.buckets, t.buckets)
                  /\ OwnersKept(s.buckets, t.buckets)

TypeInv == TypeOK /\ PlaceInv /\ ClockInv

----------------------------------------------------------------------------
(* The store.                                                              *)

\* Upsert keeps a table a table.
LEMMA UpsertTable ==
  ASSUME NEW t, NEW K, NEW R, IsTable(t, K, R), NEW k \in K, NEW row \in R
  PROVE  /\ IsTable(Upsert(t, k, row), K, R)
         /\ DOMAIN Upsert(t, k, row) = DOMAIN t \cup {k}
         /\ Upsert(t, k, row)[k] = row
         /\ \A x \in DOMAIN t : x # k => Upsert(t, k, row)[x] = t[x]
  BY DEF IsTable, Upsert

\* first_seen is a time of the clock.
LEMMA FirstSeenTime ==
  ASSUME NEW t, NEW K, NEW R, IsTable(t, K, R), NEW k, NEW now \in Scans,
         \A r \in R : r.first \in Scans
  PROVE  FirstSeen(t, k, now) \in Scans
  BY DEF IsTable, FirstSeen

\* Each write keeps the store well-formed and changes one table.
LEMMA SaveAssetType ==
  ASSUME NEW s, StoreType(s), NEW d \in Names, NEW now \in Scans
  PROVE  /\ StoreType(SaveAsset(s, d, now))
         /\ SaveAsset(s, d, now).ports = s.ports
         /\ SaveAsset(s, d, now).services = s.services
         /\ SaveAsset(s, d, now).buckets = s.buckets
<1> DEFINE row == [first |-> FirstSeen(s.assets, d, now), last |-> now]
<1>1. IsTable(s.assets, Names, Stamp(Scans)) /\ \A r \in Stamp(Scans) : r.first \in Scans
  BY DEF StoreType, Stamp
<1>2. row \in Stamp(Scans)
  BY <1>1, FirstSeenTime DEF Stamp
<1>3. IsTable(Upsert(s.assets, d, row), Names, Stamp(Scans))
  BY <1>1, <1>2, UpsertTable
<1>4. SaveAsset(s, d, now) = [assets |-> Upsert(s.assets, d, row), ports |-> s.ports,
                             services |-> s.services, buckets |-> s.buckets]
  BY DEF SaveAsset, StoreType
<1> QED
  BY <1>3, <1>4 DEF StoreType

\* So does SavePort, of ports.
LEMMA SavePortType ==
  ASSUME NEW s, StoreType(s), NEW d \in Names, NEW p \in Endpoints, NEW now \in Scans
  PROVE  /\ StoreType(SavePort(s, d, p, now))
         /\ SavePort(s, d, p, now).assets = s.assets
         /\ SavePort(s, d, p, now).services = s.services
         /\ SavePort(s, d, p, now).buckets = s.buckets
<1> DEFINE row == [first |-> FirstSeen(s.ports, <<d, p>>, now), last |-> now]
<1>1. /\ IsTable(s.ports, Names \X Endpoints, Stamp(Scans))
      /\ \A r \in Stamp(Scans) : r.first \in Scans
  BY DEF StoreType, Stamp
<1>2. row \in Stamp(Scans)
  BY <1>1, FirstSeenTime DEF Stamp
<1>3. IsTable(Upsert(s.ports, <<d, p>>, row), Names \X Endpoints, Stamp(Scans))
  BY <1>1, <1>2, UpsertTable
<1>4. SavePort(s, d, p, now) =
        [assets |-> s.assets, ports |-> Upsert(s.ports, <<d, p>>, row),
         services |-> s.services, buckets |-> s.buckets]
  BY DEF SavePort, StoreType
<1> QED
  BY <1>3, <1>4 DEF StoreType

\* So does SaveService, of services.
LEMMA SaveServiceType ==
  ASSUME NEW s, StoreType(s), NEW d \in Names, NEW p \in Endpoints,
         NEW svc \in Services, NEW now \in Scans
  PROVE  /\ StoreType(SaveService(s, d, p, svc, now))
         /\ SaveService(s, d, p, svc, now).assets = s.assets
         /\ SaveService(s, d, p, svc, now).ports = s.ports
         /\ SaveService(s, d, p, svc, now).buckets = s.buckets
<1> DEFINE row == [svc |-> svc, first |-> FirstSeen(s.services, <<d, p>>, now), last |-> now]
           R == ServiceRows(Services, Scans)
<1>1. IsTable(s.services, Names \X Endpoints, R) /\ \A r \in R : r.first \in Scans
  BY DEF StoreType, ServiceRows
<1>2. row \in R
  <2>1. FirstSeen(s.services, <<d, p>>, now) \in Scans
    BY <1>1, FirstSeenTime
  <2> QED
    BY <2>1 DEF ServiceRows
<1>3. IsTable(Upsert(s.services, <<d, p>>, row), Names \X Endpoints, R)
  BY <1>1, <1>2, UpsertTable
<1>4. SaveService(s, d, p, svc, now) =
        [assets |-> s.assets, ports |-> s.ports,
         services |-> Upsert(s.services, <<d, p>>, row), buckets |-> s.buckets]
  BY DEF SaveService, StoreType
<1> QED
  BY <1>3, <1>4 DEF StoreType

\* So does SaveBucket, of buckets.
LEMMA SaveBucketType ==
  ASSUME NEW s, StoreType(s), NEW d \in Names, NEW u \in Buckets,
         NEW a \in BOOLEAN, NEW now \in Scans
  PROVE  /\ StoreType(SaveBucket(s, d, u, a, now))
         /\ SaveBucket(s, d, u, a, now).assets = s.assets
         /\ SaveBucket(s, d, u, a, now).ports = s.ports
         /\ SaveBucket(s, d, u, a, now).services = s.services
<1> DEFINE t == s.buckets
           row == [owner |-> IF u \in DOMAIN t THEN t[u].owner ELSE d,
                   accessible |-> a, first |-> FirstSeen(t, u, now), last |-> now]
           R == BucketRows(Names, Scans)
<1>1. IsTable(t, Buckets, R) /\ \A r \in R : r.first \in Scans /\ r.owner \in Names
  BY DEF StoreType, BucketRows
<1>2. row \in R
  <2>1. FirstSeen(t, u, now) \in Scans
    BY <1>1, FirstSeenTime
  <2>2. (IF u \in DOMAIN t THEN t[u].owner ELSE d) \in Names
    BY <1>1 DEF IsTable
  <2> QED
    BY <2>1, <2>2 DEF BucketRows
<1>3. IsTable(Upsert(t, u, row), Buckets, R)
  BY <1>1, <1>2, UpsertTable
<1>4. SaveBucket(s, d, u, a, now) =
        [assets |-> s.assets, ports |-> s.ports, services |-> s.services,
         buckets |-> Upsert(t, u, row)]
  BY DEF SaveBucket, StoreType
<1> QED
  BY <1>3, <1>4 DEF StoreType

\* An upsert with the old first_seen and the time now keeps every row.
LEMMA UpsertKeeps ==
  ASSUME NEW t, NEW K, NEW R, IsTable(t, K, R),
         \A r \in R : r.first \in Scans /\ r.last \in Scans,
         NEW now \in Scans, SeenBy(t, now), NEW k, NEW row,
         row.first = FirstSeen(t, k, now), row.last = now
  PROVE  Keeps(t, Upsert(t, k, row)) /\ SeenBy(Upsert(t, k, row), now)
  BY RunnerAssumption DEF IsTable, Upsert, Keeps, SeenBy, FirstSeen, Scans

\* A table left alone keeps every row.
LEMMA SameKeeps ==
  ASSUME NEW t, NEW K, NEW R, IsTable(t, K, R),
         \A r \in R : r.first \in Scans /\ r.last \in Scans
  PROVE  Keeps(t, t)
  BY RunnerAssumption DEF IsTable, Keeps, Scans

\* Both timestamps of every row are times of the clock.
LEMMA StampTypes ==
  /\ \A r \in Stamp(Scans) : r.first \in Scans /\ r.last \in Scans
  /\ \A r \in ServiceRows(Services, Scans) : r.first \in Scans /\ r.last \in Scans
  /\ \A r \in BucketRows(Names, Scans) : r.first \in Scans /\ r.last \in Scans
  BY DEF Stamp, ServiceRows, BucketRows

\* A store left alone keeps every row.
LEMMA UnchangedKeeps ==
  ASSUME NEW s, StoreType(s)
  PROVE  KeepsAll(s, s)
  BY SameKeeps, StampTypes DEF StoreType, KeepsAll, OwnersKept

\* SaveAsset keeps every row.
LEMMA SaveAssetKeeps ==
  ASSUME NEW s, StoreType(s), NEW d \in Names, NEW now \in Scans, Aged(s, now)
  PROVE  KeepsAll(s, SaveAsset(s, d, now)) /\ Aged(SaveAsset(s, d, now), now)
<1> DEFINE row == [first |-> FirstSeen(s.assets, d, now), last |-> now]
<1>1. /\ Keeps(s.assets, Upsert(s.assets, d, row))
      /\ SeenBy(Upsert(s.assets, d, row), now)
  BY UpsertKeeps, StampTypes DEF StoreType, Aged
<1>2. SaveAsset(s, d, now).assets = Upsert(s.assets, d, row)
  BY DEF SaveAsset, StoreType
<1> QED
  BY <1>1, <1>2, SaveAssetType, UnchangedKeeps DEF KeepsAll, Aged

\* SavePort keeps every row.
LEMMA SavePortKeeps ==
  ASSUME NEW s, StoreType(s), NEW d \in Names, NEW p \in Endpoints, NEW now \in Scans,
         Aged(s, now)
  PROVE  KeepsAll(s, SavePort(s, d, p, now)) /\ Aged(SavePort(s, d, p, now), now)
<1> DEFINE row == [first |-> FirstSeen(s.ports, <<d, p>>, now), last |-> now]
<1>1. /\ Keeps(s.ports, Upsert(s.ports, <<d, p>>, row))
      /\ SeenBy(Upsert(s.ports, <<d, p>>, row), now)
  BY UpsertKeeps, StampTypes DEF StoreType, Aged
<1>2. SavePort(s, d, p, now).ports = Upsert(s.ports, <<d, p>>, row)
  BY DEF SavePort, StoreType
<1> QED
  BY <1>1, <1>2, SavePortType, UnchangedKeeps DEF KeepsAll, Aged

\* SaveService keeps every row.
LEMMA SaveServiceKeeps ==
  ASSUME NEW s, StoreType(s), NEW d \in Names, NEW p \in Endpoints,
         NEW svc \in Services, NEW now \in Scans, Aged(s, now)
  PROVE  /\ KeepsAll(s, SaveService(s, d, p, svc, now))
         /\ Aged(SaveService(s, d, p, svc, now), now)
<1> DEFINE row == [svc |-> svc, first |-> FirstSeen(s.services, <<d, p>>, now), last |-> now]
<1>1. /\ Keeps(s.services, Upsert(s.services, <<d, p>>, row))
      /\ SeenBy(Upsert(s.services, <<d, p>>, row), now)
  BY UpsertKeeps, StampTypes DEF StoreType, Aged
<1>2. SaveService(s, d, p, svc, now).services = Upsert(s.services, <<d, p>>, row)
  BY DEF SaveService, StoreType
<1> QED
  BY <1>1, <1>2, SaveServiceType, UnchangedKeeps DEF KeepsAll, Aged

\* SaveBucket keeps every row, and the owner of each.
LEMMA SaveBucketKeeps ==
  ASSUME NEW s, StoreType(s), NEW d \in Names, NEW u \in Buckets,
         NEW a \in BOOLEAN, NEW now \in Scans, Aged(s, now)
  PROVE  KeepsAll(s, SaveBucket(s, d, u, a, now)) /\ Aged(SaveBucket(s, d, u, a, now), now)
<1> DEFINE t == s.buckets
           row == [owner |-> IF u \in DOMAIN t THEN t[u].owner ELSE d,
                   accessible |-> a, first |-> FirstSeen(t, u, now), last |-> now]
<1>1. Keeps(t, Upsert(t, u, row)) /\ SeenBy(Upsert(t, u, row), now)
  BY UpsertKeeps, StampTypes DEF StoreType, Aged
<1>2. SaveBucket(s, d, u, a, now).buckets = Upsert(t, u, row)
  BY DEF SaveBucket, StoreType
<1>3. OwnersKept(t, Upsert(t, u, row))
  BY DEF OwnersKept, Upsert
<1> QED
  BY <1>1, <1>2, <1>3, SaveBucketType, UnchangedKeeps DEF KeepsAll, Aged

\* What is read of an asset has the type of what a scan finds.
LEMMA HistoryType ==
  ASSUME NEW s, StoreType(s), NEW d
  PROVE  FoundType(LoadAssetHistory(s, d).ports, LoadAssetHistory(s, d).services)
<1>1. FindPorts(s, d) \subseteq Endpoints
  BY DEF StoreType, IsTable, FindPorts
<1> DEFINE P == { k[2] : k \in { x \in DOMAIN s.services : x[1] = d } }
<1>2. \A p \in P : /\ p \in Endpoints
                   /\ s.services[<<d, p>>].svc \in Services
  <2> SUFFICES ASSUME NEW k \in DOMAIN s.services, k[1] = d
               PROVE  k[2] \in Endpoints /\ s.services[<<d, k[2]>>].svc \in Services
    OBVIOUS
  <2>1. k \in Names \X Endpoints /\ s.services[k] \in ServiceRows(Services, Scans)
    BY DEF StoreType, IsTable
  <2>2. k = <<d, k[2]>>
    BY <2>1
  <2> QED
    BY <2>1, <2>2 DEF ServiceRows
<1>3. FindServices(s, d) = [p \in P |-> s.services[<<d, p>>].svc]
  BY DEF FindServices
<1>4. IsTable(FindServices(s, d), Endpoints, Services)
  BY <1>2, <1>3 DEF IsTable
<1> QED
  BY <1>1, <1>4 DEF FoundType, LoadAssetHistory

\* A write for one asset does not change what is read of another.
LEMMA OtherHistory ==
  ASSUME NEW s, StoreType(s), NEW d \in Names, NEW e \in Names, d # e,
         NEW p \in Endpoints, NEW svc, NEW now
  PROVE  /\ LoadAssetHistory(SavePort(s, d, p, now), e) = LoadAssetHistory(s, e)
         /\ LoadAssetHistory(SaveService(s, d, p, svc, now), e) = LoadAssetHistory(s, e)
<1>1. FindPorts(SavePort(s, d, p, now), e) = FindPorts(s, e)
  <2>1. /\ DOMAIN SavePort(s, d, p, now).ports = DOMAIN s.ports \cup {<<d, p>>}
        /\ SavePort(s, d, p, now).services = s.services
    BY DEF SavePort, StoreType, Upsert
  <2> QED
    BY <2>1 DEF FindPorts
<1>2. FindServices(SavePort(s, d, p, now), e) = FindServices(s, e)
  BY DEF SavePort, StoreType, FindServices
<1>3. FindPorts(SaveService(s, d, p, svc, now), e) = FindPorts(s, e)
  BY DEF SaveService, StoreType, FindPorts
<1>4. FindServices(SaveService(s, d, p, svc, now), e) = FindServices(s, e)
  <2> DEFINE t == s.services
             u == SaveService(s, d, p, svc, now).services
  <2>1. /\ DOMAIN u = DOMAIN t \cup {<<d, p>>}
        /\ \A k \in DOMAIN t : k # <<d, p>> => u[k] = t[k]
    BY DEF SaveService, StoreType, Upsert
  <2> DEFINE Q == { k[2] : k \in { x \in DOMAIN t : x[1] = e } }
  <2>2. { k[2] : k \in { x \in DOMAIN u : x[1] = e } } = Q
    BY <2>1
  <2>3. \A q \in Q : <<e, q>> \in DOMAIN t /\ u[<<e, q>>] = t[<<e, q>>]
    <3> SUFFICES ASSUME NEW k \in DOMAIN t, k[1] = e
                 PROVE  <<e, k[2]>> \in DOMAIN t /\ u[<<e, k[2]>>] = t[<<e, k[2]>>]
      OBVIOUS
    <3>1. k \in Names \X Endpoints
      BY DEF StoreType, IsTable
    <3>2. k = <<e, k[2]>> /\ k # <<d, p>>
      BY <3>1
    <3> QED
      BY <2>1, <3>2
  <2> QED
    BY <2>2, <2>3 DEF FindServices
<1> QED
  BY <1>1, <1>2, <1>3, <1>4 DEF LoadAssetHistory

----------------------------------------------------------------------------
(* Types.                                                                  *)

\* A step that may write leaves a store that keeps what it held.
WriteOK == /\ StoreType(db') /\ KeepsAll(db, db') /\ Aged(db', scan)
           /\ faults' \in 0..MaxFaults

\* A step that does not write is such a step.
LEMMA NoWrite ==
  ASSUME TypeInv, UNCHANGED db, faults' \in 0..MaxFaults
  PROVE  WriteOK
  BY UnchangedKeeps DEF TypeInv, TypeOK, ClockInv, WriteOK

\* Failures are counted up to their bound.
LEMMA FaultCounted ==
  ASSUME TypeInv, Fault
  PROVE  faults' \in 0..MaxFaults
  BY RunnerAssumption DEF TypeInv, TypeOK, Fault

\* Saving an asset, done or refused, changes no port and no service.
LEMMA StoreAssetOK ==
  ASSUME TypeInv, NEW d \in Names, StoreAsset(d)
  PROVE  WriteOK /\ db'.ports = db.ports /\ db'.services = db.services
<1>1. CASE UNCHANGED db
  BY <1>1, NoWrite, FaultCounted DEF StoreAsset, TypeInv, TypeOK
<1>2. CASE db' = SaveAsset(db, d, scan) /\ UNCHANGED faults
  BY <1>2, SaveAssetType, SaveAssetKeeps DEF TypeInv, TypeOK, ClockInv, WriteOK
<1> QED
  BY <1>1, <1>2 DEF StoreAsset

\* Saving a port of d, done or refused, changes no other asset's history.
LEMMA StorePortOK ==
  ASSUME TypeInv, NEW d \in Names, NEW p \in Endpoints, StorePort(d, p)
  PROVE  /\ WriteOK
         /\ \A e \in Names : e # d => LoadAssetHistory(db', e) = LoadAssetHistory(db, e)
<1>1. CASE UNCHANGED db
  BY <1>1, NoWrite, FaultCounted DEF StorePort, TypeInv, TypeOK
<1>2. CASE db' = SavePort(db, d, p, scan) /\ UNCHANGED faults
  <2>1. StoreType(db) /\ scan \in Scans /\ Aged(db, scan) /\ faults \in 0..MaxFaults
    BY DEF TypeInv, TypeOK, ClockInv
  <2>2. WriteOK
    BY <1>2, <2>1, SavePortType, SavePortKeeps DEF WriteOK
  <2>3. \A e \in Names : e # d => LoadAssetHistory(db', e) = LoadAssetHistory(db, e)
    BY <1>2, <2>1, OtherHistory
  <2> QED
    BY <2>2, <2>3
<1> QED
  BY <1>1, <1>2 DEF StorePort

\* Saving a service of d, done or refused, changes no other asset's history.
LEMMA StoreServiceOK ==
  ASSUME TypeInv, NEW d \in Names, NEW p \in Endpoints, NEW svc \in Services,
         StoreService(d, p, svc)
  PROVE  /\ WriteOK
         /\ \A e \in Names : e # d => LoadAssetHistory(db', e) = LoadAssetHistory(db, e)
<1>1. CASE UNCHANGED db
  BY <1>1, NoWrite, FaultCounted DEF StoreService, TypeInv, TypeOK
<1>2. CASE db' = SaveService(db, d, p, svc, scan) /\ UNCHANGED faults
  <2>1. StoreType(db) /\ scan \in Scans /\ Aged(db, scan) /\ faults \in 0..MaxFaults
    BY DEF TypeInv, TypeOK, ClockInv
  <2>2. WriteOK
    BY <1>2, <2>1, SaveServiceType, SaveServiceKeeps DEF WriteOK
  <2>3. \A e \in Names : e # d => LoadAssetHistory(db', e) = LoadAssetHistory(db, e)
    BY <1>2, <2>1, OtherHistory
  <2> QED
    BY <2>2, <2>3
<1> QED
  BY <1>1, <1>2 DEF StoreService

\* Saving a bucket, done or refused, changes no port and no service.
LEMMA StoreBucketOK ==
  ASSUME TypeInv, NEW d \in Names, NEW u \in Buckets, NEW a \in BOOLEAN, StoreBucket(d, u, a)
  PROVE  WriteOK /\ db'.ports = db.ports /\ db'.services = db.services
<1>1. CASE UNCHANGED db
  BY <1>1, NoWrite, FaultCounted DEF StoreBucket, TypeInv, TypeOK
<1>2. CASE db' = SaveBucket(db, d, u, a, scan) /\ UNCHANGED faults
  BY <1>2, SaveBucketType, SaveBucketKeeps DEF TypeInv, TypeOK, ClockInv, WriteOK
<1> QED
  BY <1>1, <1>2 DEF StoreBucket

\* What one step does to the store.
LEMMA WriteStep ==
  ASSUME TypeInv, [Next]_vars
  PROVE  StoreType(db') /\ KeepsAll(db, db') /\ Aged(db', scan')
<1> USE DEF TypeInv, WriteOK
<1>a. /\ StoreType(db) /\ KeepsAll(db, db) /\ Aged(db, scan)
      /\ scan \in Nat /\ faults \in 0..MaxFaults
  BY UnchangedKeeps, RunnerAssumption DEF TypeOK, ClockInv, Scans
<1>b. Aged(db, scan + 1)
  BY <1>a, StampTypes, RunnerAssumption
     DEF TypeOK, StoreType, IsTable, Aged, SeenBy, Scans
<1>1. CASE StartScan
  BY <1>1, <1>a, <1>b DEF StartScan, BeginScan
<1>2. CASE LocalAsset
  BY <1>2, StoreAssetOK DEF LocalAsset, TypeOK, conf
<1>3. CASE Resolve
  <2>1. CASE UNCHANGED <<db, faults>>
    BY <1>3, <2>1, <1>a DEF Resolve, conf
  <2>2. ASSUME NEW d \in todo, GoLive(d) PROVE WriteOK
    <3>1. d \in Names
      BY <1>3, <2>2 DEF PlaceInv, Resolve, Names
    <3> QED
      BY <3>1, <2>2, StoreAssetOK DEF GoLive
  <2> QED
    BY <1>3, <2>1, <2>2 DEF Resolve, Skip, conf
<1>4. CASE ResolvePTR
  <2>1. CASE UNCHANGED <<db, faults>>
    BY <1>4, <2>1, <1>a DEF ResolvePTR, EnrichName, conf
  <2>2. ASSUME NEW d \in todo, GoLive(d) PROVE WriteOK
    <3>1. d \in Names
      BY <1>4, <2>2 DEF PlaceInv, ResolvePTR, EnrichName, Names
    <3> QED
      BY <3>1, <2>2, StoreAssetOK DEF GoLive
  <2> QED
    BY <1>4, <2>1, <2>2 DEF ResolvePTR, EnrichName, Skip, conf
<1>5. CASE HandlePort
  <2>1. PICK p \in rest : StorePort(live[idx], p)
    BY <1>5 DEF HandlePort
  <2>2. live[idx] \in Names /\ p \in Endpoints
    BY <1>5 DEF HandlePort, TypeOK, PlaceInv
  <2> QED
    BY <1>5, <2>1, <2>2, StorePortOK DEF HandlePort, conf
<1>6. CASE HandleService
  <2>1. PICK p \in rest, svc \in Services : StoreService(live[idx], p, svc)
    BY <1>6 DEF HandleService
  <2>2. live[idx] \in Names /\ p \in Endpoints
    BY <1>6 DEF HandleService, TypeOK, PlaceInv
  <2> QED
    BY <1>6, <2>1, <2>2, StoreServiceOK DEF HandleService, conf
<1>7. CASE HandleBucket
  <2>1. PICK u \in todo, a \in BOOLEAN : StoreBucket(target, u, a)
    BY <1>7 DEF HandleBucket
  <2>2. target \in Names /\ u \in Buckets
    BY <1>7 DEF HandleBucket, TypeOK, PlaceInv
  <2> QED
    BY <1>7, <2>1, <2>2, StoreBucketOK DEF HandleBucket, conf
<1>8. CASE UNCHANGED <<db, scan>>
  BY <1>8, <1>a
<1> QED
  <2>1. CASE Discover \/ DiscoverFails \/ Enrich \/ EndPhase1
    BY <2>1, <1>8 DEF Discover, DiscoverFails, Enrich, EndPhase1, conf
  <2>2. CASE BeginPhase2 \/ ScanAsset \/ ScanReturns \/ LoadHistory \/ NoService
    BY <2>2, <1>8 DEF BeginPhase2, ScanAsset, ScanReturns, LoadHistory, NoService, conf
  <2>3. CASE FinishAsset \/ EmitDiffs \/ AbandonPhase2 \/ BeginPhase3 \/ Finish
    BY <2>3, <1>8 DEF FinishAsset, EmitDiffs, AbandonPhase2, BeginPhase3, Finish, conf
  <2>4. CASE Cancel \/ Crash \/ Stop \/ UNCHANGED vars
    BY <2>4, <1>8 DEF Cancel, Crash, Stop, vars, conf
  <2> QED
    BY <1>1, <1>2, <1>3, <1>4, <1>5, <1>6, <1>7, <2>1, <2>2, <2>3, <2>4
       DEF Next, Phase1, Phase2, Phase3

\* Nothing, and no history, is what a scan may find.
LEMMA NothingFound ==
  /\ FoundType({}, Nothing)
  /\ FoundType(NoHistory.ports, NoHistory.services)
  BY DEF FoundType, IsTable, Nothing, NoHistory

\* The difference between two findings is a difference.
LEMMA DiffType ==
  ASSUME NEW d \in Names, NEW h, FoundType(h.ports, h.services),
         NEW ps, NEW svcs, FoundType(ps, svcs)
  PROVE  DiffAsset(d, h, ps, svcs) \in Diffs
<1>1. \A p \in VersionChanged(h, svcs) :
        /\ p \in Endpoints /\ h.services[p] \in Services /\ svcs[p] \in Services
  BY DEF VersionChanged, FoundType, IsTable
<1>2. ASSUME NEW p \in VersionChanged(h, svcs)
      PROVE  ServiceChangeOf(p, h.services[p], svcs[p]) \in Changes
  BY <1>1 DEF ServiceChangeOf, Changes, ServiceNames, Versions
<1>3. ps \ h.ports \subseteq Endpoints /\ h.ports \ ps \subseteq Endpoints
  BY DEF FoundType
<1> QED
  BY <1>2, <1>3 DEF DiffAsset, Diffs

\* A reported difference has a domain.
LEMMA EventType ==
  ASSUME allDiffs \in Seq(Diffs), assetDiff \subseteq Names
  PROVE  \A e \in { NewAssetEvent(d) : d \in assetDiff } \cup PortEvents : e.domain \in Names
<1>1. \A d \in assetDiff : NewAssetEvent(d).domain \in Names
  BY DEF NewAssetEvent
<1>2. \A diff \in Range(allDiffs) : diff.domain \in Names
  <2>1. \A i \in DOMAIN allDiffs : allDiffs[i] \in Diffs
    OBVIOUS
  <2>2. \A diff \in Diffs : diff.domain \in Names
    BY DEF Diffs
  <2> QED
    BY <2>1, <2>2 DEF Range
<1>3. ASSUME NEW diff \in Range(allDiffs), NEW e \in DiffEvents(diff)
      PROVE  e.domain = diff.domain
  <2>1. \A p : OpenedEvent(diff.domain, p).domain = diff.domain
    BY DEF OpenedEvent
  <2>2. \A p : ClosedEvent(diff.domain, p).domain = diff.domain
    BY DEF ClosedEvent
  <2>3. \A c : VersionEvent(diff.domain, c).domain = diff.domain
    BY DEF VersionEvent
  <2> QED
    BY <2>1, <2>2, <2>3 DEF DiffEvents
<1> QED
  BY <1>1, <1>2, <1>3 DEF PortEvents

\* The live names stay names.
LEMMA LiveGrows ==
  ASSUME TypeInv, NEW d \in Names, GoLive(d)
  PROVE  /\ live' \in Seq(Names)
         /\ DOMAIN live' = DOMAIN live \cup {Len(live) + 1}
         /\ live'[Len(live) + 1] = d /\ \A i \in DOMAIN live : live'[i] = live[i]
<1>1. live \in Seq(Names) /\ live' = Append(live, d)
  BY DEF GoLive, TypeInv, TypeOK
<1>2. /\ live' \in Seq(Names) /\ Len(live') = Len(live) + 1 /\ Len(live) \in Nat
      /\ live'[Len(live) + 1] = d /\ \A i \in DOMAIN live : live'[i] = live[i]
  BY <1>1
<1>3. DOMAIN live = 1..Len(live) /\ DOMAIN live' = 1..(Len(live) + 1)
  BY <1>1, <1>2
<1> QED
  BY <1>2, <1>3

\* An empty store and no scan are well-typed.
LEMMA InitType == Init => TypeInv
<1> SUFFICES ASSUME Init PROVE TypeInv
  OBVIOUS
<1>1. StoreType(EmptyStore) /\ Aged(EmptyStore, 0)
  BY DEF StoreType, IsTable, EmptyStore, Aged, SeenBy
<1>2. 0 \in Scans /\ 0 \in 0..MaxFaults
  BY RunnerAssumption DEF Scans
<1>3. allDiffs \in Seq(Diffs) /\ live \in Seq(Names) /\ Len(live) = 0
  BY DEF Init
<1>4. IsTable(Nothing, Endpoints, Services) /\ DOMAIN Nothing = {}
  BY DEF IsTable, Nothing
<1>5. TypeOK
  <2>1. idx \in 1..(Len(live) + 1)
    BY <1>3 DEF Init
  <2>2. StoreType(db) /\ StoreType(pre) /\ scan \in Scans /\ faults \in 0..MaxFaults
    BY <1>1, <1>2 DEF Init
  <2>3. FoundType(history.ports, history.services) /\ IsTable(services, Endpoints, Services)
    BY <1>4, NothingFound DEF Init
  <2>4. DOMAIN observed = {}
    BY <1>4 DEF Init
  <2>5. target \in Names
    BY DEF Init, Names
  <2> QED
    BY <1>3, <2>1, <2>2, <2>3, <2>4, <2>5 DEF Init, TypeOK
<1> QED
  BY <1>1, <1>5 DEF Init, TypeInv, PlaceInv, ClockInv

\* Every step keeps the types.
LEMMA TypeStep == TypeInv /\ [Next]_vars => TypeInv'
<1> SUFFICES ASSUME TypeInv, [Next]_vars PROVE TypeInv'
  OBVIOUS
<1>a. TypeOK /\ PlaceInv
  BY DEF TypeInv
<1>w. StoreType(db') /\ Aged(db', scan')
  BY WriteStep
<1> USE RunnerAssumption DEF conf, phase1, asset, output
<1>1. CASE StartScan
  <2>1. scan' \in Scans
    BY <1>1, <1>a DEF StartScan, BeginScan, TypeOK, Scans
  <2>2. target' \in Names
    BY <1>1 DEF StartScan, BeginScan, Names
  <2>3. IsTable(Nothing, Endpoints, Services) /\ DOMAIN Nothing = {}
    BY DEF IsTable, Nothing
  <2>4. live' \in Seq(Names) /\ allDiffs' \in Seq(Diffs) /\ Len(live') = 0
    BY <1>1 DEF StartScan, BeginScan
  <2>5. 0 \in 0..MaxFaults
    OBVIOUS
  <2>6. TypeOK'
    <3>1. idx' \in 1..(Len(live') + 1)
      BY <1>1, <2>4 DEF StartScan, BeginScan
    <3>2. StoreType(pre') /\ faults' \in 0..MaxFaults
      BY <1>1, <1>a, <2>5 DEF StartScan, BeginScan, TypeOK
    <3>3. FoundType(history.ports, history.services)' /\ IsTable(services', Endpoints, Services)
      BY <1>1, <2>3, NothingFound DEF StartScan, BeginScan
    <3>4. DOMAIN observed' = {}
      BY <1>1, <2>3 DEF StartScan, BeginScan
    <3> QED
      BY <1>1, <1>w, <2>1, <2>2, <2>4, <3>1, <3>2, <3>3, <3>4 DEF StartScan, BeginScan, TypeOK
  <2> QED
    BY <1>1, <1>w, <2>6 DEF StartScan, BeginScan, TypeInv, PlaceInv, ClockInv
<1>2. CASE LocalAsset
  <2>1. faults' \in 0..MaxFaults
    BY <1>2, <1>a, StoreAssetOK DEF LocalAsset, TypeOK, WriteOK
  <2>2. live' \in Seq(Names) /\ Len(live') = 1
    BY <1>2, <1>a DEF LocalAsset, TypeOK
  <2> QED
    BY <1>2, <1>a, <1>w, <2>1, <2>2
       DEF LocalAsset, TypeOK, TypeInv, PlaceInv, ClockInv, Early
<1>3. CASE Discover
  BY <1>3, <1>a, <1>w DEF Discover, TypeOK, TypeInv, PlaceInv, ClockInv, Early
<1>4. CASE DiscoverFails
  BY <1>4, <1>a, <1>w DEF DiscoverFails, TypeOK, TypeInv, PlaceInv, ClockInv, Early
<1>5. CASE Resolve
  <2>1. PICK d \in todo : todo' = todo \ {d} /\ (GoLive(d) \/ Skip)
    BY <1>5 DEF Resolve
  <2>2. d \in Names /\ idx = 1
    BY <1>5, <1>a, <2>1 DEF Resolve, PlaceInv, Early, Names
  <2>3. live' \in Seq(Names) /\ faults' \in 0..MaxFaults
    BY <1>a, <2>1, <2>2, LiveGrows, StoreAssetOK DEF Skip, GoLive, WriteOK, TypeOK
  <2>4. 1 \in 1..(Len(live') + 1)
    BY <2>3
  <2> QED
    BY <1>5, <1>a, <1>w, <2>1, <2>2, <2>3, <2>4
       DEF Resolve, TypeOK, TypeInv, PlaceInv, ClockInv
<1>6. CASE Enrich
  BY <1>6, <1>a, <1>w DEF Enrich, TypeOK, TypeInv, PlaceInv, ClockInv, Early
<1>7. CASE ResolvePTR
  <2>1. PICK d \in todo : todo' = todo \ {d} /\ (GoLive(d) \/ Skip)
    BY <1>7 DEF ResolvePTR, EnrichName
  <2>2. d \in Names /\ idx = 1
    BY <1>7, <1>a, <2>1 DEF ResolvePTR, EnrichName, PlaceInv, Early, Names
  <2>3. live' \in Seq(Names) /\ faults' \in 0..MaxFaults
    BY <1>a, <2>1, <2>2, LiveGrows, StoreAssetOK DEF Skip, GoLive, WriteOK, TypeOK
  <2>4. 1 \in 1..(Len(live') + 1)
    BY <2>3
  <2> QED
    BY <1>7, <1>a, <1>w, <2>1, <2>2, <2>3, <2>4
       DEF ResolvePTR, EnrichName, TypeOK, TypeInv, PlaceInv, ClockInv
<1>8. CASE EndPhase1
  BY <1>8, <1>a, <1>w DEF EndPhase1, TypeOK, TypeInv, PlaceInv, ClockInv, Early
<1>9. CASE BeginPhase2
  <2>1. DiffAssets(db, Range(live)) \subseteq Names
    BY <1>a DEF DiffAssets, Range, TypeOK
  <2>2. assetDiff' \subseteq Names /\ faults' \in 0..MaxFaults
    BY <1>9, <1>a, <2>1, FaultCounted DEF BeginPhase2, TypeOK
  <2>3. pc' \in {"idle", "phase3", "asset"}
    BY <1>9 DEF BeginPhase2, Return
  <2> QED
    BY <1>9, <1>a, <1>w, <2>2, <2>3
       DEF BeginPhase2, Early, TypeOK, TypeInv, PlaceInv, ClockInv
<1>10. CASE ScanAsset
  <2>1. idx \in DOMAIN live /\ idx + 1 \in 1..(Len(live) + 1) /\ rest = {}
    BY <1>10, <1>a DEF ScanAsset, TypeOK, PlaceInv
  <2> QED
    BY <1>10, <1>a, <1>w, <2>1 DEF ScanAsset, TypeOK, TypeInv, PlaceInv, ClockInv, Early
<1>11. CASE ScanReturns
  BY <1>11, <1>a, <1>w DEF ScanReturns, TypeOK, TypeInv, PlaceInv, ClockInv, Early
<1>12. CASE LoadHistory
  <2>1. FoundType(history'.ports, history'.services)
    BY <1>12, <1>a, HistoryType, NothingFound DEF LoadHistory, TypeOK
  <2>2. faults' \in 0..MaxFaults
    BY <1>12, <1>a, FaultCounted DEF LoadHistory, TypeOK
  <2>3. IsTable(services', Endpoints, Services)
    BY <1>12 DEF LoadHistory, IsTable, Nothing
  <2>4. loaded' \in BOOLEAN
    BY <1>12 DEF LoadHistory
  <2> QED
    BY <1>12, <1>a, <1>w, <2>1, <2>2, <2>3, <2>4
       DEF LoadHistory, Early, TypeOK, TypeInv, PlaceInv, ClockInv
<1>13. CASE HandlePort
  <2>1. PICK p \in rest : StorePort(live[idx], p)
    BY <1>13 DEF HandlePort
  <2>2. live[idx] \in Names /\ p \in Endpoints
    <3>1. idx \in DOMAIN live
      BY <1>13, <1>a DEF HandlePort, PlaceInv
    <3>2. live[idx] \in Names
      BY <3>1, <1>a DEF TypeOK
    <3>3. p \in Endpoints
      BY <1>a DEF TypeOK
    <3> QED
      BY <3>2, <3>3
  <2>3. faults' \in 0..MaxFaults
    BY <2>1, <2>2, StorePortOK DEF WriteOK
  <2> QED
    BY <1>13, <1>a, <1>w, <2>3 DEF HandlePort, Early, TypeOK, TypeInv, PlaceInv, ClockInv
<1>14. CASE NoService
  <2>1. PICK p \in rest : Badge(p) /\ rest' = rest \ {p}
    BY <1>14 DEF NoService
  <2>2. live[idx] \in Names /\ p \in Endpoints
    BY <1>14, <1>a DEF NoService, TypeOK, PlaceInv
  <2>3. badges' \subseteq Names \X Endpoints
    BY <1>a, <2>1, <2>2 DEF Badge, TypeOK
  <2> QED
    BY <1>14, <1>a, <1>w, <2>1, <2>3
       DEF NoService, Early, TypeOK, TypeInv, PlaceInv, ClockInv
<1>15. CASE HandleService
  <2>1. PICK p \in rest, svc \in Services :
          /\ StoreService(live[idx], p, svc) /\ Badge(p) /\ rest' = rest \ {p}
          /\ services' = Upsert(services, p, svc)
    BY <1>15 DEF HandleService
  <2>2. live[idx] \in Names /\ p \in Endpoints
    BY <1>15, <1>a DEF HandleService, TypeOK, PlaceInv
  <2>3. badges' \subseteq Names \X Endpoints
    BY <1>a, <2>1, <2>2 DEF Badge, TypeOK
  <2>4. faults' \in 0..MaxFaults
    BY <2>1, <2>2, StoreServiceOK DEF WriteOK
  <2>5. IsTable(services', Endpoints, Services)
    BY <1>a, <2>1, <2>2, UpsertTable DEF TypeOK
  <2> QED
    BY <1>15, <1>a, <1>w, <2>1, <2>3, <2>4, <2>5
       DEF HandleService, Early, TypeOK, TypeInv, PlaceInv, ClockInv
<1>16. CASE FinishAsset
  <2>1. idx \in DOMAIN live /\ live[idx] \in Names
    BY <1>16, <1>a DEF FinishAsset, TypeOK, PlaceInv
  <2>2. FoundType(open, services) /\ FoundType(history.ports, history.services)
    BY <1>a DEF TypeOK, FoundType
  <2>3. allDiffs' \in Seq(Diffs)
    BY <1>16, <1>a, <2>1, <2>2, DiffType DEF FinishAsset, DiffCurrent, DiffWith, TypeOK
  <2>4. /\ DOMAIN observed' \subseteq Names
        /\ \A d \in DOMAIN observed' : FoundType(observed'[d].open, observed'[d].services)
    BY <1>16, <1>a, <2>1, <2>2 DEF FinishAsset, Upsert, TypeOK
  <2>5. idx + 1 \in 1..(Len(live) + 1)
    BY <1>a, <2>1 DEF TypeOK
  <2> QED
    BY <1>16, <1>a, <1>w, <2>3, <2>4, <2>5
       DEF FinishAsset, Early, TypeOK, TypeInv, PlaceInv, ClockInv
<1>17. CASE EmitDiffs
  <2>1. \A e \in report' : e.domain \in Names
    BY <1>17, <1>a, EventType DEF EmitDiffs, TypeOK
  <2> QED
    BY <1>17, <1>a, <1>w, <2>1 DEF EmitDiffs, Early, TypeOK, TypeInv, PlaceInv, ClockInv
<1>18. CASE AbandonPhase2
  BY <1>18, <1>a, <1>w DEF AbandonPhase2, TypeOK, TypeInv, PlaceInv, ClockInv, Return, Early
<1>19. CASE BeginPhase3
  BY <1>19, <1>a, <1>w DEF BeginPhase3, TypeOK, TypeInv, PlaceInv, ClockInv, Return, Early
<1>20. CASE HandleBucket
  <2>1. PICK u \in todo, a \in BOOLEAN : todo' = todo \ {u} /\ StoreBucket(target, u, a)
    BY <1>20 DEF HandleBucket
  <2>2. u \in Buckets /\ faults' \in 0..MaxFaults
    BY <1>20, <1>a, <2>1, StoreBucketOK DEF HandleBucket, TypeOK, PlaceInv, WriteOK
  <2> QED
    BY <1>20, <1>a, <1>w, <2>1, <2>2
       DEF HandleBucket, Early, TypeOK, TypeInv, PlaceInv, ClockInv
<1>21. CASE Finish
  BY <1>21, <1>a, <1>w DEF Finish, TypeOK, TypeInv, PlaceInv, ClockInv, Return, Early
<1>22. CASE Cancel
  BY <1>22, <1>a, <1>w DEF Cancel, TypeOK, TypeInv, PlaceInv, ClockInv, Early
<1>23. CASE Crash
  <2>1. allDiffs' \in Seq(Diffs)
    BY <1>23 DEF Crash
  <2> QED
    BY <1>23, <1>a, <1>w, <2>1 DEF Crash, Early, TypeOK, TypeInv, PlaceInv, ClockInv
<1>24. CASE UNCHANGED vars
  BY <1>24, <1>a, <1>w DEF vars, TypeOK, TypeInv, PlaceInv, ClockInv
<1> QED
  BY <1>1, <1>2, <1>3, <1>4, <1>5, <1>6, <1>7, <1>8, <1>9, <1>10, <1>11, <1>12, <1>13,
     <1>14, <1>15, <1>16, <1>17, <1>18, <1>19, <1>20, <1>21, <1>22, <1>23, <1>24
     DEF Next, Phase1, Phase2, Phase3, Stop

\* Every variable has its type in every reachable state, whatever the scans
\* do and wherever they are cancelled, killed or refused by the store.
THEOREM TypeCorrect == Spec => []TypeOK
<1>1. TypeInv => TypeOK
  BY DEF TypeInv
<1> QED
  BY InitType, TypeStep, <1>1, PTL DEF Spec

\* FirstSeen is written once and never overwritten, LastSeen never goes back, no
\* row is lost and no bucket changes hands (the upserts of
\* postgres_store.go:148-235).
THEOREM NothingForgotten == Spec => HistoryIsKept
<1>1. TypeInv /\ [Next]_vars => [KeepsAll(db, db')]_db
  BY WriteStep
<1> QED
  BY InitType, TypeStep, <1>1, PTL DEF Spec, HistoryIsKept, KeepsAll

----------------------------------------------------------------------------
(* Differences are against the store before the scan.                      *)

\* A history depends on the ports and the services alone.
LEMMA SameRows ==
  ASSUME NEW s, NEW t, s.ports = t.ports, s.services = t.services, NEW d
  PROVE  LoadAssetHistory(s, d) = LoadAssetHistory(t, d)
  BY DEF LoadAssetHistory, FindPorts, FindServices

\* Before Phase 2 the last two parts of the invariant follow from the first.
LEMMA EarlyRest == pc \in Early /\ EarlyInv => HistoryInv /\ DiffsInv
  BY SameRows DEF Early, EarlyInv, HistoryInv, DiffsInv, Untouched

\* A step of Phase 1.
LEMMA EarlyStep ==
  ASSUME PreScanInv, pc' \in Early, EarlyInv', LiveInv'
  PROVE  PreScanInv'
<1>1. (pc \in Early /\ EarlyInv => HistoryInv /\ DiffsInv)'
  BY EarlyRest, PTL
<1> QED
  BY <1>1 DEF PreScanInv

\* A step of Phases 2 and 3 that neither writes a port or a service, nor
\* moves on to another asset.
LEMMA LateStep ==
  ASSUME PreScanInv, pc' \notin Early,
         db'.ports = db.ports, db'.services = db.services,
         UNCHANGED <<pre, live, idx, history, loaded, allDiffs, observed>>,
         pc \in {"idle", "port", "banner"} => pc' \in {"idle", "port", "banner"},
         pc' \in {"port", "banner"} => pc \in {"port", "banner"}
  PROVE  PreScanInv'
<1>1. EarlyInv' /\ LiveInv'
  BY DEF PreScanInv, EarlyInv, LiveInv, Early
<1>2. \A d : LoadAssetHistory(db', d) = LoadAssetHistory(db, d)
  BY SameRows
<1>3. HistoryInv'
  BY <1>2 DEF PreScanInv, HistoryInv, Untouched
<1>4. DiffsInv'
  BY DEF PreScanInv, DiffsInv
<1> QED
  BY <1>1, <1>3, <1>4 DEF PreScanInv

\* A write for the asset at hand, on to pc'.
LEMMA AssetStep ==
  ASSUME TypeInv, PreScanInv, pc \in {"port", "banner"}, pc' \in {"port", "banner"},
         UNCHANGED <<pre, live, idx, history, loaded, allDiffs, observed>>,
         \A e \in Names : e # live[idx] => LoadAssetHistory(db', e) = LoadAssetHistory(db, e)
  PROVE  PreScanInv'
<1>1. EarlyInv' /\ LiveInv' /\ DiffsInv'
  BY DEF PreScanInv, EarlyInv, LiveInv, DiffsInv, Early
<1>2. idx \in DOMAIN live /\ \A i \in DOMAIN live : live[i] \in Names
  BY DEF TypeInv, TypeOK, PlaceInv
<1>3. ASSUME NEW i \in DOMAIN live, i > idx PROVE Untouched(live[i])'
  <2>1. i # idx
    BY <1>2, <1>3 DEF TypeInv, TypeOK
  <2>2. live[i] # live[idx]
    BY <1>2, <2>1 DEF PreScanInv, LiveInv
  <2>3. Untouched(live[i])
    BY <1>3 DEF PreScanInv, HistoryInv
  <2> QED
    BY <1>2, <2>2, <2>3 DEF Untouched
<1>4. HistoryInv'
  BY <1>3 DEF PreScanInv, HistoryInv
<1> QED
  BY <1>1, <1>4 DEF PreScanInv

\* Before the first scan there is no difference to be right or wrong.
LEMMA InitPreScan == Init => PreScanInv
<1> SUFFICES ASSUME Init PROVE PreScanInv
  OBVIOUS
<1>1. DOMAIN live = {} /\ DOMAIN allDiffs = {} /\ pc = "idle"
  BY DEF Init
<1> QED
  BY <1>1 DEF PreScanInv, EarlyInv, LiveInv, HistoryInv, DiffsInv, Early

\* One more name is live, and not twice.
LEMMA LiveDistinct ==
  ASSUME TypeInv, LiveInv, NEW d \in Names, GoLive(d), d \notin Range(live)
  PROVE  \A i, j \in DOMAIN live' : live'[i] = live'[j] => i = j
<1>1. /\ DOMAIN live' = DOMAIN live \cup {Len(live) + 1}
      /\ live'[Len(live) + 1] = d /\ \A i \in DOMAIN live : live'[i] = live[i]
  BY LiveGrows
<1>2. \A i \in DOMAIN live : live[i] # d
  BY DEF Range
<1> QED
  BY <1>1, <1>2 DEF LiveInv

\* Every step keeps the differences right.
LEMMA PreScanStep == TypeInv /\ PreScanInv /\ [Next]_vars => PreScanInv'
<1> SUFFICES ASSUME TypeInv, PreScanInv, [Next]_vars PROVE PreScanInv'
  OBVIOUS
<1> USE DEF conf, phase1, asset, output
<1>1. CASE StartScan
  <2>1. /\ DOMAIN live' = {} /\ DOMAIN allDiffs' = {} /\ allDiffs' = <<>> /\ live' = <<>>
        /\ pc' \in {"local", "discover"} /\ pre' = db' 
    BY <1>1 DEF StartScan, BeginScan
  <2> QED
    BY <2>1, EarlyStep DEF EarlyInv, LiveInv, Early
<1>2. CASE LocalAsset
  <2>1. pc = "local" /\ pc' = "phase2" /\ target \in Names
    BY <1>2 DEF LocalAsset, TypeInv, TypeOK
  <2>2. db'.ports = db.ports /\ db'.services = db.services
    BY <1>2, <2>1, StoreAssetOK DEF LocalAsset
  <2>3. EarlyInv'
    BY <1>2, <2>1, <2>2 DEF LocalAsset, PreScanInv, EarlyInv, Early
  <2>4. LiveInv'
    BY <1>2, <2>1 DEF LocalAsset, LiveInv
  <2> QED
    BY <2>1, <2>3, <2>4, EarlyStep DEF Early
<1>3. CASE Discover \/ DiscoverFails \/ Enrich \/ EndPhase1
  <2>1. /\ pc \in Early /\ pc' \in {"resolve", "enrich", "phase2"}
        /\ pc' = "resolve" => pc = "discover"
        /\ UNCHANGED <<db, pre, live, allDiffs>>
    BY <1>3 DEF Discover, DiscoverFails, Enrich, EndPhase1, Early
  <2>2. EarlyInv'
    BY <2>1 DEF PreScanInv, EarlyInv, Early
  <2>3. LiveInv'
    BY <2>1 DEF PreScanInv, LiveInv, Early
  <2> QED
    BY <2>1, <2>2, <2>3, EarlyStep DEF Early
<1>4. CASE Resolve
  <2>1. PICK d \in todo : todo' = todo \ {d} /\ (GoLive(d) \/ Skip)
    BY <1>4 DEF Resolve
  <2>2. /\ d \in Names /\ pc = "resolve" /\ pc' = "resolve" /\ UNCHANGED <<pre, allDiffs>>
        /\ d \notin Range(live)
    BY <1>4 DEF Resolve, TypeInv, PlaceInv, PreScanInv, LiveInv, Names, Range
  <2>3. EarlyInv'
    BY <2>1, <2>2, StoreAssetOK DEF PreScanInv, EarlyInv, Early, GoLive, Skip
  <2>4. CASE GoLive(d)
    <3>1. /\ DOMAIN live' = DOMAIN live \cup {Len(live) + 1}
          /\ live'[Len(live) + 1] = d /\ \A i \in DOMAIN live : live'[i] = live[i]
      BY <2>2, <2>4, LiveGrows
    <3>2. \A i, j \in DOMAIN live' : live'[i] = live'[j] => i = j
      BY <2>2, <2>4, LiveDistinct DEF PreScanInv
    <3>3. \A i \in DOMAIN live' : live'[i] \notin todo'
      BY <2>1, <2>2, <3>1 DEF PreScanInv, LiveInv
    <3> QED
      BY <2>2, <2>3, <3>2, <3>3, EarlyStep DEF LiveInv, Early
  <2>5. CASE Skip
    <3>1. LiveInv'
      BY <2>1, <2>2, <2>5 DEF Skip, PreScanInv, LiveInv
    <3> QED
      BY <2>2, <2>3, <3>1, EarlyStep DEF Early
  <2> QED
    BY <2>1, <2>4, <2>5
<1>5. CASE ResolvePTR
  <2>1. PICK d \in todo : /\ todo' = todo \ {d}
                         /\ ((d \notin Range(live) /\ GoLive(d)) \/ Skip)
    BY <1>5 DEF ResolvePTR, EnrichName
  <2>2. d \in Names /\ pc = "enrich" /\ pc' = "enrich" /\ UNCHANGED <<pre, allDiffs>>
    BY <1>5 DEF ResolvePTR, EnrichName, TypeInv, PlaceInv, Names
  <2>3. EarlyInv'
    BY <2>1, <2>2, StoreAssetOK DEF PreScanInv, EarlyInv, Early, GoLive, Skip
  <2>4. LiveInv'
    BY <2>1, <2>2, LiveDistinct DEF PreScanInv, LiveInv, Skip
  <2> QED
    BY <2>2, <2>3, <2>4, EarlyStep DEF Early
<1>6. CASE BeginPhase2 \/ AbandonPhase2 \/ EmitDiffs \/ BeginPhase3 \/ Finish
  <2>1. /\ UNCHANGED <<db, pre, live, idx, history, loaded, allDiffs, observed>>
        /\ pc \in {"phase2", "asset", "phase3", "buckets"}
        /\ pc' \in {"idle", "asset", "phase3", "buckets"}
    BY <1>6 DEF BeginPhase2, AbandonPhase2, EmitDiffs, BeginPhase3, Finish, Return
  <2> QED
    BY <2>1, LateStep DEF Early
<1>7. CASE ScanAsset
  <2>1. /\ UNCHANGED <<db, pre, live, history, loaded, allDiffs, observed>>
        /\ pc = "asset" /\ pc' \in {"asset", "scan"} /\ idx' \in {idx, idx + 1}
    BY <1>7 DEF ScanAsset
  <2>2. idx \in Nat /\ DOMAIN live \subseteq Nat
    BY DEF TypeInv, TypeOK
  <2>3. EarlyInv' /\ LiveInv'
    BY <2>1 DEF PreScanInv, EarlyInv, LiveInv, Early
  <2>4. HistoryInv'
    BY <2>1, <2>2 DEF PreScanInv, HistoryInv, Untouched
  <2>5. DiffsInv'
    <3>1. \A k \in DOMAIN live : k < idx => k < idx'
      BY <2>1, <2>2
    <3> QED
      BY <2>1, <3>1 DEF PreScanInv, DiffsInv
  <2> QED
    BY <2>3, <2>4, <2>5 DEF PreScanInv
<1>8. CASE ScanReturns
  BY <1>8, LateStep DEF ScanReturns, Early
<1>9. CASE LoadHistory
  <2>1. /\ UNCHANGED <<db, pre, live, idx, allDiffs, observed>>
        /\ pc = "history" /\ pc' = "port"
        /\ loaded' => history' = LoadAssetHistory(db, live[idx])
    BY <1>9 DEF LoadHistory
  <2>2. idx \in DOMAIN live
    BY <2>1 DEF TypeInv, PlaceInv
  <2>3. Untouched(live[idx])
    BY <2>1, <2>2 DEF PreScanInv, HistoryInv
  <2>4. HistoryInv'
    BY <2>1, <2>3 DEF PreScanInv, HistoryInv, Untouched
  <2>5. EarlyInv' /\ LiveInv' /\ DiffsInv'
    BY <2>1 DEF PreScanInv, EarlyInv, LiveInv, DiffsInv, Early
  <2> QED
    BY <2>4, <2>5 DEF PreScanInv
<1>10. CASE HandlePort
  <2>1. PICK p \in rest : StorePort(live[idx], p)
    BY <1>10 DEF HandlePort
  <2>2. p \in Endpoints
    BY DEF TypeInv, TypeOK
  <2>3. idx \in DOMAIN live
    BY <1>10 DEF HandlePort, TypeInv, PlaceInv
  <2>4. live[idx] \in Names
    BY <2>3 DEF TypeInv, TypeOK
  <2>5. /\ UNCHANGED <<pre, live, idx, history, loaded, allDiffs, observed>>
        /\ pc = "port" /\ pc' = "banner"
    BY <1>10 DEF HandlePort
  <2> QED
    BY <2>1, <2>2, <2>4, <2>5, StorePortOK, AssetStep
<1>11. CASE NoService
  BY <1>11, LateStep DEF NoService, Early
<1>12. CASE HandleService
  <2>1. PICK p \in rest, svc \in Services : StoreService(live[idx], p, svc)
    BY <1>12 DEF HandleService
  <2>2. p \in Endpoints
    BY DEF TypeInv, TypeOK
  <2>3. idx \in DOMAIN live
    BY <1>12 DEF HandleService, TypeInv, PlaceInv
  <2>4. live[idx] \in Names
    BY <2>3 DEF TypeInv, TypeOK
  <2>5. /\ UNCHANGED <<pre, live, idx, history, loaded, allDiffs, observed>>
        /\ pc = "banner" /\ pc' = "port"
    BY <1>12 DEF HandleService
  <2> QED
    BY <2>1, <2>2, <2>4, <2>5, StoreServiceOK, AssetStep
<1>13. CASE FinishAsset
  <2> DEFINE d == live[idx]
             diff == DiffAsset(d, history, open, services)
  <2>1. /\ UNCHANGED <<db, pre, live, history, loaded>>
        /\ pc = "port" /\ pc' = "asset" /\ idx' = idx + 1
        /\ allDiffs' = allDiffs \/ (loaded /\ allDiffs' = Append(allDiffs, diff))
        /\ observed' = Upsert(observed, d, [open |-> open, services |-> services])
    BY <1>13 DEF FinishAsset, DiffCurrent, DiffWith
  <2>2. idx \in DOMAIN live /\ idx \in Nat /\ DOMAIN live \subseteq Nat
    BY <2>1 DEF TypeInv, TypeOK, PlaceInv
  <2>3. EarlyInv' /\ LiveInv'
    BY <2>1 DEF PreScanInv, EarlyInv, LiveInv, Early
  <2>4. HistoryInv'
    <3>1. \A i \in DOMAIN live : i > idx + 1 \/ i = idx + 1 => i > idx
      BY <2>2
    <3> QED
      BY <2>1, <3>1 DEF PreScanInv, HistoryInv, Untouched
  <2>5. /\ d \in DOMAIN observed'
        /\ observed'[d].open = open /\ observed'[d].services = services
        /\ \A e \in DOMAIN observed :
             e # d => e \in DOMAIN observed' /\ observed'[e] = observed[e]
    BY <2>1 DEF Upsert
  <2>6. DiffsInv'
    <3>1. ASSUME NEW i \in DOMAIN allDiffs
          PROVE  LET e == allDiffs[i].domain
                 IN  /\ \E k \in DOMAIN live : k < idx + 1 /\ live[k] = e
                     /\ e \in DOMAIN observed'
                     /\ allDiffs[i] = DiffAsset(e, LoadAssetHistory(pre, e), observed'[e].open,
                                                observed'[e].services)
      <4> DEFINE e == allDiffs[i].domain
      <4>1. PICK k \in DOMAIN live : k < idx /\ live[k] = e
        BY <3>1 DEF PreScanInv, DiffsInv
      <4>2. k < idx + 1 /\ k # idx
        BY <4>1, <2>2
      <4>3. e # d
        BY <2>2, <4>1, <4>2 DEF PreScanInv, LiveInv
      <4>4. /\ e \in DOMAIN observed
            /\ allDiffs[i] = DiffAsset(e, LoadAssetHistory(pre, e), observed[e].open,
                                       observed[e].services)
        BY <3>1 DEF PreScanInv, DiffsInv
      <4> QED
        BY <2>5, <4>1, <4>2, <4>3, <4>4
    <3>2. CASE allDiffs' = allDiffs
      BY <2>1, <3>1, <3>2 DEF DiffsInv
    <3>3. CASE loaded /\ allDiffs' = Append(allDiffs, diff)
      <4>1. /\ DOMAIN allDiffs' = DOMAIN allDiffs \cup {Len(allDiffs) + 1}
            /\ \A i \in DOMAIN allDiffs : allDiffs'[i] = allDiffs[i]
            /\ allDiffs'[Len(allDiffs) + 1] = diff
        <5>1. allDiffs \in Seq(Diffs)
          BY DEF TypeInv, TypeOK
        <5>2. Len(allDiffs) \in Nat /\ DOMAIN allDiffs = 1..Len(allDiffs)
          BY <5>1
        <5>3. DOMAIN Append(allDiffs, diff) = 1..(Len(allDiffs) + 1)
          BY <5>1
        <5>4. /\ \A i \in 1..Len(allDiffs) : Append(allDiffs, diff)[i] = allDiffs[i]
              /\ Append(allDiffs, diff)[Len(allDiffs) + 1] = diff
          BY <5>1
        <5> QED
          BY <3>3, <5>2, <5>3, <5>4
      <4>2. diff.domain = d
        BY DEF DiffAsset
      <4>3. history = LoadAssetHistory(pre, d)
        BY <2>1, <3>3 DEF PreScanInv, HistoryInv
      <4>4. idx < idx + 1
        BY <2>2
      <4> QED
        BY <2>1, <2>2, <2>5, <3>1, <4>1, <4>2, <4>3, <4>4 DEF DiffsInv
    <3> QED
      BY <2>1, <3>2, <3>3
  <2> QED
    BY <2>3, <2>4, <2>6 DEF PreScanInv
<1>14. CASE HandleBucket
  <2>1. PICK u \in todo, a \in BOOLEAN : StoreBucket(target, u, a)
    BY <1>14 DEF HandleBucket
  <2>2. target \in Names /\ u \in Buckets /\ pc = "buckets" /\ pc' = pc
    BY <1>14 DEF HandleBucket, TypeInv, TypeOK, PlaceInv
  <2>3. db'.ports = db.ports /\ db'.services = db.services
    BY <2>1, <2>2, StoreBucketOK
  <2> QED
    BY <1>14, <2>2, <2>3, LateStep DEF HandleBucket, Early
<1>15. CASE Cancel \/ UNCHANGED vars
  <2>1. UNCHANGED <<db, pc, pre, todo, live, idx, history, loaded, allDiffs, observed>>
    BY <1>15 DEF Cancel, vars
  <2> QED
    BY <2>1 DEF PreScanInv, EarlyInv, LiveInv, HistoryInv, DiffsInv, Untouched
<1>16. CASE Crash
  <2>1. /\ UNCHANGED <<db, pre, live, idx, observed>> /\ DOMAIN allDiffs' = {}
        /\ pc' = "idle"
    BY <1>16 DEF Crash
  <2> QED
    BY <2>1 DEF PreScanInv, EarlyInv, LiveInv, HistoryInv, DiffsInv, Untouched, Early
<1> QED
  BY <1>1, <1>2, <1>3, <1>4, <1>5, <1>6, <1>7, <1>8, <1>9, <1>10, <1>11, <1>12, <1>13,
     <1>14, <1>15, <1>16 DEF Next, Phase1, Phase2, Phase3, Stop

\* Every difference found, in every scan, is the difference between the store
\* as it was when the scan began and what the scan found (runner.go:457).
THEOREM PreScanHistory == Spec => []DiffsAgainstPreScan
<1>1. PreScanInv => DiffsAgainstPreScan
  BY DEF PreScanInv, DiffsInv, DiffsAgainstPreScan
<1>2. Init => TypeInv /\ PreScanInv
  BY InitType, InitPreScan
<1>3. TypeInv /\ PreScanInv /\ [Next]_vars => (TypeInv /\ PreScanInv)'
  BY TypeStep, PreScanStep
<1> QED
  BY <1>1, <1>2, <1>3, PTL DEF Spec

=============================================================================
