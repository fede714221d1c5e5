------------------------- MODULE StoreClientsProofs -------------------------
(***************************************************************************)
(* The properties of StoreClients proved for every number of clients,      *)
(* ports, services, scans and ticks.                                       *)
(*                                                                         *)
(* A client sees of the others' steps what they write to the store and     *)
(* that it was overtaken (lemma OthersStep); the invariant is of each      *)
(* client by itself, and each of its parts has a lemma for the client's    *)
(* own steps and one for the others'.                                      *)
(***************************************************************************)
EXTENDS StoreClients, TLAPS

\* No row was seen later than now.
ClockInv ==
  /\ \A k \in DOMAIN db.assets : db.assets[k].last <= clock
  /\ \A k \in DOMAIN db.ports : db.ports[k].last <= clock
  /\ \A k \in DOMAIN db.services : db.services[k].last <= clock

\* A service that is being saved is in scannedServices.
PlaceInv(c) ==
  pc[c] = "saveService" => \A p \in rest[c] : Current(c, p) => p \in DOMAIN services[c]

\* A client that was not overtaken saves a time that is later than the row's.
StampInv(c) ==
  ~overtaken[c] =>
    /\ pc[c] = "saveAsset" /\ Domain \in DOMAIN db.assets => db.assets[Domain].last <= stamp[c]
    /\ \A p \in rest[c] : Current(c, p) =>
         /\ pc[c] = "savePort" /\ <<Domain, p>> \in DOMAIN db.ports =>
              db.ports[<<Domain, p>>].last <= stamp[c]
         /\ pc[c] = "saveService" /\ <<Domain, p>> \in DOMAIN db.services =>
              db.services[<<Domain, p>>].last <= stamp[c]

Before == {"idle", "asset", "saveAsset", "scan", "ports", "services"}

\* Nothing is written for a port before the history is read.
FreshInv(c) ==
  /\ pc[c] \in Before => inserted[c] = {} /\ replaced[c] = {} /\ ~loaded[c]
  /\ pc[c] # "done" => report[c] = NoReport

\* What the scan inserted was in neither its history nor, hence, the store when
\* the history was read.
FirstInv(c) ==
  /\ \A p \in history[c].ports : <<Domain, p>> \in DOMAIN db.ports
  /\ pc[c] # "done" => inserted[c] \subseteq open[c] \ history[c].ports
  /\ pc[c] = "done" /\ loaded[c] => inserted[c] \subseteq report[c].opened

\* A service's port was read before it, or stored since.
MixedInv(c) ==
  /\ pc[c] = "services" =>
       \A p \in Ports : <<Domain, p>> \in DOMAIN db.ports => p \in history[c].ports \cup between[c]
  /\ loaded[c] /\ pc[c] # "done" => DOMAIN history[c].services \subseteq history[c].ports \cup between[c]
  /\ pc[c] = "done" => report[c].opened \cap Changed(c) \subseteq between[c]

\* Until the scan saves a service, or another client does, the history holds.
ChangeInv(c) ==
  /\ loaded[c] /\ pc[c] # "done" =>
       /\ \A p \in rest[c] \ sinceLoad[c] : <<Domain, p>> \in DOMAIN db.services =>
            p \in DOMAIN history[c].services /\ history[c].services[p] = db.services[<<Domain, p>>].svc
       /\ \A p \in replaced[c] \ sinceLoad[c] :
            p \notin rest[c] /\ p \in VersionChanged(history[c], services[c])
  /\ pc[c] = "done" /\ loaded[c] => replaced[c] \subseteq Changed(c) \cup sinceLoad[c]

ClientInv(c) ==
  PlaceInv(c) /\ StampInv(c) /\ FreshInv(c) /\ FirstInv(c) /\ MixedInv(c) /\ ChangeInv(c)

IInv == TypeOK /\ ClockInv /\ \A c \in Client : ClientInv(c)

----------------------------------------------------------------------------
(* The store.                                                              *)

\* Upsert keeps a table a table.
LEMMA UpsertTable ==
  ASSUME NEW t, NEW K, NEW R, IsTable(t, K, R), NEW k \in K, NEW row \in R
  PROVE  /\ IsTable(Upsert(t, k, row), K, R)
         /\ DOMAIN Upsert(t, k, row) = DOMAIN t \cup {k}
         /\ Upsert(t, k, row)[k] = row
         /\ \A x \in DOMAIN t : x # k => Upsert(t, k, row)[x] = t[x]
  BY DEF IsTable, Upsert

\* first_seen is a time of the clock.
LEMMA FirstSeenTime ==
  ASSUME NEW t, NEW K, NEW R, IsTable(t, K, R), \A r \in R : r.first \in Time,
         NEW k, NEW now \in Time
  PROVE  FirstSeen(t, k, now) \in Time
  BY DEF IsTable, FirstSeen

\* What SaveAsset does to the store.
LEMMA AssetSaved ==
  ASSUME NEW s, StoreType(s), NEW now \in Time, NEW t, t = SaveAsset(s, Domain, now)
  PROVE  /\ StoreType(t)
         /\ t.ports = s.ports /\ t.services = s.services
         /\ \A k \in DOMAIN t.assets : k = Domain /\ t.assets[k].last = now
<1> DEFINE row == [first |-> FirstSeen(s.assets, Domain, now), last |-> now]
<1>1. IsTable(s.assets, {Domain}, Stamp(Time)) /\ \A r \in Stamp(Time) : r.first \in Time
  BY DEF StoreType, Stamp
<1>2. row \in Stamp(Time)
  BY <1>1, FirstSeenTime DEF Stamp
<1>3. /\ IsTable(Upsert(s.assets, Domain, row), {Domain}, Stamp(Time))
      /\ Upsert(s.assets, Domain, row)[Domain] = row
  <2>1. IsTable(Upsert(s.assets, Domain, row), {Domain}, Stamp(Time))
    BY <1>1, <1>2, UpsertTable
  <2> QED
    BY <2>1 DEF Upsert
<1>4. t = [assets |-> Upsert(s.assets, Domain, row), ports |-> s.ports,
           services |-> s.services, buckets |-> s.buckets]
  BY DEF SaveAsset, StoreType
<1>5. DOMAIN t.assets \subseteq {Domain} /\ row.last = now
  BY <1>3, <1>4 DEF IsTable
<1>6. StoreType(t)
  BY <1>3, <1>4 DEF StoreType
<1> QED
  BY <1>3, <1>4, <1>5, <1>6

\* What SavePort does to the store.
LEMMA PortSaved ==
  ASSUME NEW s, StoreType(s), NEW p \in Ports, NEW now \in Time,
         NEW t, t = SavePort(s, Domain, p, now)
  PROVE  /\ StoreType(t)
         /\ t.assets = s.assets /\ t.services = s.services
         /\ DOMAIN t.ports = DOMAIN s.ports \cup {<<Domain, p>>}
         /\ t.ports[<<Domain, p>>].last = now
         /\ \A k \in DOMAIN s.ports : k # <<Domain, p>> => t.ports[k] = s.ports[k]
<1> DEFINE row == [first |-> FirstSeen(s.ports, <<Domain, p>>, now), last |-> now]
           u == Upsert(s.ports, <<Domain, p>>, row)
<1>1. /\ IsTable(s.ports, {Domain} \X Ports, Stamp(Time))
      /\ \A r \in Stamp(Time) : r.first \in Time
  BY DEF StoreType, Stamp
<1>2. row \in Stamp(Time)
  BY <1>1, FirstSeenTime DEF Stamp
<1>3. /\ IsTable(u, {Domain} \X Ports, Stamp(Time))
      /\ DOMAIN u = DOMAIN s.ports \cup {<<Domain, p>>}
      /\ u[<<Domain, p>>] = row
      /\ \A k \in DOMAIN s.ports : k # <<Domain, p>> => u[k] = s.ports[k]
  <2>1. IsTable(u, {Domain} \X Ports, Stamp(Time))
    BY <1>1, <1>2, UpsertTable
  <2> QED
    BY <2>1 DEF Upsert
<1>4. t = [assets |-> s.assets, ports |-> u, services |-> s.services, buckets |-> s.buckets]
  BY DEF SavePort, StoreType
<1>5. StoreType(t)
  BY <1>3, <1>4 DEF StoreType
<1>6. row.last = now
  OBVIOUS
<1> QED
  BY <1>3, <1>4, <1>5, <1>6

\* What SaveService does to the store.
LEMMA ServiceSaved ==
  ASSUME NEW s, StoreType(s), NEW p \in Ports, NEW svc \in Services, NEW now \in Time,
         ServiceHasPort(s, Domain, p), NEW t, t = SaveService(s, Domain, p, svc, now)
  PROVE  /\ StoreType(t)
         /\ t.assets = s.assets /\ t.ports = s.ports
         /\ DOMAIN t.services = DOMAIN s.services \cup {<<Domain, p>>}
         /\ t.services[<<Domain, p>>].last = now
         /\ \A k \in DOMAIN s.services : k # <<Domain, p>> => t.services[k] = s.services[k]
<1> DEFINE R == ServiceRows(Services, Time)
           row == [svc |-> svc, first |-> FirstSeen(s.services, <<Domain, p>>, now), last |-> now]
           u == Upsert(s.services, <<Domain, p>>, row)
<1>1. IsTable(s.services, {Domain} \X Ports, R) /\ \A r \in R : r.first \in Time
  BY DEF StoreType, ServiceRows
<1>2. row \in R
  <2>1. FirstSeen(s.services, <<Domain, p>>, now) \in Time
    BY <1>1, FirstSeenTime
  <2> QED
    BY <2>1 DEF ServiceRows
<1>3. /\ IsTable(u, {Domain} \X Ports, R)
      /\ DOMAIN u = DOMAIN s.services \cup {<<Domain, p>>}
      /\ u[<<Domain, p>>] = row
      /\ \A k \in DOMAIN s.services : k # <<Domain, p>> => u[k] = s.services[k]
  <2>1. IsTable(u, {Domain} \X Ports, R)
    BY <1>1, <1>2, UpsertTable
  <2> QED
    BY <2>1 DEF Upsert
<1>4. t = [assets |-> s.assets, ports |-> s.ports, services |-> u, buckets |-> s.buckets]
  BY DEF SaveService, StoreType
<1>5. StoreType(t)
  BY <1>3, <1>4 DEF StoreType, ServiceHasPort
<1>6. row.last = now
  OBVIOUS
<1> QED
  BY <1>3, <1>4, <1>5, <1>6

\* What is read of a well-formed store has the type of what a scan finds.
LEMMA HistoryRead ==
  ASSUME NEW s, StoreType(s)
  PROVE  /\ FindPorts(s, Domain) = {p \in Ports : <<Domain, p>> \in DOMAIN s.ports}
         /\ IsTable(FindServices(s, Domain), Ports, Services)
         /\ DOMAIN FindServices(s, Domain) = {p \in Ports : <<Domain, p>> \in DOMAIN s.services}
         /\ \A p \in Ports : <<Domain, p>> \in DOMAIN s.services =>
              FindServices(s, Domain)[p] = s.services[<<Domain, p>>].svc
<1>1. DOMAIN s.ports \subseteq {Domain} \X Ports /\ DOMAIN s.services \subseteq {Domain} \X Ports
  BY DEF StoreType, IsTable
<1>2. FindPorts(s, Domain) = {p \in Ports : <<Domain, p>> \in DOMAIN s.ports}
  BY <1>1 DEF FindPorts
<1> DEFINE P == { k[2] : k \in { x \in DOMAIN s.services : x[1] = Domain } }
<1>3. P = {p \in Ports : <<Domain, p>> \in DOMAIN s.services}
  BY <1>1
<1>4. \A k \in DOMAIN s.services : s.services[k].svc \in Services
  BY DEF StoreType, IsTable, ServiceRows
<1>5. FindServices(s, Domain) = [p \in P |-> s.services[<<Domain, p>>].svc]
  BY DEF FindServices
<1>6. \A p \in P : FindServices(s, Domain)[p] \in Services
  BY <1>3, <1>4, <1>5
<1>7. IsTable(FindServices(s, Domain), Ports, Services)
  BY <1>3, <1>5, <1>6 DEF IsTable
<1> QED
  BY <1>2, <1>3, <1>5, <1>7

----------------------------------------------------------------------------
(* Types.                                                                  *)

\* The part of TypeOK that is about the clients.
ClientsType ==
  /\ pc \in [Client -> {"idle", "asset", "saveAsset", "scan", "ports", "services", "port", "savePort",
                        "banner", "saveService", "done"}]
  /\ stamp \in [Client -> Time]
  /\ loaded \in [Client -> BOOLEAN] /\ overtaken \in [Client -> BOOLEAN]
  /\ open \in [Client -> SUBSET Ports] /\ rest \in [Client -> SUBSET Ports]
  /\ between \in [Client -> SUBSET Ports] /\ sinceLoad \in [Client -> SUBSET Ports]
  /\ inserted \in [Client -> SUBSET Ports] /\ replaced \in [Client -> SUBSET Ports]
  /\ history = [c \in Client |-> history[c]] /\ services = [c \in Client |-> services[c]]
  /\ report = [c \in Client |-> report[c]]

\* The part that relates a client's variables.
ClientType(c) ==
  /\ stamp[c] <= clock
  /\ rest[c] \subseteq open[c]
  /\ history[c] = [ports |-> history[c].ports, services |-> history[c].services]
  /\ history[c].ports \subseteq Ports
  /\ IsTable(history[c].services, Ports, Services)
  /\ IsTable(services[c], Ports, Services)

LEMMA TypeParts ==
  TypeOK <=> StoreType(db) /\ clock \in Time /\ ClientsType /\ \A c \in Client : ClientType(c)
  BY DEF TypeOK, ClientsType, ClientType

\* A table without keys.
LEMMA EmptyTable ==
  ASSUME NEW K, NEW R
  PROVE  IsTable([k \in {} |-> 0], K, R)
  BY DEF IsTable

\* What an executed statement does to the variables of the properties.
LEMMA WroteType ==
  ASSUME ClientsType, clock \in Nat, \A c \in Client : ClientType(c),
         NEW a \in Client, NEW table, NEW p, Wrote(a, table, p), table \in {"ports", "services"} => p \in Ports
  PROVE  /\ stamp' \in [Client -> Time] /\ overtaken' \in [Client -> BOOLEAN]
         /\ between' \in [Client -> SUBSET Ports] /\ sinceLoad' \in [Client -> SUBSET Ports]
         /\ \A c \in Client : stamp'[c] <= clock
<1>1. stamp' = [stamp EXCEPT ![a] = 0] /\ 0 \in Time
  BY ClientsAssumption DEF Wrote, Set, NoTime, Time
<1>2. stamp' \in [Client -> Time] /\ \A c \in Client : stamp'[c] <= clock
  BY <1>1 DEF ClientsType, ClientType
<1>3. between' \in [Client -> SUBSET Ports] /\ sinceLoad' \in [Client -> SUBSET Ports]
  BY DEF Wrote, ClientsType
<1>4. overtaken' \in [Client -> BOOLEAN]
  <2> DEFINE F(o) == o # a /\ (overtaken[o] \/ Saving(o, table, p))
  <2>1. overtaken' = [o \in Client |-> F(o)]
    BY DEF Wrote
  <2>2. \A o \in Client : F(o) \in BOOLEAN
    OBVIOUS
  <2> HIDE DEF F
  <2> QED
    BY <2>1, <2>2
<1> QED
  BY <1>2, <1>3, <1>4

\* So does a refused one.
LEMMA RefusedType ==
  ASSUME ClientsType, clock \in Nat, \A c \in Client : ClientType(c), NEW a \in Client, Refused(a)
  PROVE  /\ stamp' \in [Client -> Time] /\ overtaken' \in [Client -> BOOLEAN]
         /\ \A c \in Client : stamp'[c] <= clock
         /\ UNCHANGED <<db, between, sinceLoad, inserted, replaced>>
  BY ClientsAssumption DEF Refused, Set, NoTime, Time, ClientsType, ClientType, ghosts

LEMMA InitType == Init => TypeOK
<1> SUFFICES ASSUME Init PROVE TypeOK
  OBVIOUS
<1>1. StoreType(db)
  BY EmptyTable DEF Init, EmptyStore, StoreType
<1>2. clock \in Time /\ 0 \in Time
  BY ClientsAssumption DEF Init, Time, NoTime
<1>3. ClientsType
  BY <1>2 DEF Init, Each, ClientsType, NoTime
<1>4. \A c \in Client : ClientType(c)
  BY EmptyTable DEF Init, Each, ClientType, NoTime, NoHistory
<1> QED
  BY <1>1, <1>2, <1>3, <1>4, TypeParts

\* Every step keeps the types; a saved service is one that was identified.
LEMMA TypeStep ==
  ASSUME TypeOK, \A c \in Client : PlaceInv(c), [Next]_vars
  PROVE  TypeOK'
<1> USE DEF store, scan, ghosts
<1>0. /\ StoreType(db) /\ clock \in Time /\ clock \in Nat
      /\ ClientsType /\ \A c \in Client : ClientType(c)
  BY TypeParts, ClientsAssumption DEF Time
<1>1. CASE Tick
  <2>1. clock' \in Time /\ clock <= clock'
    BY <1>0, <1>1, ClientsAssumption DEF Tick, Time
  <2>2. UNCHANGED <<db, pc, stamp, loaded, overtaken, open, rest, between, sinceLoad,
                    inserted, replaced, history, services, report>>
    BY <1>1 DEF Tick
  <2>3. \A c \in Client : stamp[c] \in Nat
    BY <1>0, ClientsAssumption DEF ClientsType, Time
  <2>4. \A c \in Client : ClientType(c)'
    BY <1>0, <2>1, <2>2, <2>3, ClientsAssumption DEF ClientType, Time
  <2> QED
    BY <1>0, <2>1, <2>2, <2>4 DEF TypeOK, ClientsType, ClientType
<1>2. CASE UNCHANGED vars
  BY <1>2 DEF vars, TypeOK
<1>3. ASSUME NEW a \in Client, Step(a)
      PROVE  TypeOK'
  <2>1. CASE BeginScan(a)
    <3>1. UNCHANGED <<db, clock, stamp, open, rest, overtaken, history, services>>
      BY <2>1 DEF BeginScan
    <3>2. ClientsType'
      BY <1>0, <2>1 DEF BeginScan, ClientsType, Set
    <3>3. \A c \in Client : ClientType(c)'
      BY <1>0, <3>1 DEF ClientType
    <3> QED
      BY <1>0, <3>1, <3>2, <3>3 DEF TypeOK, ClientsType, ClientType
  <2>2. CASE \E from, to \in {"asset", "saveAsset", "port", "savePort"} :
               Call(a, from, to) /\ UNCHANGED <<store, scan, ghosts>>
    <3>1. UNCHANGED <<db, clock, loaded, open, rest, history, services, report, ghosts>>
      BY <2>2
    <3>2. ClientsType'
      BY <1>0, <2>2 DEF Call, ClientsType, Set
    <3>3. \A c \in Client : ClientType(c)'
      BY <1>0, <2>2, <3>1 DEF ClientType, Call, Set, ClientsType
    <3> QED
      BY <1>0, <3>1, <3>2, <3>3 DEF TypeOK, ClientsType, ClientType
  <2>3. CASE ExecSaveAsset(a)
    <3>1. UNCHANGED <<clock, loaded, open, rest, history, services, report, inserted, replaced>>
      BY <2>3 DEF ExecSaveAsset, Refused
    <3>2. StoreType(db')
      BY <1>0, <2>3, AssetSaved DEF ExecSaveAsset, Refused, ClientsType
    <3>3. /\ stamp' \in [Client -> Time] /\ overtaken' \in [Client -> BOOLEAN]
          /\ between' \in [Client -> SUBSET Ports] /\ sinceLoad' \in [Client -> SUBSET Ports]
          /\ \A c \in Client : stamp'[c] <= clock
      <4>1. CASE Wrote(a, "assets", NoPort)
        BY <1>0, <4>1, WroteType
      <4>2. CASE Refused(a)
        BY <1>0, <4>2, RefusedType DEF ClientsType
      <4> QED
        BY <2>3, <4>1, <4>2 DEF ExecSaveAsset
    <3>4. pc' \in [Client -> {"idle", "asset", "saveAsset", "scan", "ports", "services", "port",
                              "savePort", "banner", "saveService", "done"}]
      BY <1>0, <2>3 DEF ExecSaveAsset, ClientsType, Set
    <3>5. ClientsType' /\ \A c \in Client : ClientType(c)'
      BY <1>0, <3>1, <3>3, <3>4 DEF ClientsType, ClientType
    <3> QED
      BY <1>0, <3>1, <3>2, <3>5 DEF TypeOK, ClientsType, ClientType
  <2>4. CASE ExecSavePort(a)
    <3>0. PICK p \in rest[a] :
            \/ /\ db' = SavePort(db, Domain, p, stamp[a])
               /\ Wrote(a, "ports", p)
               /\ inserted' = IF <<Domain, p>> \in DOMAIN db.ports THEN inserted
                              ELSE Set(inserted, a, inserted[a] \cup {p})
               /\ UNCHANGED replaced
            \/ Refused(a)
      BY <2>4 DEF ExecSavePort
    <3>1. UNCHANGED <<clock, loaded, open, rest, history, services, report>> /\ p \in Ports
      BY <1>0, <2>4 DEF ExecSavePort, ClientsType
    <3>2. StoreType(db')
      <4>1. stamp[a] \in Time
        BY <1>0 DEF ClientsType
      <4>2. db' = db \/ db' = SavePort(db, Domain, p, stamp[a])
        BY <3>0 DEF Refused
      <4> QED
        BY <1>0, <3>1, <4>1, <4>2, PortSaved
    <3>3. /\ stamp' \in [Client -> Time] /\ overtaken' \in [Client -> BOOLEAN]
          /\ between' \in [Client -> SUBSET Ports] /\ sinceLoad' \in [Client -> SUBSET Ports]
          /\ \A c \in Client : stamp'[c] <= clock
      <4>1. CASE Wrote(a, "ports", p)
        BY <1>0, <3>1, <4>1, WroteType
      <4>2. CASE Refused(a)
        BY <1>0, <4>2, RefusedType DEF ClientsType
      <4> QED
        BY <3>0, <4>1, <4>2
    <3>4. pc' \in [Client -> {"idle", "asset", "saveAsset", "scan", "ports", "services", "port",
                              "savePort", "banner", "saveService", "done"}]
      BY <1>0, <2>4 DEF ExecSavePort, ClientsType, Set
    <3>6. inserted' \in [Client -> SUBSET Ports] /\ replaced' = replaced
      BY <1>0, <3>0, <3>1 DEF Refused, ClientsType, Set
    <3>5. ClientsType' /\ \A c \in Client : ClientType(c)'
      BY <1>0, <3>1, <3>3, <3>4, <3>6 DEF ClientsType, ClientType
    <3> QED
      BY <1>0, <3>1, <3>2, <3>5 DEF TypeOK, ClientsType, ClientType
  <2>5. CASE NoService(a)
    <3>1. UNCHANGED <<db, clock, stamp, loaded, overtaken, open, history, services, report, ghosts>>
      BY <2>5 DEF NoService
    <3>2. ClientsType' /\ \A c \in Client : rest'[c] \subseteq rest[c]
      BY <1>0, <2>5 DEF NoService, ClientsType, Set
    <3>3. \A c \in Client : ClientType(c)'
      BY <1>0, <3>1, <3>2 DEF ClientType
    <3> QED
      BY <1>0, <3>1, <3>2, <3>3 DEF TypeOK, ClientsType, ClientType
  <2>6. CASE CallSaveService(a)
    <3>1. PICK p \in rest[a], svc \in Services :
            services' = Set(services, a, Upsert(services[a], p, svc))
      BY <2>6 DEF CallSaveService
    <3>2. UNCHANGED <<db, clock, loaded, open, rest, history, report, ghosts>> /\ p \in Ports
      BY <1>0, <2>6 DEF CallSaveService, ClientsType
    <3>3. IsTable(Upsert(services[a], p, svc), Ports, Services)
      BY <1>0, <3>2, UpsertTable DEF ClientType
    <3>4. ClientsType'
      BY <1>0, <2>6, <3>1, <3>2 DEF CallSaveService, Call, ClientsType, Set
    <3>5. \A c \in Client : /\ IsTable(services'[c], Ports, Services)
                            /\ stamp'[c] <= clock
      BY <1>0, <2>6, <3>1, <3>3 DEF CallSaveService, Call, ClientType, ClientsType, Set
    <3>6. \A c \in Client : ClientType(c)'
      BY <1>0, <3>2, <3>5 DEF ClientType
    <3> QED
      BY <1>0, <3>2, <3>4, <3>6 DEF TypeOK, ClientsType, ClientType
  <2>7. CASE ExecSaveService(a)
    <3>0. PICK p \in rest[a] :
            /\ Current(a, p)
            /\ rest' = Set(rest, a, rest[a] \ {p})
            /\ \/ /\ ServiceHasPort(db, Domain, p)
                  /\ db' = SaveService(db, Domain, p, services[a][p], stamp[a])
                  /\ Wrote(a, "services", p)
                  /\ replaced' = IF Replaces(p, services[a][p])
                                 THEN Set(replaced, a, replaced[a] \cup {p}) ELSE replaced
                  /\ UNCHANGED inserted
               \/ Refused(a)
      BY <2>7 DEF ExecSaveService
    <3>1. UNCHANGED <<clock, loaded, open, history, services, report>> /\ p \in Ports
      BY <1>0, <2>7 DEF ExecSaveService, ClientsType
    <3>7. services[a][p] \in Services
      BY <1>0, <2>7, <3>0 DEF ExecSaveService, PlaceInv, ClientType, IsTable
    <3>2. StoreType(db')
      <4>1. stamp[a] \in Time
        BY <1>0 DEF ClientsType
      <4>2. db' = db \/ (ServiceHasPort(db, Domain, p)
                         /\ db' = SaveService(db, Domain, p, services[a][p], stamp[a]))
        BY <3>0 DEF Refused
      <4> QED
        BY <1>0, <3>1, <3>7, <4>1, <4>2, ServiceSaved
    <3>3. /\ stamp' \in [Client -> Time] /\ overtaken' \in [Client -> BOOLEAN]
          /\ between' \in [Client -> SUBSET Ports] /\ sinceLoad' \in [Client -> SUBSET Ports]
          /\ \A c \in Client : stamp'[c] <= clock
      <4>1. CASE Wrote(a, "services", p)
        BY <1>0, <3>1, <4>1, WroteType
      <4>2. CASE Refused(a)
        BY <1>0, <4>2, RefusedType DEF ClientsType
      <4> QED
        BY <3>0, <4>1, <4>2
    <3>4. pc' \in [Client -> {"idle", "asset", "saveAsset", "scan", "ports", "services", "port",
                              "savePort", "banner", "saveService", "done"}]
      BY <1>0, <2>7 DEF ExecSaveService, ClientsType, Set
    <3>6. /\ replaced' \in [Client -> SUBSET Ports] /\ inserted' = inserted
          /\ rest' \in [Client -> SUBSET Ports] /\ \A c \in Client : rest'[c] \subseteq rest[c]
      BY <1>0, <3>0, <3>1 DEF Refused, ClientsType, Set
    <3>5. ClientsType' /\ \A c \in Client : ClientType(c)'
      BY <1>0, <3>1, <3>3, <3>4, <3>6 DEF ClientsType, ClientType
    <3> QED
      BY <1>0, <3>1, <3>2, <3>5 DEF TypeOK, ClientsType, ClientType
  <2>8. CASE ScanPorts(a)
    <3>1. UNCHANGED <<db, clock, stamp, loaded, overtaken, history, services, report, ghosts>>
      BY <2>8 DEF ScanPorts
    <3>2. ClientsType' /\ \A c \in Client : rest'[c] \subseteq open'[c]
      BY <1>0, <2>8 DEF ScanPorts, ClientsType, ClientType, Set
    <3>3. \A c \in Client : ClientType(c)'
      BY <1>0, <3>1, <3>2 DEF ClientType
    <3> QED
      BY <1>0, <3>1, <3>2, <3>3 DEF TypeOK, ClientsType, ClientType
  <2>9. CASE ReadPorts(a) \/ ReadServices(a) \/ ReadFails(a)
    <3>1. UNCHANGED <<db, clock, stamp, overtaken, open, rest, services, report, ghosts>>
      BY <2>9 DEF ReadPorts, ReadServices, ReadFails
    <3>2. ClientsType'
      BY <1>0, <2>9 DEF ReadPorts, ReadServices, ReadFails, ClientsType, Set
    <3>3. /\ history'[a] = [ports |-> history'[a].ports, services |-> history'[a].services]
          /\ history'[a].ports \subseteq Ports
          /\ IsTable(history'[a].services, Ports, Services)
      <4>1. CASE ReadPorts(a)
        <5>1. FindPorts(db, Domain) \subseteq Ports
          BY <1>0, HistoryRead
        <5>2. history'[a] = [history[a] EXCEPT !.ports = FindPorts(db, Domain)]
          BY <1>0, <4>1 DEF ReadPorts, Set, ClientsType
        <5> QED
          BY <1>0, <5>1, <5>2 DEF ClientType
      <4>2. CASE ReadServices(a)
        <5>1. IsTable(FindServices(db, Domain), Ports, Services)
          BY <1>0, HistoryRead
        <5>2. history'[a] = [history[a] EXCEPT !.services = FindServices(db, Domain)]
          BY <1>0, <4>2 DEF ReadServices, Set, ClientsType
        <5>3. /\ history'[a].ports = history[a].ports
              /\ history'[a].services = FindServices(db, Domain)
              /\ history'[a] = [ports |-> history'[a].ports, services |-> history'[a].services]
          BY <1>0, <5>2 DEF ClientType
        <5> QED
          BY <1>0, <5>1, <5>3 DEF ClientType
      <4>3. CASE ReadFails(a)
        <5>1. history'[a] = NoHistory
          BY <1>0, <4>3 DEF ReadFails, Set, ClientsType
        <5> QED
          BY <5>1, EmptyTable DEF NoHistory
      <4> QED
        BY <2>9, <4>1, <4>2, <4>3
    <3>4. \A c \in Client : c # a => history'[c] = history[c]
      BY <1>0, <2>9 DEF ReadPorts, ReadServices, ReadFails, ClientsType, Set
    <3>5. \A c \in Client : ClientType(c)'
      BY <1>0, <3>1, <3>3, <3>4 DEF ClientType
    <3> QED
      BY <1>0, <3>1, <3>2, <3>5 DEF TypeOK, ClientsType, ClientType
  <2>10. CASE Finish(a)
    <3>1. UNCHANGED <<db, clock, stamp, loaded, overtaken, rest, ghosts>> /\ rest[a] = {}
      BY <2>10 DEF Finish, Report
    <3>2. ClientsType'
      BY <1>0, <2>10 DEF Finish, Report, ClientsType, Set
    <3>3. \A c \in Client : ClientType(c)'
      BY <1>0, <2>10, <3>1, EmptyTable DEF Finish, Report, ClientsType, ClientType, Set, NoHistory
    <3> QED
      BY <1>0, <3>1, <3>2, <3>3 DEF TypeOK, ClientsType, ClientType
  <2> QED
    BY <1>3, <2>1, <2>2, <2>3, <2>4, <2>5, <2>6, <2>7, <2>8, <2>9, <2>10
    DEF Step, CallSaveAsset, CallSavePort
<1> QED
  BY <1>1, <1>2, <1>3 DEF Next

----------------------------------------------------------------------------
(* What a client sees of the others.                                       *)

\* Others are overtaken by a write of what they are saving.
LEMMA Overtaking ==
  ASSUME NEW a \in Client, NEW c \in Client, c # a, NEW table, NEW p, Wrote(a, table, p)
  PROVE  /\ overtaken[c] \/ Saving(c, table, p) => overtaken'[c]
         /\ between'[c] = IF pc[c] = "services" /\ table = "ports" THEN between[c] \cup {p}
                          ELSE between[c]
         /\ sinceLoad'[c] = IF loaded[c] /\ pc[c] # "done" /\ table = "services"
                            THEN sinceLoad[c] \cup {p} ELSE sinceLoad[c]
<1>1. overtaken' = [o \in Client |-> o # a /\ (overtaken[o] \/ Saving(o, table, p))]
  BY DEF Wrote
<1>2. overtaken'[c] = (c # a /\ (overtaken[c] \/ Saving(c, table, p)))
  BY <1>1
<1>3. overtaken[c] \/ Saving(c, table, p) => overtaken'[c]
  BY <1>2
<1>4. /\ between'[c] = IF c # a /\ pc[c] = "services" /\ table = "ports" THEN between[c] \cup {p}
                       ELSE between[c]
      /\ sinceLoad'[c] = IF c # a /\ loaded[c] /\ pc[c] # "done" /\ table = "services"
                         THEN sinceLoad[c] \cup {p} ELSE sinceLoad[c]
  BY DEF Wrote
<1> QED
  BY <1>3, <1>4

\* The writer's own account.
LEMMA WriterKeeps ==
  ASSUME ClientsType, NEW a \in Client, NEW table, NEW p, Wrote(a, table, p)
  PROVE  between'[a] = between[a] /\ sinceLoad'[a] = sinceLoad[a]
  BY DEF Wrote

\* Rows of t other than k are those of s.
OnlyRow(t, u, k) ==
  /\ DOMAIN u = DOMAIN t \cup {k}
  /\ \A x \in DOMAIN t : x # k => u[x] = t[x]

\* The possible effects of a's step on the store, and on c beside it.
NoWrite(c) ==
  /\ db' = db
  /\ overtaken'[c] = overtaken[c] /\ between'[c] = between[c] /\ sinceLoad'[c] = sinceLoad[c]

AssetWritten(a, c) ==
  /\ \A k \in DOMAIN db'.assets : k = Domain /\ db'.assets[k].last = stamp[a]
  /\ db'.ports = db.ports /\ db'.services = db.services
  /\ overtaken[c] \/ pc[c] = "saveAsset" => overtaken'[c]
  /\ between'[c] = between[c] /\ sinceLoad'[c] = sinceLoad[c]

PortWritten(a, c, p) ==
  /\ db'.assets = db.assets /\ db'.services = db.services
  /\ OnlyRow(db.ports, db'.ports, <<Domain, p>>)
  /\ db'.ports[<<Domain, p>>].last = stamp[a]
  /\ overtaken[c] \/ (pc[c] = "savePort" /\ Current(c, p)) => overtaken'[c]
  /\ between'[c] = IF pc[c] = "services" THEN between[c] \cup {p} ELSE between[c]
  /\ sinceLoad'[c] = sinceLoad[c]

ServiceWritten(a, c, p) ==
  /\ db'.assets = db.assets /\ db'.ports = db.ports
  /\ OnlyRow(db.services, db'.services, <<Domain, p>>)
  /\ db'.services[<<Domain, p>>].last = stamp[a]
  /\ overtaken[c] \/ (pc[c] = "saveService" /\ Current(c, p)) => overtaken'[c]
  /\ between'[c] = between[c]
  /\ sinceLoad'[c] = IF loaded[c] /\ pc[c] # "done" THEN sinceLoad[c] \cup {p} ELSE sinceLoad[c]

Effect(a, c) ==
  \/ NoWrite(c)
  \/ AssetWritten(a, c)
  \/ \E p \in Ports : PortWritten(a, c, p)
  \/ \E p \in Ports : ServiceWritten(a, c, p)

\* What another client's step leaves alone.
Aside(c) ==
  /\ pc'[c] = pc[c] /\ stamp'[c] = stamp[c] /\ history'[c] = history[c] /\ loaded'[c] = loaded[c]
  /\ open'[c] = open[c] /\ rest'[c] = rest[c] /\ services'[c] = services[c]
  /\ report'[c] = report[c] /\ inserted'[c] = inserted[c] /\ replaced'[c] = replaced[c]

LEMMA OthersStep ==
  ASSUME TypeOK, \A c \in Client : PlaceInv(c), NEW a \in Client, Step(a), NEW c \in Client, c # a
  PROVE  Aside(c) /\ clock' = clock /\ Effect(a, c)
<1> USE DEF store, scan, ghosts
<1>0. /\ StoreType(db) /\ ClientsType /\ stamp[a] \in Time /\ rest[a] \subseteq Ports
      /\ ClientType(a) /\ rest[c] \in SUBSET Ports
  BY TypeParts DEF ClientsType
<1>1. CASE \/ BeginScan(a) \/ CallSaveAsset(a) \/ CallSavePort(a) \/ NoService(a)
           \/ CallSaveService(a) \/ ScanPorts(a) \/ ReadPorts(a) \/ ReadServices(a)
           \/ ReadFails(a) \/ Finish(a)
  <2>1. Aside(c) /\ clock' = clock
    BY <1>0, <1>1
    DEF BeginScan, CallSaveAsset, CallSavePort, NoService, CallSaveService, ScanPorts,
        ReadPorts, ReadServices, ReadFails, Finish, Report, Call, Aside, Set, ClientsType
  <2>2. NoWrite(c)
    BY <1>0, <1>1
    DEF BeginScan, CallSaveAsset, CallSavePort, NoService, CallSaveService, ScanPorts,
        ReadPorts, ReadServices, ReadFails, Finish, Report, Call, NoWrite, Set, ClientsType
  <2> QED
    BY <2>1, <2>2 DEF Effect
<1>2. ASSUME Refused(a), pc' = Set(pc, a, pc'[a]), rest' = Set(rest, a, rest'[a]),
             UNCHANGED <<clock, scans, history, loaded, open, services, report>>
      PROVE  Aside(c) /\ clock' = clock /\ Effect(a, c)
  <2>1. Aside(c) /\ clock' = clock
    BY <1>0, <1>2 DEF Refused, Aside, Set, ClientsType
  <2>2. NoWrite(c)
    BY <1>0, <1>2 DEF Refused, NoWrite, Set, ClientsType
  <2> QED
    BY <2>1, <2>2 DEF Effect
<1>3. CASE ExecSaveAsset(a)
  <2>1. pc' = Set(pc, a, pc'[a]) /\ rest' = Set(rest, a, rest'[a])
    BY <1>0, <1>3 DEF ExecSaveAsset, Set, ClientsType
  <2>2. CASE db' = SaveAsset(db, Domain, stamp[a]) /\ Wrote(a, "assets", NoPort)
             /\ UNCHANGED <<inserted, replaced>>
    <3>1. Aside(c) /\ clock' = clock
      BY <1>0, <1>3, <2>1, <2>2 DEF ExecSaveAsset, Wrote, Aside, Set, ClientsType
    <3>2. /\ \A k \in DOMAIN db'.assets : k = Domain /\ db'.assets[k].last = stamp[a]
          /\ db'.ports = db.ports /\ db'.services = db.services
      BY <1>0, <2>2, AssetSaved
    <3>3. AssetWritten(a, c)
      <4>1. /\ overtaken[c] \/ Saving(c, "assets", NoPort) => overtaken'[c]
            /\ between'[c] = between[c] /\ sinceLoad'[c] = sinceLoad[c]
        <5>1. Wrote(a, "assets", NoPort)
          BY <2>2
        <5>2. overtaken[c] \/ Saving(c, "assets", NoPort) => overtaken'[c]
          BY <5>1, Overtaking, Zenon
        <5>3. between'[c] = between[c] /\ sinceLoad'[c] = sinceLoad[c]
          BY <5>1 DEF Wrote
        <5> QED
          BY <5>2, <5>3
      <4>2. pc[c] = "saveAsset" => Saving(c, "assets", NoPort)
        BY DEF Saving
      <4> QED
        BY <3>2, <4>1, <4>2 DEF AssetWritten
    <3> QED
      BY <3>1, <3>3 DEF Effect
  <2>3. CASE Refused(a)
    BY <1>2, <1>3, <2>1, <2>3 DEF ExecSaveAsset
  <2> QED
    BY <1>3, <2>2, <2>3 DEF ExecSaveAsset
<1>4. CASE ExecSavePort(a)
  <2>1. pc' = Set(pc, a, pc'[a]) /\ rest' = Set(rest, a, rest'[a])
    BY <1>0, <1>4 DEF ExecSavePort, Set, ClientsType
  <2>2. ASSUME NEW p \in Ports, db' = SavePort(db, Domain, p, stamp[a]), Wrote(a, "ports", p),
               \A o \in Client : o # a => inserted'[o] = inserted[o], UNCHANGED replaced
        PROVE  Aside(c) /\ clock' = clock /\ Effect(a, c)
    <3>1. Aside(c) /\ clock' = clock
      BY <1>0, <1>4, <2>1, <2>2 DEF ExecSavePort, Wrote, Aside, Set, ClientsType
    <3>2. /\ db'.assets = db.assets /\ db'.services = db.services
          /\ OnlyRow(db.ports, db'.ports, <<Domain, p>>)
          /\ db'.ports[<<Domain, p>>].last = stamp[a]
      BY <1>0, <2>2, PortSaved DEF OnlyRow
    <3>3. PortWritten(a, c, p)
      BY <2>2, <3>2, Overtaking DEF PortWritten, Saving
    <3> QED
      BY <3>1, <3>3 DEF Effect
  <2>3. CASE Refused(a)
    BY <1>2, <1>4, <2>1, <2>3 DEF ExecSavePort
  <2> QED
    BY <1>0, <1>4, <2>2, <2>3 DEF ExecSavePort, Set, ClientsType
<1>5. CASE ExecSaveService(a)
  <2>1. pc' = Set(pc, a, pc'[a]) /\ rest' = Set(rest, a, rest'[a])
    BY <1>0, <1>5 DEF ExecSaveService, Set, ClientsType
  <2>2. ASSUME NEW p \in rest[a], Current(a, p), ServiceHasPort(db, Domain, p),
               db' = SaveService(db, Domain, p, services[a][p], stamp[a]), Wrote(a, "services", p),
               \A o \in Client : o # a => replaced'[o] = replaced[o], UNCHANGED inserted
        PROVE  Aside(c) /\ clock' = clock /\ Effect(a, c)
    <3>1. Aside(c) /\ clock' = clock
      BY <1>0, <1>5, <2>1, <2>2 DEF ExecSaveService, Wrote, Aside, Set, ClientsType
    <3>0. services[a][p] \in Services /\ p \in Ports
      BY <1>0, <1>5, <2>2 DEF ExecSaveService, PlaceInv, ClientType, IsTable
    <3>2. /\ db'.assets = db.assets /\ db'.ports = db.ports
          /\ OnlyRow(db.services, db'.services, <<Domain, p>>)
          /\ db'.services[<<Domain, p>>].last = stamp[a]
      BY <1>0, <2>2, <3>0, ServiceSaved DEF OnlyRow
    <3>3. ServiceWritten(a, c, p)
      BY <2>2, <3>2, Overtaking DEF ServiceWritten, Saving
    <3> QED
      BY <3>0, <3>1, <3>3 DEF Effect
  <2>3. CASE Refused(a)
    BY <1>2, <1>5, <2>1, <2>3 DEF ExecSaveService
  <2> QED
    BY <1>0, <1>5, <2>2, <2>3 DEF ExecSaveService, Set, ClientsType
<1> QED
  BY <1>1, <1>3, <1>4, <1>5 DEF Step

\* Another client's step keeps a client's invariant.
LEMMA OthersInv ==
  ASSUME TypeOK, TypeOK', NEW a \in Client, NEW c \in Client, c # a,
         ClientInv(c), Aside(c), Effect(a, c), stamp[a] <= clock
  PROVE  ClientInv(c)'
<1>0. /\ rest[c] \subseteq Ports /\ open[c] \subseteq Ports /\ history[c].ports \subseteq Ports
      /\ DOMAIN db.ports \subseteq {Domain} \X Ports /\ DOMAIN db.services \subseteq {Domain} \X Ports
  BY DEF TypeOK, StoreType, IsTable
<1>1. PlaceInv(c)'
  BY DEF ClientInv, PlaceInv, Aside, Current
<1>2. StampInv(c)'
  <2>1. CASE NoWrite(c)
    BY <2>1 DEF ClientInv, StampInv, Aside, NoWrite, Current
  <2>2. CASE AssetWritten(a, c)
    BY <2>2 DEF ClientInv, StampInv, Aside, AssetWritten, Current
  <2>3. ASSUME NEW p \in Ports, PortWritten(a, c, p)
        PROVE  StampInv(c)'
    BY <2>3 DEF ClientInv, StampInv, Aside, PortWritten, OnlyRow, Current
  <2>4. ASSUME NEW p \in Ports, ServiceWritten(a, c, p)
        PROVE  StampInv(c)'
    BY <2>4 DEF ClientInv, StampInv, Aside, ServiceWritten, OnlyRow, Current
  <2> QED
    BY <2>1, <2>2, <2>3, <2>4 DEF Effect
<1>3. FreshInv(c)'
  BY DEF ClientInv, FreshInv, Aside
<1>4. DOMAIN db.ports \subseteq DOMAIN db'.ports
  BY DEF Effect, NoWrite, AssetWritten, PortWritten, ServiceWritten, OnlyRow
<1>5. FirstInv(c)'
  BY <1>4 DEF ClientInv, FirstInv, Aside
<1>6. MixedInv(c)'
  <2>1. between[c] \subseteq between'[c]
    BY DEF Effect, NoWrite, AssetWritten, PortWritten, ServiceWritten
  <2>2. pc[c] = "services" =>
          \A p \in Ports : <<Domain, p>> \in DOMAIN db'.ports =>
            <<Domain, p>> \in DOMAIN db.ports \/ p \in between'[c]
    <3>1. CASE NoWrite(c) \/ AssetWritten(a, c) \/ \E q \in Ports : ServiceWritten(a, c, q)
      BY <3>1 DEF NoWrite, AssetWritten, ServiceWritten
    <3>2. ASSUME NEW q \in Ports, PortWritten(a, c, q), pc[c] = "services",
                 NEW p \in Ports, <<Domain, p>> \in DOMAIN db'.ports, <<Domain, p>> \notin DOMAIN db.ports
          PROVE  p \in between'[c]
      <4>1. <<Domain, p>> = <<Domain, q>>
        BY <3>2 DEF PortWritten, OnlyRow
      <4> QED
        BY <3>2, <4>1 DEF PortWritten
    <3> QED
      BY <3>1, <3>2 DEF Effect
  <2> QED
    BY <2>1, <2>2 DEF ClientInv, MixedInv, Aside, Changed
<1>7. ChangeInv(c)'
  <2>1. sinceLoad[c] \subseteq sinceLoad'[c]
    BY DEF Effect, NoWrite, AssetWritten, PortWritten, ServiceWritten
  <2>2. loaded[c] /\ pc[c] # "done" =>
          \A p \in Ports \ sinceLoad'[c] : <<Domain, p>> \in DOMAIN db'.services =>
            /\ <<Domain, p>> \in DOMAIN db.services
            /\ db'.services[<<Domain, p>>] = db.services[<<Domain, p>>]
    <3>1. CASE NoWrite(c) \/ AssetWritten(a, c) \/ \E q \in Ports : PortWritten(a, c, q)
      BY <3>1 DEF NoWrite, AssetWritten, PortWritten
    <3>2. ASSUME NEW q \in Ports, ServiceWritten(a, c, q), loaded[c] /\ pc[c] # "done",
                 NEW p \in Ports \ sinceLoad'[c], <<Domain, p>> \in DOMAIN db'.services
          PROVE  /\ <<Domain, p>> \in DOMAIN db.services
                 /\ db'.services[<<Domain, p>>] = db.services[<<Domain, p>>]
      <4>1. <<Domain, p>> # <<Domain, q>>
        BY <3>2 DEF ServiceWritten
      <4> QED
        BY <3>2, <4>1 DEF ServiceWritten, OnlyRow
    <3> QED
      BY <3>1, <3>2 DEF Effect
  <2> QED
    BY <1>0, <2>1, <2>2 DEF ClientInv, ChangeInv, Aside, Changed
<1> QED
  BY <1>1, <1>2, <1>3, <1>5, <1>6, <1>7 DEF ClientInv

----------------------------------------------------------------------------
(* A client's own steps.                                                   *)

\* The reading of the clock: every row is older.
LEMMA CallInv ==
  ASSUME TypeOK, ClockInv, NEW a \in Client, ClientInv(a), NEW from, NEW to,
         <<from, to>> \in {<<"asset", "saveAsset">>, <<"port", "savePort">>},
         Call(a, from, to), UNCHANGED <<store, scan, ghosts>>
  PROVE  ClientInv(a)'
<1> USE DEF store, scan, ghosts
<1>1. /\ pc[a] = from /\ pc'[a] = to /\ stamp'[a] = clock
      /\ UNCHANGED <<db, clock, history, loaded, open, rest, services, report, inserted, replaced,
                     between, sinceLoad>>
  BY DEF TypeOK, Call, Set
<1>2. StampInv(a)'
  BY <1>1 DEF StampInv, ClockInv
<1>3. PlaceInv(a)' /\ FreshInv(a)' /\ FirstInv(a)' /\ MixedInv(a)' /\ ChangeInv(a)'
  BY <1>1 DEF ClientInv, PlaceInv, FreshInv, FirstInv, MixedInv, ChangeInv, Before, Changed
<1> QED
  BY <1>2, <1>3 DEF ClientInv

\* Between its saves a client has nothing at stake.
LEMMA NotSaving ==
  ASSUME NEW a, pc'[a] \notin {"saveAsset", "savePort", "saveService"}
  PROVE  StampInv(a)' /\ PlaceInv(a)'
  BY DEF StampInv, PlaceInv

LEMMA OwnInv ==
  ASSUME TypeOK, TypeOK', ClockInv, NEW a \in Client, ClientInv(a), Step(a)
  PROVE  ClientInv(a)'
<1> USE DEF store, scan, ghosts
<1>0. /\ StoreType(db) /\ ClientsType /\ ClientType(a) /\ ClientsType'
      /\ rest[a] \subseteq Ports /\ open[a] \subseteq Ports /\ Ports \subseteq Nat
  BY TypeParts, ClientsAssumption DEF TypeOK, ClientsType
<1>1. CASE BeginScan(a)
  <2>1. /\ pc'[a] = "asset" /\ ~loaded'[a] /\ report'[a] = NoReport
        /\ inserted'[a] = {} /\ replaced'[a] = {}
        /\ history'[a] = history[a] /\ db' = db
    BY <1>0, <1>1 DEF BeginScan, Set, ClientsType
  <2> QED
    BY <2>1, NotSaving DEF ClientInv, FreshInv, FirstInv, MixedInv, ChangeInv
<1>2. CASE CallSaveAsset(a)
  BY <1>2, CallInv DEF CallSaveAsset
<1>3. CASE CallSavePort(a)
  BY <1>3, CallInv DEF CallSavePort
<1>4. CASE ExecSaveAsset(a)
  <2>1. /\ pc[a] = "saveAsset" /\ pc'[a] = "scan"
        /\ UNCHANGED <<history, loaded, open, rest, services, report, inserted, replaced>>
    BY <1>0, <1>4 DEF ExecSaveAsset, Refused, Set, ClientsType
  <2>2. db'.ports = db.ports /\ db'.services = db.services
    <3>1. stamp[a] \in Time
      BY <1>0 DEF ClientsType
    <3>2. db' = db \/ db' = SaveAsset(db, Domain, stamp[a])
      BY <1>4 DEF ExecSaveAsset, Refused
    <3> QED
      BY <1>0, <3>1, <3>2, AssetSaved
  <2> QED
    BY <2>1, <2>2, NotSaving DEF ClientInv, FreshInv, FirstInv, MixedInv, ChangeInv, Before
<1>5. CASE ScanPorts(a)
  <2>1. /\ pc[a] = "scan" /\ pc'[a] = "ports"
        /\ UNCHANGED <<db, history, loaded, services, report, inserted, replaced>>
    BY <1>0, <1>5 DEF ScanPorts, Set, ClientsType
  <2> QED
    BY <2>1, NotSaving DEF ClientInv, FreshInv, FirstInv, MixedInv, ChangeInv, Before
<1>6. CASE ReadPorts(a)
  <2>1. /\ pc[a] = "ports" /\ pc'[a] = "services"
        /\ UNCHANGED <<db, loaded, open, rest, services, report, inserted, replaced>>
        /\ history'[a].ports = FindPorts(db, Domain)
    BY <1>0, <1>6 DEF ReadPorts, Set, ClientsType, ClientType
  <2>2. FindPorts(db, Domain) = {p \in Ports : <<Domain, p>> \in DOMAIN db.ports}
    BY <1>0, HistoryRead
  <2> QED
    BY <2>1, <2>2, NotSaving DEF ClientInv, FreshInv, FirstInv, MixedInv, ChangeInv, Before
<1>7. CASE ReadServices(a)
  <2>1. /\ pc[a] = "services" /\ pc'[a] = "port"
        /\ UNCHANGED <<db, open, rest, services, report, between, inserted, replaced>>
        /\ history'[a].ports = history[a].ports
        /\ history'[a].services = FindServices(db, Domain)
    BY <1>0, <1>7 DEF ReadServices, Set, ClientsType, ClientType
  <2>2. /\ DOMAIN FindServices(db, Domain) = {p \in Ports : <<Domain, p>> \in DOMAIN db.services}
        /\ \A p \in Ports : <<Domain, p>> \in DOMAIN db.services =>
             FindServices(db, Domain)[p] = db.services[<<Domain, p>>].svc
    BY <1>0, HistoryRead
  <2>3. inserted[a] = {} /\ replaced[a] = {}
    BY <2>1 DEF ClientInv, FreshInv, Before
  <2>4. FreshInv(a)' /\ FirstInv(a)'
    BY <2>1, <2>3 DEF ClientInv, FreshInv, FirstInv, Before
  <2>5. MixedInv(a)'
    BY <1>0, <2>1, <2>2 DEF ClientInv, MixedInv, StoreType
  <2>6. ChangeInv(a)'
    BY <1>0, <2>1, <2>2, <2>3 DEF ChangeInv
  <2> QED
    BY <2>1, <2>4, <2>5, <2>6, NotSaving DEF ClientInv
<1>8. CASE ReadFails(a)
  <2>1. /\ pc[a] \in Before /\ pc'[a] = "port" /\ history'[a].ports = {}
        /\ UNCHANGED <<db, loaded, open, rest, services, report, inserted, replaced>>
    BY <1>0, <1>8 DEF ReadFails, Set, ClientsType, NoHistory, Before
  <2>2. ~loaded[a] /\ inserted[a] = {} /\ report[a] = NoReport
    BY <2>1 DEF ClientInv, FreshInv, Before
  <2> QED
    BY <2>1, <2>2, NotSaving DEF ClientInv, FreshInv, FirstInv, MixedInv, ChangeInv, Before
<1>9. CASE ExecSavePort(a)
  <2>1. /\ pc[a] = "savePort" /\ pc'[a] = "banner"
        /\ UNCHANGED <<history, loaded, open, rest, services, report, replaced>>
    BY <1>0, <1>9 DEF ExecSavePort, Refused, Set, ClientsType
  <2>0. ASSUME NEW q \in Ports, stamp[a] \in Time, db' = SavePort(db, Domain, q, stamp[a])
        PROVE  /\ db'.services = db.services
               /\ DOMAIN db'.ports = DOMAIN db.ports \cup {<<Domain, q>>}
    <3>1. StoreType(db)
      BY <1>0
    <3>2. /\ db'.assets = db.assets /\ db'.services = db.services
          /\ DOMAIN db'.ports = DOMAIN db.ports \cup {<<Domain, q>>}
          /\ db'.ports[<<Domain, q>>].last = stamp[a]
          /\ \A k \in DOMAIN db.ports : k # <<Domain, q>> => db'.ports[k] = db.ports[k]
      BY <2>0, <3>1, PortSaved
    <3> QED
      BY <3>2
  <2>2. PICK p \in rest[a] :
          \/ /\ db' = SavePort(db, Domain, p, stamp[a])
             /\ Wrote(a, "ports", p)
             /\ inserted' = IF <<Domain, p>> \in DOMAIN db.ports THEN inserted
                            ELSE Set(inserted, a, inserted[a] \cup {p})
          \/ Refused(a)
    BY <1>9 DEF ExecSavePort
  <2>3. /\ DOMAIN db.ports \subseteq DOMAIN db'.ports /\ db'.services = db.services
        /\ between'[a] = between[a] /\ sinceLoad'[a] = sinceLoad[a]
    <3>1. CASE db' = SavePort(db, Domain, p, stamp[a]) /\ Wrote(a, "ports", p)
      <4>1. stamp[a] \in Time /\ p \in Ports
        BY <1>0 DEF ClientsType
      <4>2. DOMAIN db.ports \subseteq DOMAIN db'.ports /\ db'.services = db.services
        <5>1. db' = SavePort(db, Domain, p, stamp[a])
          BY <3>1
        <5>2. db'.services = db.services /\ DOMAIN db'.ports = DOMAIN db.ports \cup {<<Domain, p>>}
          BY <4>1, <5>1, <2>0
        <5> QED
          BY <5>2
      <4> QED
        BY <1>0, <3>1, <4>2, WriterKeeps
    <3>2. CASE Refused(a)
      BY <3>2 DEF Refused
    <3> QED
      BY <2>2, <3>1, <3>2
  <2>4. \/ inserted'[a] = inserted[a]
        \/ inserted'[a] = inserted[a] \cup {p} /\ <<Domain, p>> \notin DOMAIN db.ports
    BY <1>0, <2>2 DEF Refused, Set, ClientsType
  <2>5. p \in open[a] /\ (p \notin history[a].ports \/ <<Domain, p>> \in DOMAIN db.ports)
    BY <1>0 DEF ClientInv, FirstInv, ClientType
  <2>6. FreshInv(a)' /\ FirstInv(a)'
    BY <2>1, <2>3, <2>4, <2>5 DEF ClientInv, FreshInv, FirstInv, Before
  <2>7. MixedInv(a)' /\ ChangeInv(a)'
    BY <2>1, <2>3 DEF ClientInv, MixedInv, ChangeInv
  <2> QED
    BY <2>1, <2>6, <2>7, NotSaving DEF ClientInv
<1>10. CASE NoService(a)
  <2>1. /\ pc[a] = "banner" /\ pc'[a] = "port" /\ rest'[a] \subseteq rest[a]
        /\ UNCHANGED <<db, history, loaded, open, services, report, between, sinceLoad,
                       inserted, replaced>>
    BY <1>0, <1>10 DEF NoService, Set, ClientsType
  <2> QED
    BY <2>1, NotSaving DEF ClientInv, FreshInv, FirstInv, MixedInv, ChangeInv, Before
<1>11. CASE CallSaveService(a)
  <2>1. PICK p \in rest[a], svc \in Services :
          Current(a, p) /\ services' = Set(services, a, Upsert(services[a], p, svc))
    BY <1>11 DEF CallSaveService
  <2>2. /\ pc[a] = "banner" /\ pc'[a] = "saveService" /\ stamp'[a] = clock
        /\ UNCHANGED <<db, clock, history, loaded, open, rest, report, between, sinceLoad,
                       inserted, replaced>>
    BY <1>0, <1>11 DEF CallSaveService, Call, Set, ClientsType
  <2>3. services'[a] = Upsert(services[a], p, svc)
    BY <1>0, <2>1 DEF Set, ClientsType
  <2>4. PlaceInv(a)'
    <3>1. \A q \in rest[a] : Current(a, q) => q = p
      <4>1. p \in Nat /\ \A q \in rest[a] : q \in Nat
        BY <1>0
      <4> QED
        BY <2>1, <4>1 DEF Current
    <3> QED
      BY <2>2, <2>3, <3>1 DEF PlaceInv, Current, Upsert
  <2>5. StampInv(a)'
    BY <2>2 DEF StampInv, ClockInv
  <2>6. FreshInv(a)' /\ FirstInv(a)' /\ MixedInv(a)'
    BY <2>2 DEF ClientInv, FreshInv, FirstInv, MixedInv, Before
  <2>7. ChangeInv(a)'
    <3>1. \A q \in DOMAIN services[a] : q # p => /\ q \in DOMAIN services'[a]
                                                /\ services'[a][q] = services[a][q]
      BY <2>3 DEF Upsert
    <3>2. \A q : q # p /\ q \in VersionChanged(history[a], services[a]) =>
                   q \in VersionChanged(history[a], services'[a])
      BY <3>1 DEF VersionChanged
    <3> QED
      BY <2>1, <2>2, <3>2 DEF ClientInv, ChangeInv
  <2> QED
    BY <2>4, <2>5, <2>6, <2>7 DEF ClientInv
<1>12. CASE ExecSaveService(a)
  <2>0. ASSUME NEW q \in Ports, NEW svc \in Services, stamp[a] \in Time, ServiceHasPort(db, Domain, q),
               db' = SaveService(db, Domain, q, svc, stamp[a])
        PROVE  /\ db'.ports = db.ports
               /\ DOMAIN db'.services = DOMAIN db.services \cup {<<Domain, q>>}
               /\ \A k \in DOMAIN db.services : k # <<Domain, q>> => db'.services[k] = db.services[k]
    <3>1. StoreType(db)
      BY <1>0
    <3>2. /\ db'.assets = db.assets /\ db'.ports = db.ports
          /\ DOMAIN db'.services = DOMAIN db.services \cup {<<Domain, q>>}
          /\ db'.services[<<Domain, q>>].last = stamp[a]
          /\ \A k \in DOMAIN db.services : k # <<Domain, q>> => db'.services[k] = db.services[k]
      BY <2>0, <3>1, ServiceSaved
    <3> QED
      BY <3>2
  <2>1. PICK p \in rest[a] :
          /\ Current(a, p)
          /\ rest' = Set(rest, a, rest[a] \ {p})
          /\ \/ /\ ServiceHasPort(db, Domain, p)
                /\ db' = SaveService(db, Domain, p, services[a][p], stamp[a])
                /\ Wrote(a, "services", p)
                /\ replaced' = IF Replaces(p, services[a][p])
                               THEN Set(replaced, a, replaced[a] \cup {p}) ELSE replaced
             \/ Refused(a)
    BY <1>12 DEF ExecSaveService
  <2>2. /\ pc[a] = "saveService" /\ pc'[a] = "port" /\ rest'[a] = rest[a] \ {p}
        /\ UNCHANGED <<history, loaded, open, services, report, inserted>>
    BY <1>0, <1>12, <2>1 DEF ExecSaveService, Refused, Set, ClientsType
  <2>3. p \in DOMAIN services[a] /\ services[a][p] \in Services /\ p \in Ports /\ stamp[a] \in Time
    BY <1>0, <2>1, <2>2 DEF ClientInv, PlaceInv, ClientType, IsTable, ClientsType
  <2>4. /\ db'.ports = db.ports
        /\ \A q \in Ports : q # p /\ <<Domain, q>> \in DOMAIN db'.services =>
             /\ <<Domain, q>> \in DOMAIN db.services
             /\ db'.services[<<Domain, q>>] = db.services[<<Domain, q>>]
        /\ between'[a] = between[a] /\ sinceLoad'[a] = sinceLoad[a]
    <3>1. CASE /\ ServiceHasPort(db, Domain, p)
               /\ db' = SaveService(db, Domain, p, services[a][p], stamp[a])
               /\ Wrote(a, "services", p)
      <4>1. /\ db'.ports = db.ports
            /\ OnlyRow(db.services, db'.services, <<Domain, p>>)
        <5>1. /\ ServiceHasPort(db, Domain, p)
              /\ db' = SaveService(db, Domain, p, services[a][p], stamp[a])
          BY <3>1
        <5>2. /\ db'.ports = db.ports
              /\ DOMAIN db'.services = DOMAIN db.services \cup {<<Domain, p>>}
              /\ \A k \in DOMAIN db.services : k # <<Domain, p>> => db'.services[k] = db.services[k]
          BY <2>0, <2>3, <5>1
        <5> QED
          BY <5>2 DEF OnlyRow
      <4>2. \A q \in Ports : q # p => <<Domain, q>> # <<Domain, p>>
        OBVIOUS
      <4>3. \A q \in Ports : q # p /\ <<Domain, q>> \in DOMAIN db'.services =>
              /\ <<Domain, q>> \in DOMAIN db.services
              /\ db'.services[<<Domain, q>>] = db.services[<<Domain, q>>]
        BY <4>1, <4>2 DEF OnlyRow
      <4> QED
        BY <1>0, <3>1, <4>1, <4>3, WriterKeeps
    <3>2. CASE Refused(a)
      BY <3>2 DEF Refused
    <3> QED
      BY <2>1, <3>1, <3>2
  <2>5. \/ replaced'[a] = replaced[a]
        \/ replaced'[a] = replaced[a] \cup {p} /\ Replaces(p, services[a][p])
    BY <1>0, <2>1 DEF Refused, Set, ClientsType
  <2>6. FreshInv(a)' /\ FirstInv(a)' /\ MixedInv(a)'
    BY <2>2, <2>4 DEF ClientInv, FreshInv, FirstInv, MixedInv, Before
  <2>7. ASSUME loaded[a], p \notin sinceLoad[a], Replaces(p, services[a][p])
        PROVE  p \in VersionChanged(history[a], services[a])
    <3>1. /\ p \in DOMAIN history[a].services
          /\ history[a].services[p] = db.services[<<Domain, p>>].svc
      BY <2>2, <2>7 DEF ClientInv, ChangeInv, Replaces
    <3> QED
      BY <2>3, <2>7, <3>1 DEF Replaces, Versioned, VersionChanged
  <2>8. ChangeInv(a)'
    BY <1>0, <2>2, <2>4, <2>5, <2>7 DEF ClientInv, ChangeInv
  <2> QED
    BY <2>2, <2>6, <2>8, NotSaving DEF ClientInv
<1>13. CASE Finish(a)
  <2>1. /\ pc[a] = "port" /\ pc'[a] = "done"
        /\ UNCHANGED <<db, loaded, between, sinceLoad, inserted, replaced>>
        /\ history'[a].ports = {}
        /\ report'[a] = IF loaded[a] THEN DiffAsset(Domain, history[a], open[a], services[a])
                        ELSE report[a]
    BY <1>0, <1>13 DEF Finish, Report, Set, ClientsType, NoHistory
  <2>2. report[a] = NoReport
    BY <2>1 DEF ClientInv, FreshInv
  <2> DEFINE diff == DiffAsset(Domain, history[a], open[a], services[a])
  <2>3. /\ diff.opened = open[a] \ history[a].ports
        /\ {change.port : change \in diff.changes} = VersionChanged(history[a], services[a])
    <3>1. diff.changes = {ServiceChangeOf(p, history[a].services[p], services[a][p]) :
                            p \in VersionChanged(history[a], services[a])}
      BY DEF DiffAsset
    <3>2. \A p : ServiceChangeOf(p, history[a].services[p], services[a][p]).port = p
      BY DEF ServiceChangeOf
    <3>3. {change.port : change \in diff.changes} = VersionChanged(history[a], services[a])
      BY <3>1, <3>2
    <3> QED
      BY <3>3 DEF DiffAsset
  <2>4. loaded[a] => /\ report'[a].opened = open[a] \ history[a].ports
                     /\ Changed(a)' = VersionChanged(history[a], services[a])
    BY <2>1, <2>3 DEF Changed
  <2>5. ~loaded[a] => report'[a].opened = {}
    BY <2>1, <2>2 DEF NoReport
  <2>6. FreshInv(a)' /\ FirstInv(a)'
    BY <2>1, <2>4 DEF ClientInv, FreshInv, FirstInv, Before
  <2>7. VersionChanged(history[a], services[a]) \subseteq DOMAIN history[a].services
    BY DEF VersionChanged
  <2>8. MixedInv(a)'
    BY <2>1, <2>4, <2>5, <2>7 DEF ClientInv, MixedInv
  <2>9. ChangeInv(a)'
    BY <2>1, <2>4 DEF ClientInv, ChangeInv
  <2> QED
    BY <2>1, <2>6, <2>8, <2>9, NotSaving DEF ClientInv
<1> QED
  BY <1>1, <1>2, <1>3, <1>4, <1>5, <1>6, <1>7, <1>8, <1>9, <1>10, <1>11, <1>12, <1>13 DEF Step

----------------------------------------------------------------------------
(* The theorems.                                                           *)

\* Rows carry times that have been.
LEMMA ClockStep ==
  ASSUME TypeOK, TypeOK', ClockInv, \A c \in Client : PlaceInv(c), [Next]_vars
  PROVE  ClockInv'
<1>0. StoreType(db) /\ StoreType(db') /\ ClientsType /\ clock \in Nat /\ clock' \in Nat
      /\ \A c \in Client : ClientType(c)
  BY TypeParts, ClientsAssumption DEF TypeOK, Time
<1>1. CASE Tick \/ UNCHANGED vars
  <2>1. db' = db /\ clock <= clock'
    BY <1>0, <1>1 DEF Tick, vars, store
  <2>2. /\ \A k \in DOMAIN db.assets : db.assets[k].last \in Nat
        /\ \A k \in DOMAIN db.ports : db.ports[k].last \in Nat
        /\ \A k \in DOMAIN db.services : db.services[k].last \in Nat
    BY <1>0, ClientsAssumption DEF StoreType, IsTable, Stamp, ServiceRows, Time
  <2> QED
    BY <1>0, <2>1, <2>2 DEF ClockInv
<1>2. ASSUME NEW a \in Client, Step(a)
      PROVE  ClockInv'
  <2>1. stamp[a] <= clock
    BY <1>0 DEF ClientType
  <2>2. clock' = clock /\ \/ db' = db
                          \/ db' = SaveAsset(db, Domain, stamp[a])
                          \/ \E p \in Ports : db' = SavePort(db, Domain, p, stamp[a])
                          \/ \E p \in rest[a] : /\ pc[a] = "saveService" /\ Current(a, p)
                                                /\ ServiceHasPort(db, Domain, p)
                                                /\ db' = SaveService(db, Domain, p, services[a][p], stamp[a])
    BY <1>0, <1>2
    DEF Step, BeginScan, CallSaveAsset, CallSavePort, CallSaveService, Call, NoService, ScanPorts,
        ReadPorts, ReadServices, ReadFails, Finish, Report, ExecSaveAsset, ExecSavePort,
        ExecSaveService, Refused, store, ClientsType
  <2>3. stamp[a] \in Time
    BY <1>0 DEF ClientsType
  <2>4. CASE db' = SaveAsset(db, Domain, stamp[a])
    BY <1>0, <2>1, <2>2, <2>3, <2>4, AssetSaved DEF ClockInv
  <2>5. ASSUME NEW p \in Ports, db' = SavePort(db, Domain, p, stamp[a])
        PROVE  ClockInv'
    <3>1. /\ db'.assets = db.assets /\ db'.services = db.services
          /\ DOMAIN db'.ports = DOMAIN db.ports \cup {<<Domain, p>>}
          /\ db'.ports[<<Domain, p>>].last = stamp[a]
          /\ \A k \in DOMAIN db.ports : k # <<Domain, p>> => db'.ports[k] = db.ports[k]
      <4>1. StoreType(db)
        BY <1>0
      <4> QED
        BY <2>3, <2>5, <4>1, PortSaved
    <3> QED
      BY <2>1, <2>2, <3>1 DEF ClockInv
  <2>6. ASSUME NEW p \in rest[a], pc[a] = "saveService", Current(a, p), ServiceHasPort(db, Domain, p),
               db' = SaveService(db, Domain, p, services[a][p], stamp[a])
        PROVE  ClockInv'
    <3>1. services[a][p] \in Services /\ p \in Ports
      BY <1>0, <2>6 DEF PlaceInv, ClientType, IsTable, ClientsType
    <3>2. /\ db'.assets = db.assets /\ db'.ports = db.ports
          /\ DOMAIN db'.services = DOMAIN db.services \cup {<<Domain, p>>}
          /\ db'.services[<<Domain, p>>].last = stamp[a]
          /\ \A k \in DOMAIN db.services : k # <<Domain, p>> => db'.services[k] = db.services[k]
      <4>1. StoreType(db)
        BY <1>0
      <4> QED
        BY <2>3, <2>6, <3>1, <4>1, ServiceSaved
    <3> QED
      BY <2>1, <2>2, <3>2 DEF ClockInv
  <2> QED
    BY <2>2, <2>4, <2>5, <2>6 DEF ClockInv
<1> QED
  BY <1>1, <1>2 DEF Next

LEMMA InitInv == Init => IInv
<1> SUFFICES ASSUME Init PROVE IInv
  OBVIOUS
<1>1. ClockInv
  BY DEF Init, EmptyStore, ClockInv
<1>2. ASSUME NEW c \in Client
      PROVE  ClientInv(c)
  <2>1. /\ pc[c] = "idle" /\ ~loaded[c] /\ report[c] = NoReport /\ history[c].ports = {}
        /\ inserted[c] = {} /\ replaced[c] = {}
    BY DEF Init, Each, NoHistory
  <2> QED
    BY <2>1 DEF ClientInv, PlaceInv, StampInv, FreshInv, FirstInv, MixedInv, ChangeInv
<1> QED
  BY <1>1, <1>2, InitType DEF IInv

LEMMA InvStep == IInv /\ [Next]_vars => IInv'
<1> SUFFICES ASSUME IInv, [Next]_vars PROVE IInv'
  OBVIOUS
<1>0. \A c \in Client : ClientInv(c) /\ PlaceInv(c)
  BY DEF IInv, ClientInv
<1>1. TypeOK'
  BY <1>0, TypeStep DEF IInv
<1>2. ClockInv'
  BY <1>0, <1>1, ClockStep DEF IInv
<1>3. ASSUME NEW c \in Client
      PROVE  ClientInv(c)'
  <2>1. CASE Tick \/ UNCHANGED vars
    <3>1. UNCHANGED <<db, pc, history, loaded, open, rest, services, report, stamp, overtaken,
                      between, sinceLoad, inserted, replaced>>
      BY <2>1 DEF Tick, vars, store, scan, ghosts
    <3> QED
      BY <1>0, <3>1 DEF ClientInv, PlaceInv, StampInv, FreshInv, FirstInv, MixedInv, ChangeInv,
                        Current, Changed
  <2>2. ASSUME NEW a \in Client, Step(a), c # a
        PROVE  ClientInv(c)'
    <3>1. Aside(c) /\ Effect(a, c)
      BY <1>0, <2>2, OthersStep DEF IInv
    <3>2. stamp[a] <= clock
      BY DEF IInv, TypeOK
    <3> QED
      BY <1>0, <1>1, <2>2, <3>1, <3>2, OthersInv DEF IInv
  <2>3. ASSUME Step(c)
        PROVE  ClientInv(c)'
    BY <1>0, <1>1, <2>3, OwnInv DEF IInv
  <2> QED
    BY <2>1, <2>2, <2>3 DEF Next
<1> QED
  BY <1>1, <1>2, <1>3 DEF IInv

\* The invariant holds in every reachable state.
LEMMA Invariance == Spec => []IInv
  BY InitInv, InvStep, PTL DEF Spec

\* Every variable has its type, and no service is without its port, however the
\* statements of several scans interleave and fail (store.go's foreign keys).
THEOREM TypeCorrect == Spec => []TypeOK
<1>1. IInv => TypeOK
  BY DEF IInv
<1> QED
  BY <1>1, Invariance, PTL

\* A port new to the database is reported opened by the scan that stored it
\* first, whatever the others do (differ.go:72-76).
THEOREM FirstWriterTold == Spec => []FirstWriterReports
<1>1. IInv => FirstWriterReports
  BY DEF IInv, ClientInv, FirstInv, FirstWriterReports
<1> QED
  BY <1>1, Invariance, PTL

\* A report in which a port is both new and changed comes of a write between
\* the two queries of LoadAssetHistory alone (differ.go:83-93).
THEOREM MixedReportsExplained == Spec => []MixedReportNeedsRace
<1>1. IInv => MixedReportNeedsRace
  BY DEF IInv, ClientInv, MixedInv, MixedReportNeedsRace
<1> QED
  BY <1>1, Invariance, PTL

\* A version replaced in the store is a change reported, or a race
\* (runner.go:461-472).
THEOREM ReplacedVersionsTold == Spec => []ChangeReportedOrRaced
<1>1. IInv => ChangeReportedOrRaced
  BY DEF IInv, ClientInv, ChangeInv, ChangeReportedOrRaced
<1> QED
  BY <1>1, Invariance, PTL

\* The step that StaleStampsWereRaced is about.
Explained ==
  /\ GoesBack(db.assets, db'.assets, Domain) => Overtaken("assets", NoPort)
  /\ \A p \in Ports :
       /\ GoesBack(db.ports, db'.ports, <<Domain, p>>) => Overtaken("ports", p)
       /\ GoesBack(db.services, db'.services, <<Domain, p>>) => Overtaken("services", p)

\* A table that stays does not go back.
LEMMA NoStepBack ==
  ASSUME TypeOK, TypeOK'
  PROVE  /\ db'.assets = db.assets => ~GoesBack(db.assets, db'.assets, Domain)
         /\ db'.ports = db.ports => \A k : ~GoesBack(db.ports, db'.ports, k)
         /\ db'.services = db.services => \A k : ~GoesBack(db.services, db'.services, k)
<1>1. /\ \A k \in DOMAIN db.assets : db.assets[k].last \in Nat
      /\ \A k \in DOMAIN db.ports : db.ports[k].last \in Nat
      /\ \A k \in DOMAIN db.services : db.services[k].last \in Nat
  BY ClientsAssumption DEF TypeOK, StoreType, IsTable, Stamp, ServiceRows, Time
<1> QED
  BY <1>1 DEF GoesBack

\* A row other than the one written stays, and the one written goes back only
\* if the stamp does.
LEMMA OneRowBack ==
  ASSUME NEW t, NEW u, NEW k, OnlyRow(t, u, k), \A x \in DOMAIN t : t[x].last \in Nat,
         NEW x, GoesBack(t, u, x)
  PROVE  x = k /\ k \in DOMAIN t /\ u[k].last < t[k].last
  BY DEF OnlyRow, GoesBack

LEMMA StaleStep ==
  ASSUME IInv, IInv', Next
  PROVE  Explained
<1>0. /\ TypeOK /\ TypeOK' /\ StoreType(db) /\ ClientsType
      /\ \A c \in Client : ClientInv(c) /\ ClientType(c)
  BY TypeParts DEF IInv
<1>1. CASE db' = db
  BY <1>0, <1>1, NoStepBack DEF Explained
<1>2. ASSUME NEW a \in Client, Step(a), db' # db
      PROVE  Explained
  <2>1. stamp[a] \in Time /\ stamp[a] \in Nat
    BY <1>0, ClientsAssumption DEF ClientsType, Time
  <2>2. /\ \A k \in DOMAIN db.assets : db.assets[k].last \in Nat
        /\ \A k \in DOMAIN db.ports : db.ports[k].last \in Nat
        /\ \A k \in DOMAIN db.services : db.services[k].last \in Nat
    BY <1>0, ClientsAssumption DEF StoreType, IsTable, Stamp, ServiceRows, Time
  <2>3. StampInv(a) /\ PlaceInv(a)
    BY <1>0 DEF ClientInv
  <2>4. CASE ExecSaveAsset(a)
    <3>1. pc[a] = "saveAsset" /\ pc'[a] = "scan" /\ db' = SaveAsset(db, Domain, stamp[a])
      BY <1>0, <1>2, <2>4 DEF ExecSaveAsset, Refused, Set, ClientsType
    <3>2. /\ db'.ports = db.ports /\ db'.services = db.services
          /\ \A k \in DOMAIN db'.assets : k = Domain /\ db'.assets[k].last = stamp[a]
      BY <1>0, <2>1, <3>1, AssetSaved
    <3>3. Domain \in DOMAIN db'.assets
      BY <1>0, <3>1 DEF SaveAsset, Upsert, StoreType
    <3>4. ASSUME GoesBack(db.assets, db'.assets, Domain)
          PROVE  Overtaken("assets", NoPort)
      <4>1. overtaken[a]
        BY <2>1, <2>2, <2>3, <3>1, <3>2, <3>3, <3>4 DEF GoesBack, StampInv
      <4>2. Saving(a, "assets", NoPort) /\ pc'[a] # pc[a]
        BY <3>1 DEF Saving
      <4> QED
        BY <4>1, <4>2 DEF Overtaken
    <3> QED
      BY <1>0, <3>2, <3>4, NoStepBack DEF Explained
  <2>5. CASE ExecSavePort(a)
    <3>1. PICK p \in rest[a] : Current(a, p) /\ db' = SavePort(db, Domain, p, stamp[a])
      BY <1>2, <2>5 DEF ExecSavePort, Refused
    <3>2. pc[a] = "savePort" /\ pc'[a] = "banner" /\ p \in Ports
      BY <1>0, <2>5 DEF ExecSavePort, Set, ClientsType
    <3>3. \A q \in Ports : db' = SavePort(db, Domain, q, stamp[a]) =>
            /\ db'.assets = db.assets /\ db'.services = db.services
            /\ OnlyRow(db.ports, db'.ports, <<Domain, q>>)
            /\ db'.ports[<<Domain, q>>].last = stamp[a]
      BY <1>0, <2>1, PortSaved DEF OnlyRow
    <3>4. ASSUME NEW q \in Ports, GoesBack(db.ports, db'.ports, <<Domain, q>>)
          PROVE  Overtaken("ports", q)
      <4>1. OnlyRow(db.ports, db'.ports, <<Domain, p>>) /\ db'.ports[<<Domain, p>>].last = stamp[a]
        BY <3>1, <3>2, <3>3
      <4>2. /\ <<Domain, q>> = <<Domain, p>> /\ <<Domain, p>> \in DOMAIN db.ports
            /\ stamp[a] < db.ports[<<Domain, p>>].last
        BY <2>2, <3>4, <4>1, OneRowBack
      <4>3. overtaken[a]
        BY <2>1, <2>2, <2>3, <3>1, <3>2, <4>2 DEF StampInv
      <4>4. Saving(a, "ports", q) /\ pc'[a] # pc[a]
        BY <3>1, <3>2, <4>2 DEF Saving
      <4> QED
        BY <4>3, <4>4 DEF Overtaken
    <3> QED
      BY <1>0, <3>1, <3>2, <3>3, <3>4, NoStepBack DEF Explained
  <2>6. CASE ExecSaveService(a)
    <3>1. PICK p \in rest[a] : /\ Current(a, p) /\ ServiceHasPort(db, Domain, p)
                               /\ db' = SaveService(db, Domain, p, services[a][p], stamp[a])
      BY <1>2, <2>6 DEF ExecSaveService, Refused
    <3>2. pc[a] = "saveService" /\ pc'[a] = "port" /\ p \in Ports
      BY <1>0, <2>6 DEF ExecSaveService, Set, ClientsType
    <3>3. \A q \in Ports, svc \in Services :
            ServiceHasPort(db, Domain, q) /\ db' = SaveService(db, Domain, q, svc, stamp[a]) =>
              /\ db'.assets = db.assets /\ db'.ports = db.ports
              /\ OnlyRow(db.services, db'.services, <<Domain, q>>)
              /\ db'.services[<<Domain, q>>].last = stamp[a]
      BY <1>0, <2>1, ServiceSaved DEF OnlyRow
    <3>4. services[a][p] \in Services
      BY <1>0, <2>3, <3>1, <3>2 DEF PlaceInv, ClientType, IsTable
    <3>5. ASSUME NEW q \in Ports, GoesBack(db.services, db'.services, <<Domain, q>>)
          PROVE  Overtaken("services", q)
      <4>1. /\ OnlyRow(db.services, db'.services, <<Domain, p>>)
            /\ db'.services[<<Domain, p>>].last = stamp[a]
        BY <3>1, <3>2, <3>3, <3>4
      <4>2. /\ <<Domain, q>> = <<Domain, p>> /\ <<Domain, p>> \in DOMAIN db.services
            /\ stamp[a] < db.services[<<Domain, p>>].last
        BY <2>2, <3>5, <4>1, OneRowBack
      <4>3. overtaken[a]
        BY <2>1, <2>2, <2>3, <3>1, <3>2, <4>2 DEF StampInv
      <4>4. Saving(a, "services", q) /\ pc'[a] # pc[a]
        BY <3>1, <3>2, <4>2 DEF Saving
      <4> QED
        BY <4>3, <4>4 DEF Overtaken
    <3> QED
      BY <1>0, <3>1, <3>2, <3>3, <3>4, <3>5, NoStepBack DEF Explained
  <2> QED
    BY <1>2, <2>4, <2>5, <2>6
    DEF Step, BeginScan, CallSaveAsset, CallSavePort, CallSaveService, Call, NoService, ScanPorts,
        ReadPorts, ReadServices, ReadFails, Finish, Report, store
<1> QED
  BY <1>1, <1>2 DEF Next, Tick

\* last_seen goes back only by a save that another overtook
\* (postgres_store.go:155-157).
THEOREM StaleStampsExplained == Spec => StaleStampsWereRaced
<1>1. IInv /\ IInv' /\ [Next]_vars => [Explained]_vars
  BY StaleStep
<1>2. Spec => [][Explained]_vars
  BY <1>1, Invariance, PTL DEF Spec
<1> QED
  BY <1>2 DEF StaleStampsWereRaced, Explained
=============================================================================
