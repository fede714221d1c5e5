---------------------------- MODULE StoreClients ----------------------------
(***************************************************************************)
(* Several scans of one domain against one database, as when the command   *)
(* line runs beside the server: the part of runner.go's execute that       *)
(* touches the store, with every statement a step of its own.              *)
(*                                                                         *)
(* A save is two steps: the client reads its clock, then the server        *)
(* executes the statement (postgres_store.go).  LoadAssetHistory is two    *)
(* queries and no transaction (differ.go).  The clients share one clock.   *)
(***************************************************************************)
EXTENDS Differ, FiniteSets

CONSTANTS
  Client,       \* the scans' processes
  Domain,       \* the domain they scan
  Ports,        \* endpoints, numbered in the order runPhase2 sorts them
  Services,     \* [name, version]
  MaxTime,      \* bound: ticks of the clock
  MaxScans      \* bound: scans in all

ASSUME ClientsAssumption ==
  /\ Ports \subseteq Nat
  /\ \A s \in Services : s = [name |-> s.name, version |-> s.version]
  /\ MaxTime \in Nat /\ MaxScans \in Nat

VARIABLES
  db, clock,
  pc,           \* the statement each client is before
  scans,        \* scans begun, of all clients
  stamp,        \* now, as the save in progress read it
  history,      \* what LoadAssetHistory has read
  loaded,       \* both queries of LoadAssetHistory succeeded
  open, rest,   \* open ports, and those not handled yet
  services,     \* scannedServices
  report,       \* DiffAsset's result at the end of the scan
  \* For the properties alone: another client wrote the row since this one read
  \* its clock to save it; the port rows others wrote between its two queries,
  \* and the service rows since; the port rows it inserted; the ports whose
  \* stored version it replaced.
  overtaken, between, sinceLoad, inserted, replaced

store == <<db, clock>>
scan == <<scans, history, loaded, open, rest, services, report>>
ghosts == <<between, sinceLoad, inserted, replaced>>
vars == <<store, pc, scan, stamp, overtaken, ghosts>>

NoTime == 0
NoPort == 0
NoHistory == [ports |-> {}, services |-> [p \in {} |-> 0]]
NoReport == [domain |-> Domain, opened |-> {}, closed |-> {}, changes |-> {}]

Each(v) == [c \in Client |-> v]
Set(f, c, v) == [f EXCEPT ![c] = v]

Init ==
  /\ db = EmptyStore /\ clock = NoTime + 1
  /\ pc = Each("idle") /\ scans = 0 /\ stamp = Each(NoTime)
  /\ history = Each(NoHistory) /\ loaded = Each(FALSE)
  /\ open = Each({}) /\ rest = Each({}) /\ services = Each([p \in {} |-> 0])
  /\ report = Each(NoReport)
  /\ overtaken = Each(FALSE) /\ between = Each({}) /\ sinceLoad = Each({})
  /\ inserted = Each({}) /\ replaced = Each({})

\* Time passes.
Tick ==
  /\ clock < MaxTime
  /\ clock' = clock + 1
  /\ UNCHANGED <<db, pc, scan, stamp, overtaken, ghosts>>

BeginScan(c) ==
  /\ pc[c] \in {"idle", "done"} /\ scans < MaxScans
  /\ pc' = Set(pc, c, "asset") /\ scans' = scans + 1
  /\ loaded' = Set(loaded, c, FALSE) /\ report' = Set(report, c, NoReport)
  /\ between' = Set(between, c, {}) /\ sinceLoad' = Set(sinceLoad, c, {})
  /\ inserted' = Set(inserted, c, {}) /\ replaced' = Set(replaced, c, {})
  /\ UNCHANGED <<store, history, open, rest, services, stamp, overtaken>>

----------------------------------------------------------------------------
(* The saves.                                                              *)

\* A save is called: now := time.Now().UTC(), and its statement is under way.
Call(c, from, to) ==
  /\ pc[c] = from
  /\ stamp' = Set(stamp, c, clock)
  /\ overtaken' = Set(overtaken, c, FALSE)
  /\ pc' = Set(pc, c, to)

\* The lowest endpoint not reached yet.
Current(c, p) == p \in rest[c] /\ \A q \in rest[c] : p <= q

Saving(c, table, p) ==
  \/ table = "assets"   /\ pc[c] = "saveAsset"
  \/ table = "ports"    /\ pc[c] = "savePort"    /\ Current(c, p)
  \/ table = "services" /\ pc[c] = "saveService" /\ Current(c, p)

\* A statement of c has written p's row of table, or the asset's.
Wrote(c, table, p) ==
  /\ stamp' = Set(stamp, c, NoTime)
  /\ overtaken' = [o \in Client |-> o # c /\ (overtaken[o] \/ Saving(o, table, p))]
  /\ between' = [o \in Client |-> IF o # c /\ pc[o] = "services" /\ table = "ports"
                                    THEN between[o] \cup {p} ELSE between[o]]
  /\ sinceLoad' = [o \in Client |-> IF o # c /\ loaded[o] /\ pc[o] # "done" /\ table = "services"
                                      THEN sinceLoad[o] \cup {p} ELSE sinceLoad[o]]

\* The statement fails, or a foreign key refuses it: an error event, no more.
Refused(c) ==
  /\ stamp' = Set(stamp, c, NoTime) /\ overtaken' = Set(overtaken, c, FALSE)
  /\ UNCHANGED <<db, ghosts>>

CallSaveAsset(c) == Call(c, "asset", "saveAsset") /\ UNCHANGED <<store, scan, ghosts>>

ExecSaveAsset(c) ==
  /\ pc[c] = "saveAsset"
  /\ \/ /\ db' = SaveAsset(db, Domain, stamp[c])
        /\ Wrote(c, "assets", NoPort)
        /\ UNCHANGED <<inserted, replaced>>
     \/ Refused(c)
  /\ pc' = Set(pc, c, "scan")
  /\ UNCHANGED <<clock, scan>>

CallSavePort(c) ==
  /\ rest[c] # {}
  /\ Call(c, "port", "savePort")
  /\ UNCHANGED <<store, scan, ghosts>>

ExecSavePort(c) ==
  /\ pc[c] = "savePort"
  /\ \E p \in rest[c] :
       /\ Current(c, p)
       /\ \/ /\ PortHasAsset(db, Domain)
             /\ db' = SavePort(db, Domain, p, stamp[c])
             /\ Wrote(c, "ports", p)
             /\ inserted' = IF <<Domain, p>> \in DOMAIN db.ports THEN inserted
                            ELSE Set(inserted, c, inserted[c] \cup {p})
             /\ UNCHANGED replaced
          \/ Refused(c)
  /\ pc' = Set(pc, c, "banner")
  /\ UNCHANGED <<clock, scan>>

\* The port says nothing that is saved.
NoService(c) ==
  /\ pc[c] = "banner"
  /\ \E p \in rest[c] : Current(c, p) /\ rest' = Set(rest, c, rest[c] \ {p})
  /\ pc' = Set(pc, c, "port")
  /\ UNCHANGED <<store, scans, history, loaded, open, services, report, stamp, overtaken, ghosts>>

CallSaveService(c) ==
  /\ Call(c, "banner", "saveService")
  /\ \E p \in rest[c], svc \in Services :
       Current(c, p) /\ services' = Set(services, c, Upsert(services[c], p, svc))
  /\ UNCHANGED <<store, scans, history, loaded, open, rest, report, ghosts>>

Versioned(svc) == svc.version # NoVersion

\* Does a save of svc replace another version of p's service?
Replaces(p, svc) ==
  /\ <<Domain, p>> \in DOMAIN db.services
  /\ LET old == db.services[<<Domain, p>>].svc
     IN  Versioned(old) /\ Versioned(svc) /\ old.version # svc.version

ExecSaveService(c) ==
  /\ pc[c] = "saveService"
  /\ \E p \in rest[c] :
       /\ Current(c, p)
       /\ \/ /\ ServiceHasPort(db, Domain, p)
             /\ db' = SaveService(db, Domain, p, services[c][p], stamp[c])
             /\ Wrote(c, "services", p)
             /\ replaced' = IF Replaces(p, services[c][p])
                            THEN Set(replaced, c, replaced[c] \cup {p}) ELSE replaced
             /\ UNCHANGED inserted
          \/ Refused(c)
       /\ rest' = Set(rest, c, rest[c] \ {p})
  /\ pc' = Set(pc, c, "port")
  /\ UNCHANGED <<clock, scans, history, loaded, open, services, report>>

----------------------------------------------------------------------------
(* The history.                                                            *)

ScanPorts(c) ==
  /\ pc[c] = "scan"
  /\ \E found \in SUBSET Ports : open' = Set(open, c, found) /\ rest' = Set(rest, c, found)
  /\ pc' = Set(pc, c, "ports")
  /\ UNCHANGED <<store, scans, history, loaded, services, report, stamp, overtaken, ghosts>>

PortsErrorDropped(c) ==   \* mutant: LoadAssetHistory goes on without the stored ports
  /\ pc[c] = "ports"
  /\ \E stored \in {{}, FindPorts(db, Domain)} :
       history' = Set(history, c, [history[c] EXCEPT !.ports = stored])
  /\ pc' = Set(pc, c, "services")
  /\ UNCHANGED <<store, scans, open, rest, loaded, services, report, stamp, overtaken, ghosts>>

\* LoadAssetHistory asks for the stored ports ...
ReadPorts(c) ==
  /\ pc[c] = "ports"
  /\ history' = Set(history, c, [history[c] EXCEPT !.ports = FindPorts(db, Domain)])
  /\ pc' = Set(pc, c, "services")
  /\ UNCHANGED <<store, scans, open, rest, loaded, services, report, stamp, overtaken, ghosts>>

\* ... and then for the stored services.
ReadServices(c) ==
  /\ pc[c] = "services"
  /\ history' = Set(history, c, [history[c] EXCEPT !.services = FindServices(db, Domain)])
  /\ loaded' = Set(loaded, c, TRUE)
  /\ pc' = Set(pc, c, "port")
  /\ UNCHANGED <<store, scans, open, rest, services, report, stamp, overtaken, ghosts>>

\* An error of either query: no history.
ReadFails(c) ==
  /\ pc[c] \in {"ports", "services"}
  /\ history' = Set(history, c, NoHistory)
  /\ pc' = Set(pc, c, "port")
  /\ UNCHANGED <<store, scans, loaded, open, rest, services, report, stamp, overtaken, ghosts>>

\* The scan's report; its locals go out of scope.
Report(c, h) ==
  /\ pc[c] = "port" /\ rest[c] = {}
  /\ report' = IF loaded[c] THEN Set(report, c, DiffAsset(Domain, h, open[c], services[c]))
               ELSE report
  /\ pc' = Set(pc, c, "done")
  /\ history' = Set(history, c, NoHistory)
  /\ open' = Set(open, c, {}) /\ services' = Set(services, c, [p \in {} |-> 0])
  /\ UNCHANGED <<store, scans, loaded, rest, stamp, overtaken, ghosts>>

FinishWithLateHistory(c) == Report(c, LoadAssetHistory(db, Domain))   \* mutant: read after the writes

Finish(c) == Report(c, history[c])

----------------------------------------------------------------------------
Step(c) ==
  \/ BeginScan(c)
  \/ CallSaveAsset(c) \/ ExecSaveAsset(c)
  \/ ScanPorts(c) \/ ReadPorts(c) \/ ReadServices(c) \/ ReadFails(c)
  \/ CallSavePort(c) \/ ExecSavePort(c)
  \/ NoService(c) \/ CallSaveService(c) \/ ExecSaveService(c)
  \/ Finish(c)

Next == Tick \/ \E c \in Client : Step(c)

Spec == Init /\ [][Next]_vars
----------------------------------------------------------------------------
Time == 0..MaxTime + 1

StoreType(s) ==
  /\ s = [assets |-> s.assets, ports |-> s.ports, services |-> s.services, buckets |-> s.buckets]
  /\ IsTable(s.assets, {Domain}, Stamp(Time))
  /\ IsTable(s.ports, {Domain} \X Ports, Stamp(Time))
  /\ IsTable(s.services, {Domain} \X Ports, ServiceRows(Services, Time))
  /\ DOMAIN s.services \subseteq DOMAIN s.ports

\* Every variable has its type, and every service its port: the foreign keys.
TypeOK ==
  /\ StoreType(db)
  /\ clock \in Time
  /\ pc \in [Client -> {"idle", "asset", "saveAsset", "scan", "ports", "services", "port", "savePort",
                        "banner", "saveService", "done"}]
  /\ stamp \in [Client -> Time]
  /\ loaded \in [Client -> BOOLEAN] /\ overtaken \in [Client -> BOOLEAN]
  /\ open \in [Client -> SUBSET Ports] /\ rest \in [Client -> SUBSET Ports]
  /\ between \in [Client -> SUBSET Ports] /\ sinceLoad \in [Client -> SUBSET Ports]
  /\ inserted \in [Client -> SUBSET Ports] /\ replaced \in [Client -> SUBSET Ports]
  /\ history = [c \in Client |-> history[c]] /\ services = [c \in Client |-> services[c]]
  /\ report = [c \in Client |-> report[c]]
  /\ \A c \in Client :
       /\ stamp[c] <= clock
       /\ rest[c] \subseteq open[c]
       /\ history[c] = [ports |-> history[c].ports, services |-> history[c].services]
       /\ history[c].ports \subseteq Ports
       /\ IsTable(history[c].services, Ports, Services)
       /\ IsTable(services[c], Ports, Services)

GoesBack(before, after, k) == k \in DOMAIN before /\ after[k].last < before[k].last
Overtaken(table, p) == \E c \in Client : pc'[c] # pc[c] /\ Saving(c, table, p) /\ overtaken[c]

\* last_seen of a row never goes back, so that it stays the time of the latest
\* observation (postgres_store.go:155-157), except by a save that another
\* client's save of the row overtook between its clock and its statement.
StaleStampsWereRaced ==
  [][ /\ GoesBack(db.assets, db'.assets, Domain) => Overtaken("assets", NoPort)
      /\ \A p \in Ports :
           /\ GoesBack(db.ports, db'.ports, <<Domain, p>>) => Overtaken("ports", p)
           /\ GoesBack(db.services, db'.services, <<Domain, p>>) => Overtaken("services", p) ]_vars

\* However scans interleave, a port new to the database is reported opened, if
\* by several scans then by the one that stored it first among them
\* (differ.go:72-76).
FirstWriterReports ==
  \A c \in Client : pc[c] = "done" /\ loaded[c] => inserted[c] \subseteq report[c].opened

Changed(c) == {change.port : change \in report[c].changes}

\* A port is reported as just opened and as running another version than before
\* only when another scan stored it between the two queries of the history.
MixedReportNeedsRace ==
  \A c \in Client : pc[c] = "done" =>
    \A p \in report[c].opened \cap Changed(c) : p \in between[c]

\* A scan that replaces a stored version by another reports a change of that
\* port, unless another scan stored a service there after the history was read.
ChangeReportedOrRaced ==
  \A c \in Client : pc[c] = "done" /\ loaded[c] =>
    \A p \in replaced[c] : p \in Changed(c) \/ p \in sinceLoad[c]
=============================================================================
