------------------------------- MODULE Store -------------------------------
(***************************************************************************)
(* The PostgreSQL store of internal/storage as a value and the operators   *)
(* that read and upsert it.  A table is a partial function from its        *)
(* primary key to a row; no statement of the program deletes a row.        *)
(*                                                                         *)
(* A key of ports and services is <<domain, endpoint>>, where an endpoint  *)
(* stands for the (ip, number, proto) triple.  Columns nothing reads back  *)
(* (assets.ips, services.banner, bucket_results.provider and status) are   *)
(* left out.  `now' is the client-side time.Now() of the save.             *)
(***************************************************************************)
EXTENDS Naturals

\* Rows of a table that carries nothing but its two timestamps.
Stamp(Time) == [first : Time, last : Time]

\* t is a table with keys in K and rows in R.
IsTable(t, K, R) == /\ DOMAIN t \subseteq K
                    /\ t \in [DOMAIN t -> R]

\* The rows of a services table: what SaveService stores about svc.
ServiceRows(Svc, Time) ==
  { [svc |-> s, first |-> f, last |-> l] : s \in Svc, f \in Time, l \in Time }

BucketRows(Domain, Time) ==
  [owner : Domain, accessible : BOOLEAN, first : Time, last : Time]

\* The database right after migrate() on an empty server.
EmptyStore == [assets   |-> [k \in {} |-> 0],
               ports    |-> [k \in {} |-> 0],
               services |-> [k \in {} |-> 0],
               buckets  |-> [k \in {} |-> 0]]

\* INSERT ... ON CONFLICT DO UPDATE of one row.
Upsert(t, k, row) == [x \in DOMAIN t \cup {k} |-> IF x = k THEN row ELSE t[x]]

FirstSeenOverwritten(t, k, now) == now    \* mutant: DO UPDATE sets first_seen too

\* first_seen is written by the insert alone.
FirstSeen(t, k, now) == IF k \in DOMAIN t THEN t[k].first ELSE now

----------------------------------------------------------------------------
(* The writes.  Each is one SQL statement, hence atomic.                   *)

SaveAsset(db, d, now) ==
  [db EXCEPT !.assets = Upsert(@, d, [first |-> FirstSeen(db.assets, d, now), last |-> now])]

\* ports.asset_domain REFERENCES assets(domain).
PortHasAsset(db, d) == d \in DOMAIN db.assets

SavePortServerTime(db, d, p, now) ==   \* mutant: an insert takes the time of a server that is ahead
  LET late == IF <<d, p>> \in DOMAIN db.ports THEN now ELSE now + 1
  IN  [db EXCEPT !.ports =
         Upsert(@, <<d, p>>, [first |-> FirstSeen(db.ports, <<d, p>>, late), last |-> late])]

SavePort(db, d, p, now) ==
  [db EXCEPT !.ports =
     Upsert(@, <<d, p>>, [first |-> FirstSeen(db.ports, <<d, p>>, now), last |-> now])]

NoForeignKey(db, d, p) == TRUE   \* mutant: services references nothing

\* services(asset_domain, ip, port_number, proto) REFERENCES ports.
ServiceHasPort(db, d, p) == <<d, p>> \in DOMAIN db.ports

SaveService(db, d, p, svc, now) ==
  [db EXCEPT !.services =
     Upsert(@, <<d, p>>, [svc   |-> svc,
                          first |-> FirstSeen(db.services, <<d, p>>, now),
                          last  |-> now])]

SaveBucketForFinder(db, d, url, accessible, now) ==   \* mutant: DO UPDATE sets the domain too
  [db EXCEPT !.buckets =
     Upsert(@, url, [owner |-> d, accessible |-> accessible,
                     first |-> FirstSeen(@, url, now), last |-> now])]

\* ON CONFLICT leaves bucket_results.domain alone: the first scan that finds
\* the URL owns the row.
SaveBucket(db, d, url, accessible, now) ==
  [db EXCEPT !.buckets =
     Upsert(@, url, [owner      |-> IF url \in DOMAIN @ THEN @[url].owner ELSE d,
                     accessible |-> accessible,
                     first      |-> FirstSeen(@, url, now),
                     last       |-> now])]

----------------------------------------------------------------------------
(* The reads.                                                              *)

FindAssets(db) == DOMAIN db.assets

FindPorts(db, d) == { k[2] : k \in { x \in DOMAIN db.ports : x[1] = d } }

\* Endpoint -> service, for the endpoints of d that have a services row.
FindServices(db, d) ==
  [ p \in { k[2] : k \in { x \in DOMAIN db.services : x[1] = d } } |->
      db.services[<<d, p>>].svc ]

=============================================================================
