------------------------------- MODULE Differ -------------------------------
(***************************************************************************)
(* internal/analysis: what changed between the stored state and this scan. *)
(* Lists whose order no property observes are sets; a list of services is  *)
(* a partial function from endpoint to [name, version], since parsePorts   *)
(* and the resolver leave one probe, hence one service, per endpoint.      *)
(***************************************************************************)
EXTENDS Store

CONSTANT NoVersion      \* the empty version string

ServiceChangeOf(p, hist, curr) ==
  [port |-> p, name |-> curr.name, old |-> hist.version, new |-> curr.version]

\* The snapshot of one asset that a scan is compared with.
LoadAssetHistory(db, d) == [ports |-> FindPorts(db, d), services |-> FindServices(db, d)]

\* The live domains with no row in assets.
DiffAssets(db, current) == current \ FindAssets(db)

\* Mutant: an empty old version counts as a version.
VersionChangedFromEmpty(history, services) ==
  { p \in DOMAIN services \cap DOMAIN history.services :
      /\ services[p].version # NoVersion
      /\ services[p].version # history.services[p].version }

\* Mutant: only endpoints that are in the stored ports, too.
VersionChangedOfKnownPorts(history, services) ==
  { p \in history.ports \cap DOMAIN services \cap DOMAIN history.services :
      /\ services[p].version # NoVersion
      /\ history.services[p].version # NoVersion
      /\ services[p].version # history.services[p].version }

\* Endpoints identified in both scans with two different non-empty versions.
VersionChanged(history, services) ==
  { p \in DOMAIN services \cap DOMAIN history.services :
      /\ services[p].version # NoVersion
      /\ history.services[p].version # NoVersion
      /\ services[p].version # history.services[p].version }

DiffAsset(d, history, current, services) ==
  [domain  |-> d,
   opened  |-> current \ history.ports,
   closed  |-> history.ports \ current,
   changes |-> { ServiceChangeOf(p, history.services[p], services[p]) :
                   p \in VersionChanged(history, services) }]

\* ScanDiff.IsEmpty; a per-asset diff has no AssetChanges.
IsEmptyDiff(diff) == diff.opened = {} /\ diff.closed = {} /\ diff.changes = {}

=============================================================================
