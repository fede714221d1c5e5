# asm-engine: TLA+ models, checks and proofs

asm-engine scans the attack surface of a domain: it discovers names, resolves
them, probes TCP ports, fingerprints what answers, compares the result with
what PostgreSQL holds from earlier scans and looks for cloud buckets. It runs
from the command line or behind a small web server that streams events. This
directory models that program in TLA+, checks the models with TLC on small
instances and proves their main properties with TLAPS for every instance.

Paths below are relative to the repository's `src/`.

## 1. Inventory

| Part | State | Operations | Talks to |
|---|---|---|---|
| pipeline (`internal/pipeline/runner.go`, `events.go`) | live assets, per asset: open ports, history, services; the diffs so far | `Run`/`execute`: Phases 1a-1d, 2, 3; `emit` on a channel of 64 | all parts below; its consumer over the channel |
| storage (`internal/storage`) | tables assets, ports, services, bucket_results | four upserts, three reads, idempotent migration | PostgreSQL; called by pipeline and analysis |
| analysis (`internal/analysis/differ.go`) | none | `DiffAssets`, `LoadAssetHistory`, `DiffAsset` | reads storage |
| scanner (`internal/scanner`) | jobs and results channels, worker pool, ticker | `Scan(ctx, asset)` | network; called once per asset |
| discovery (`internal/discovery`) | none between calls; within one, a slot per source | `Discover`: three concurrent sources merged; DNS resolver; PTR enricher | network; called in Phase 1 |
| discovery sources (`internal/discovery/*_discoverer.go`, `dns_intel.go`) | constant tables | three HTTP clients and their parsers; the TXT and MX lookups | network; called by discovery and Phase 1d |
| web server (`internal/web/server.go`) | semaphore of 50 slots, one handler and one pipeline goroutine per scan | `Serve`, `handleScan`, parameter clamping | pipeline; the page over SSE |
| web page (`internal/web/static/index.html`) | the EventSource | reacts to events | web server |
| command line (`cmd/asm/main.go`) | none | flags, `consumeForCLI` | pipeline |
| cloudscan (`internal/cloudscan`) | none | candidates, sequential probes | network; Phase 3 |
| vulndb (`internal/vulndb`) | constant table | `Check`, version comparison | Phase 2 |
| fingerprint (`internal/fingerprint`) | none | banner and web fingerprints | network; Phase 2 |
| models (`pkg/models`) | none | data types, `ScanDiff.IsEmpty` | all |

What is hard here, and what must hold of each part:

- **pipeline + storage + analysis.** The scan compares itself with rows that it
  overwrites as it goes, over many scans, any of which can be cancelled, killed
  or hit by a failing call between two writes. The reported differences must be
  those against the store as it was before the scan; what is reported and what
  the store then says must agree; nothing stored may be forgotten.
- **scanner.** Up to `workers + 2` goroutines, two channels, a ticker and a
  context. No send on a closed channel, no result lost or doubled, a rate that
  holds across the pool, cancellation that takes effect, and an end.
- **web server.** Slots, handlers, pipelines and the store have different
  lifetimes after a disconnect; the event channel drops what does not fit.
- **discovery.** Sources answer in any order, some fail, and the merge must not
  depend on it; names must stay in scope.
- **two processes, one database.** Reads and writes of two scans interleave,
  with client-side clocks.
- **what is made of answers.** Parsers, signature tables, version comparison and
  bucket candidates see answers that are late, cut, repeated or out of scope;
  what is reported must be what the answers bear out, and each thing once.
- **entry points.** Flags and query parameters are clamped by different code into
  one configuration, which must not hang anything and mean the same in both.

`PROJECT.json` lists every hazard at its line, with the properties that catch
it or the reason none does yet.

## 2. Modules

| Module | Models | Notes |
|---|---|---|
| `Store` | the database as a value; every statement as an operator | tables are partial functions from primary key to row; foreign keys are guards |
| `Differ` | the three operations of `Differ` and `IsEmpty` | pure, over a store value |
| `Runner` | `Runner.execute`, one scan after another on one store | composes `Store` and `Differ` |
| `MCRunner` | - | services for TLC |
| `RunnerProofs`, `RunnerReportProofs` | - | theorems about `Runner`: types and differences; stores and reports |
| `PortScan` | what `Scanner.Scan` promises | abstract: no goroutine |
| `TCPScanner` | `TCPScanner.Scan`, goroutine by goroutine | implements `PortScan` |
| `TCPScannerProofs` | - | theorems about `TCPScanner` |
| `LossyStream` | what the event channel of a scan promises its reader | abstract: a reader, no handler |
| `WebServer` | `Serve`, `handleScan`, `Run` and `emit`, the page's EventSource, the end of `main` | implements `LossyStream` |
| `WebServerProofs` | - | theorems about `WebServer` |
| `StoreClients` | scans by several processes on one database, statement by statement | composes `Store` and `Differ` |
| `MCStoreClients`, `StoreClientsProofs` | - | instance for TLC; theorems about `StoreClients` |
| `Lists` | the loops that filter a list or remove its duplicates | pure; defined by positions, not by recursion, so that it can be proved about |
| `ListsProofs` | - | lemmas about `Lists`, `ToSet`, `Contains`, `FlattenSeq` and `IsInjective` |
| `Names` | host names: scope, wildcards, normal forms | pure |
| `Sources` | what the three passive sources make of an answer | pure; gives `Discovery` its `Outcomes` |
| `Gather` | what `MultiSourceDiscoverer.Discover` promises | abstract: no goroutine, no merge |
| `Discovery` | `Discover`: goroutines, WaitGroup, merge | implements `Gather` |
| `DiscoveryProofs` | - | theorems about `Discovery` |
| `Context` | the context of one scan | shared by the modules below |
| `Resolution` | Phases 1b and 1c: resolver, PTR enricher, adoption of PTR names | the caller begins it and takes its result |
| `DNSIntel` | `DNSIntelligenceScanner` and its tables | pure |
| `Banner`, `WebStack`, `VulnDB` | the two fingerprinters and the CVE rules | pure |
| `Buckets` | `BucketHunter.Scan` | the caller begins it and takes its result |
| `Options` | flags and query parameters, and what the components make of them | pure |
| `Recon` | one scan from request to end | composes the modules above from `Names` on |
| `MCRecon` | - | answers for TLC; that `Select` is `SelectSeq`, on short lists |
| `ReconProofs` | - | theorems about `Recon` and its parts |

### Runner

One action is the code between two points where the context can be cancelled,
the process can die, or a store call can fail, and something depends on it. So
a write to the store is never in the same step as another, and `SavePort` and
`SaveService` of one port are two actions (`HandlePort`, `HandleService`).

| Variable | Code |
|---|---|
| `db` | the PostgreSQL database; the only state that outlives a scan |
| `scan` | counts scans; stands for the clock of `first_seen` and `last_seen`, which only needs to tell scans apart |
| `pc`, `todo`, `live`, `idx`, `assetDiff` | where `execute` stands; the slice it ranges over; `liveAssets`; the asset of Phase 2; `assetDiff` |
| `open`, `rest`, `history`, `loaded`, `services` | locals of the loop over assets: `openPorts`, those not yet reached, `history`, `history != nil`, `scannedServices` |
| `allDiffs`, `report`, `badges` | `allDiffs`; the `EventDiff` payloads; the ports whose `EventPort` says PORT OPENED |
| `cancelled`, `persist`, `faults` | `ctx.Err() != nil`; `r.store != nil`; store calls that failed |
| `pre`, `observed` | ghosts: the store when the scan began; what it found |

Actions by phase: `StartScan`; `LocalAsset`, `Discover`, `DiscoverFails`,
`Resolve`, `Enrich`, `ResolvePTR`, `EndPhase1`; `BeginPhase2`, `ScanAsset`,
`ScanReturns`, `LoadHistory`, `HandlePort`, `NoService`, `HandleService`,
`FinishAsset`, `EmitDiffs`, `AbandonPhase2`; `BeginPhase3`, `HandleBucket`,
`Finish`; and `Cancel`, `Crash`. The network decides with `\E` which names
exist, which resolve, which ports accept and what a banner says. A failing
store call is bounded by `MaxFaults` a scan, except for an unsatisfied foreign
key, which fails every time.

Left out: events that carry no difference, Phase 1d, vulnerabilities and technologies, which only
decorate events. An endpoint stands for (ip, port, tcp). The channel that
carries the events is modelled in `WebServer`, with its losses; what `Runner`
says of reports is what was emitted, not what a page has seen.

### TCPScanner

Per worker a program counter over the loop's statements: receive, check ctx,
wait for a token, dial, put. Channels: `jobs` is FIFO, filled in order and wide
enough for all, so two counters (`sent`, `taken`) describe it; nobody depends
on the order of `results` or of the slice, so both are bags. Two variables are
the ticker: its one-element buffer and a count of ticks delivered. `Tick` and
`Cancel` are the environment. `limited` (a rate limit was given) is chosen in
`Init`, so one run checks both. Ghosts count dials and remember the
cancellation.

### WebServer

Four actors per request, each with a lifetime of its own: the client
(`client`), the handler (`pc`, along the statements and deferred calls of
`handleScan`), the pipeline goroutine (`scan`) and the request's context
(`ctx`). They share the event channel (`buf`), the runner (`runner`) and the
semaphore (`slots`). `hand` is the event between `range` and the write, `sent`
counts `emit`s, and the ghost `last` is the last event that reached the page.

| Actions | Code |
|---|---|
| `Progress`, `Complete`, `Abort`, `CloseStream` | `execute` between two events, as far as its consumer can tell: it emits, it ends, it returns at a check on ctx; the deferred `close(ch)` |
| `Acquire`, `CheckTarget`, `InitFails`, `StartScan`, `Refuse` | `handleScan` up to `Run`, with its three error paths |
| `NextEvent`, `StreamEnds`, `WriteToPage`, `WriteLost`, `Watch` | the loop over the channel |
| `CloseRunner`, `Release` | the two deferred calls, last deferred first |
| `Connect`, `LeavePage`, `ConnectionEnds` | `startScan` of the page; the user; `onerror` |
| `EndContext` | net/http, some time after the client left or the handler returned |
| `Interrupt`, `Exit` | `Serve` and `main` on SIGINT |

The page is part of the model because it decides how long a scan lives: its
reaction to an event (`PageReads`) is the other end of the same step. A write to
a page that is there succeeds or waits, since the server sets no WriteTimeout;
a write after the client has gone fails or disappears. Request parameters are
in `Options`.

### StoreClients

The part of `execute` that touches the store, for several processes at once: a
command line beside the server, or two requests. A save is two steps, since the
client reads its clock (`Call...`) before the server executes the statement
(`Exec...`), and the history is two queries in no transaction (`ReadPorts`,
`ReadServices`). A statement may fail; one whose error is reported after its
effect is the same as an executed one, since the code only emits an event.

| Variable | Code |
|---|---|
| `db`, `clock` | the database; the clock all clients share, ticking at any time |
| `pc`, `stamp` | the statement a client is before; `now` of its save in progress |
| `history`, `loaded`, `open`, `rest`, `services`, `report` | locals of the loop over assets, and the diff |
| `overtaken`, `between`, `sinceLoad`, `inserted`, `replaced` | ghosts: what other clients wrote in the gaps, what this one inserted and replaced |

The scan is of one asset and no cancellation: `Runner` has both, and here they
would only cut off the end of a scan. `BeginScan`, `ScanPorts`, `NoService` and
`Finish` are the rest of the loop.

### Recon

Everything in a scan that is not the store, the port scanner or the event
channel, in the order of `execute`. Each part keeps its variables in its own
module, entered by a `Begin...` action and left by a `Take...` action that
resets it, as a call's locals end with the call; `Recon` joins them to its own
`stage`.

| Actions | Code |
|---|---|
| `RunCLI`, `HandleScan`, `Launch` | `run`, `handleScan` and `buildConfig`; the choice between a local and a public target |
| `Phase1a` (`Wait`, `MergeName`, `NextSource`, `Return`), `SourceAnswers`, `CollectNames` | `Discover` and what `runPhase1` does with it |
| `Phase1bc` (`ResolveName`, `EndResolve`, `LookupAddr`, `EndEnrich`, `AdoptName`, `EndAdopt`, `StopResolving`), `CollectAssets` | Phases 1b and 1c |
| `Phase1d`, `EndPhase1` | the TXT and MX indicators; the looks at the context |
| `GrabBanner`, `FetchPage`, `NextPort`, `EndPhase2` | the identification of the open ports |
| `Phase3` (`Probe`, `Respond`, `Abort`, `EndHunt`), `CollectBuckets` | the bucket hunt |
| `CancelScan` | the context |

The world is chosen with `\E`: what each source, resolver, server and cloud
answers. A name is the sequence of its labels, a version of its components, a
bucket name of the words between its dashes; a text (software names, words of a
greeting, header values, cookies, pages) is opaque, with the set of patterns it
contains (`Holds`) and the beginnings of it that a read may end with
(`Fragments`).
What a conversion does to these is modelled: lower-casing, trimming of dots,
the scope filter, the split at "." and "p", the non-number that counts as zero.
JSON, URL and HTTP syntax are not.

A read may end at any byte: before the banner means anything, inside the name,
between or inside the components of the version, inside a word of a greeting
(`Prefixed`), inside a page or inside the headers (`Received`). The parsers then
see what the code's would: a place without a name, a fragment taken for the
name, a number with fewer digits, header bytes for a page.

Go's `LookupHost` and its like give what their constant holds; a cloud gives one
answer for one URL (`CloudsAssumption`), and a banner has a version only if it
names software in a protocol whose parser looks for one (`ServersAssumption`).
Go maps have no order, so `DNSIntel` returns the set of the lists the code may
return.

## 3. Runs

| Run | Instance | Shows |
|---|---|---|
| `runner_assets` | names a, b, \*.a and the empty one; one endpoint; three services (two versions and none) and one bucket; 2 scans, 1 failing call each, cancellation and crash anywhere | `TypeOK`, `DiffsAgainstPreScan`, `VersionReportsMatchStore`, `FoundIsStored`, `HistoryIsKept` |
| `runner_ports` | one name, two endpoints, 3 scans, 1 failing call each, cancellation and crash | `OpenedIffFirstSeen`, `BadgesMatchReport` |
| `runner_new_assets` | one undisturbed scan | counterexample to runner.go:421 |
| `runner_history` | three undisturbed scans of one endpoint | counterexample to differ.go:37 |
| `runner_lost_diffs` | one scan of two names, cancelled | counterexample to events.go:43 |
| `scanner` | 3 probes, 2 workers, with and without a limit, cancelled anywhere | all scanner properties, `PortScan` implemented, termination |
| `scanner_prompt` | 2 probes, 2 workers | counterexample to tcp_scanner.go:72 |
| `web` | 2 requests for 1 slot, a channel of 1 event, scans of up to 3 events, clients that stall or leave, a server that stops | `TypeOK`, `SlotsMatchHandlers`, `WatchedScanKeepsRunner`, `LossyStream` implemented, `PipelineEnds`, `SlotReturned` |
| `web_error` | one request whose user stays | counterexample to events.go:46 |
| `web_shutdown` | one request | counterexample to server.go:42 |
| `recon` | three sources with two or three answers each, in and out of scope, failing and out of quota; three answers of each resolver; two clouds; two lists of indicators or none; three lists of open ports, 31 servers, two pages, texts cut at one or two places; 730 requests by both entry points; cancelled anywhere | all properties of `Recon` and its parts, `Gather` implemented, termination |
| `clients` | 2 clients, 3 scans in all, 1 port, 2 versions, 2 ticks, any statement failing | all properties of `StoreClients` |

**Why the bounds are enough.** A difference relates two consecutive states of
the store, so two scans reach every kind of it and a third adds rows older than
the previous scan (a port that opens, closes, opens again). Two names, one of
them reachable by both phases and as a local target, make the two ways an
asset gets live; a third, a wildcard, the way it does not. Two endpoints make
the order of the port loop and a partly known asset; three services make a
version that changes, one that stays and one that is missing. A second failing
call in one scan adds nothing that a later scan's does not. Two workers race
for jobs, tokens and the channel; with three probes one of them gets a second
job. For the web server two requests and one slot give every outcome of
`Acquire`; with one event in the channel and one in the handler's hand, a scan
of three overflows it.

In `recon` the phases hand on little and reset what they are done with, so
their choices add up instead of multiplying and each can be as rich as its own
code needs: names that differ by case, a wildcard, a name that ends like the
target without being in it (myacme.dev), one outside; an address shared by two
hosts and one repeated in an answer; a PTR name already known, one outside, a
wildcard, an empty one; versions on both sides of every bound of the table and
with more or fewer components; banners and pages cut in every part, a name that
begins with that of other software (apache-coyote), a mail server whose host name
says FTP and an FTP server whose host name says SMTP; headers that hold the
signature of a page; a domain whose slug is one of its candidates; every kind of option at, above and below its limits.
In `clients` three scans by two clients are two that race and one that came
before or after; two ticks give a stamp that is older than the row's; with one
port every race is on the same row, and ports are independent otherwise.

What the bounds leave open the proofs close, where there are any.

`MaxScans` and `MaxFaults` only bound counters in guards. `MayStop` switches
cancellation and crashes off where a counterexample must not need them.
`Stop` and `Done` are the only steps of a finished behaviour; deadlock is
checked, so no other state may be stuck. `recon` and `clients` do not check it:
there a behaviour ends with its scan, or when the scans are used up and every
client is done. `ReconTerminates` says that `recon` stops nowhere else.

**Fairness.** In `scanner`: weak fairness of the main goroutine,
of each worker, of the closer (the Go scheduler runs what is runnable, and
`DialTimeout` bounds a dial) and of the ticker while it runs. Workers compete
for ticks, yet finitely many jobs need finitely many, so strong fairness is not
needed. In `web`: weak fairness of each pipeline, each handler and each context,
and no more. A write to a page that is there is not fair, because the page need
not read; users need not leave and nobody need interrupt the server. So
`PipelineEnds` holds though the handler may wait forever, and a slot is promised
back (`SlotReturned`) only once the client has gone: a client that stays and
does not read keeps its slot. In `recon`: weak fairness of the scan's own goroutine and
of each source's, whose HTTP client has a timeout (set in
`NewRunner`); resolver, dial and probe are bounded too, so that a step of the
scan is always taken. The runs of `Runner` and `clients` assume no fairness.

### Disagreements with the documentation

1. **New assets are never reported** (`NewAssetsReported`). Phase 1 saves every
   live asset before runPhase2 asks for the known ones; the comment at
   runner.go:421 says the snapshot is taken before.
2. **History is not the previous scan** (`HistoryIsPreviousScan`). Rows are
   never deleted and `FindPorts` does not look at `last_seen`: a port closed
   once is reported closed by every later scan and never again as opened,
   against differ.go:37.
3. **Differences can be lost for good** (`DetectedIsReported`). A scan
   cancelled between two assets has already written the first one's rows but
   reports nothing, and no later scan finds the difference again.
4. **Cancellation is not prompt under a rate limit** (`PromptCancel`). A worker
   that waits for a token does not watch the context, so it dials after the
   cancellation, one worker per tick, against tcp_scanner.go:72.
5. **An error event ends the scan** (`ErrorsAreNotFatal`). An SSE message named
   error also triggers `onerror`, where the page closes the stream; the
   disconnect cancels the scan. events.go:46 calls these errors non-fatal.
6. **Shutdown waits for nobody** (`ShutdownWaits`). `ListenAndServe` returns
   when Shutdown begins, and the process ends with it, against server.go:42.
   The model has no clock: `Exit` waits for nothing at all, so the run shows the
   process ending before five seconds could pass.

Found while translating and not refuted by a run of their own; the models follow
the code in each:

- PTR names are adopted whatever their domain (ptr_enricher.go), though
  server.go:137 says that discovery scopes results to the target.
  `SourcesStayInScope` shows that PTR is the only way in.
- `VersionChanged` compares versions and not names (differ.go:188), though
  models/diff.go:57 speaks of the same service.
- A local target's addresses are not deduplicated (runner.go:659-670), though
  models/asset.go:69-72 says an asset has no duplicates.
- The target "." passes the server's check and is normalised to the empty name
  (server.go:128-131, 249-250); the command line refuses it.
- vulndb.go:167 compares the version of Postfix, which parseFTPSMTPBanner never
  extracts: no rule for smtp or ftp can fire. The rule for OpenSSH before 7.7
  ends at 7.6, so 7.6p1 is passed over. The notes on IMAP and POP3 are for Dovecot
  before 2.3.21 and fire for every server.
- A component with a suffix counts as zero, so "1.20.1-debian" is taken for
  1.20.0 and reported as vulnerable, though vulndb.go:330-338 means it to compare
  like the version without the suffix. `CVEsAsDescribed` is therefore about
  versions of numbers.
- The rule for CVE-2021-41773 reports 2.4.50. Its description says "2.4.49–2.4.50
  only" (vulndb.go:135), the comment above it "Only affects 2.4.49. A variant
  (CVE-2021-42013) extends to 2.4.50" (vulndb.go:129).
- The rule for CVE-2021-44790 has no first version and reports 2.2.34 too. Its
  description says "pre-2.4.52" (vulndb.go:145), the comment above it "all 2.4.x
  before 2.4.52" (vulndb.go:140). In both cases `CVEsAsDescribed` asks for what
  the two texts agree on (`Affects`) and leaves open what only one says
  (`Disputed`).
- A read that ends inside a name reports the fragment as the service: "open" for
  an SSH banner cut to "SSH-2.0-Open", "ngi" for "Server: ngi", and "apache" for a
  cut "Apache-Coyote" (banner_fingerprinter.go:196-199, 246-256, 269-281), though
  lines 71-74 say that an inconclusive identification leaves the name empty.
  `NamedAsServed` says what is left of the name's meaning: a fragment comes without
  a version, so no rule for a version fires on it.
- A version cut by a read ("2.4.5" of 2.4.52) is compared as if it were whole.
  `CVEsAsDescribed` therefore promises of cut versions only that they hide no
  vulnerability of every older one.
- A mail greeting cut before its "ESMTP" is taken for FTP if the host name has
  "ftp" in it, though banner_fingerprinter.go:312-313 tests SMTP first to avoid
  just that. `MailIsNotFTP` says it happens in no other way.
- A response cut in its headers is searched as if it were the page
  (web_stack_fingerprinter.go:274-276), so a header that links to /wp-content/
  betrays WordPress, though the comment there calls it a malformed response, and
  the one at lines 260-263 says that what was read "contain[s] the complete
  response". `TechnologiesBySignature` bounds it by what a page of the header's
  text would give away.
- The generic rule for X-Powered-By (web_stack_fingerprinter.go:66-68) fires
  although a specific one has.
- The key "iis" of webServiceNames (runner.go:84-86) is no name that
  parseHTTPBanner returns for IIS ("microsoft-iis").
- A full channel drops any event (events.go:162-171), findings too, though
  runner.go:96-98 says progress updates only; `LossyStream` has the losses.
- last_seen may precede first_seen when saves race: `StaleStampsWereRaced`
  bounds when.

## 4. Proofs

For every value of the constants (any number of names, endpoints, services,
buckets, scans, failing calls, probes, workers, requests, slots, events,
clients, sources, resolvers, servers, clouds and their answers, and any capacity
of the channel):

| Theorem | States |
|---|---|
| `RunnerProofs!TypeCorrect` | `TypeOK` of `Runner` |
| `RunnerProofs!PreScanHistory` | `DiffsAgainstPreScan` |
| `RunnerProofs!NothingForgotten` | `HistoryIsKept` |
| `RunnerReportProofs!StoredWhenQuiet` | `FoundIsStored` |
| `RunnerReportProofs!BadgesAreRight` | `BadgesMatchReport` |
| `RunnerReportProofs!OpenedMeansFirstSeen` | `OpenedIffFirstSeen` |
| `RunnerReportProofs!VersionChangesAreStored` | `VersionReportsMatchStore` |
| `TCPScannerProofs!TypeCorrect` | `TypeOK` of `TCPScanner` |
| `TCPScannerProofs!NeverSendsOnClosed` | `NoSendOnClosed` |
| `TCPScannerProofs!NeverReportsTwice` | `ReportedOnce` |
| `TCPScannerProofs!CancelledWorkersStop` | `OneLateDial` |
| `TCPScannerProofs!RateIsRespected` | `RateRespected` |
| `TCPScannerProofs!PromiseKept` | `KeepsPromise`: every behaviour of `TCPScanner` is one of `PortScan` |
| `WebServerProofs!TypeCorrect` | `TypeOK` of `WebServer` |
| `WebServerProofs!SlotsConserved` | `SlotsMatchHandlers` |
| `WebServerProofs!WatchedScansKeepRunner` | `WatchedScanKeepsRunner` |
| `WebServerProofs!StreamKept` | `KeepsStream`: every behaviour of `WebServer` is one of `LossyStream` |
| `StoreClientsProofs!TypeCorrect` | `TypeOK` of `StoreClients` |
| `StoreClientsProofs!FirstWriterTold` | `FirstWriterReports` |
| `StoreClientsProofs!MixedReportsExplained` | `MixedReportNeedsRace` |
| `StoreClientsProofs!ReplacedVersionsTold` | `ChangeReportedOrRaced` |
| `StoreClientsProofs!StaleStampsExplained` | `StaleStampsWereRaced` |
| `DiscoveryProofs!TypeCorrect` | `DiscoveryTypeOK` |
| `DiscoveryProofs!PromiseKept` | `KeepsPromise`: every behaviour of `Discovery` is one of `Gather` |
| `ReconProofs!ReconTypeCorrect` | `TypeOK` of `Recon` |
| `ReconProofs!ReconKeepsPromise` | `KeepsPromise`, of every scan |
| `ReconProofs!CancellationIsSeen` | `CancelledStartsNoPhase` |
| `ReconProofs!EntryPointsAlike` | `EntryPointsAgree` |
| `ReconProofs!SourcesScoped` | `SourcesStayInScope` |
| `ReconProofs!NoHostTwice` | `NoAssetTwice` |
| `ReconProofs!EachAddressAskedOnce` | `AddressesAskedOnce` |
| `ReconProofs!IntelDetermined` | `IndicatorsDetermined` |
| `ReconProofs!PortsNamedAsServed` | `NamedAsServed` |
| `ReconProofs!MailIsNotTakenForFTP` | `MailIsNotFTP` |
| `ReconProofs!VulnerabilitiesAsDescribed` | `CVEsAsDescribed` |
| `ReconProofs!TechnologiesFound` | `TechnologiesBySignature` |
| `ReconProofs!BucketsAllFound` | `BucketsFound` |

The assumptions are the named ones of the modules (`RunnerAssumption`,
`ScannerAssumption`, `WebAssumption`, `ClientsAssumption`, `NAssumption`,
`OutcomesAssumption`, `HostAssumption`, `LowerCaseAssumption`,
`LookupAssumption`, `CloudsAssumption`, `RequestsAssumption`,
`ServersAssumption`, `ResponsesAssumption`, `TextsAssumption`): the sets are of
the right kind, bounds are naturals, there is a job and a worker, a response is
whole before it is cut, and the beginning of a text contains no more patterns
than the text. `NewTCPScanner` replaces a worker count that is
not positive, and `Scan` returns early when there is no job.

**Runner.** `TypeOK` is not inductive: `idx` could pass the end of a list that
is reset, and a bucket could be saved where a name is expected. `PlaceInv` adds
where the program counter may be for that, and `ClockInv` that no row was seen
later than the current scan, from which `NothingForgotten` follows step by
step. `DiffsAgainstPreScan` needs three things that are invariants together:
until Phase 2 no port or service is written (`EarlyInv`); no name is live twice
(`LiveInv`: sources are merged without duplicates, and Phase 1c passes over
what is known), so that the writes for one asset never touch the history of one
still to come; and the assets not yet reached have the history they had before
the scan (`HistoryInv`). The lemmas of the first half say what one statement
does to the store, and `StorePortOK` and its like what one step of the code
that may fail does; the second half has one case for each action.

**Runner's reports** (`RunnerReportProofs`). `StoredInv` follows a scan in which
no store call failed: the live assets are saved, hence the ports of each are
accepted, hence the services; it speaks of the assets done (`ObservedInv` says
which those are) and of the ports the loop has passed at the asset at hand.
`BadgesInv` ties each badge to a difference found or still to be found, and
`EmitInv` the report to the differences. For report against store three facts
are needed: a row is older than this scan just when it was there before
(`FirstInv`), a new row is that of a port found (`NewRowsInv`, and
`OldServicesInv` for versions), and no difference that says anything is missing
(`CompleteInv`). `AllInv` is their conjunction with the invariants of
`RunnerProofs`; the two agreements follow from it in the states they speak of.

**TCPScanner.** The invariant follows one job: sent, received by one worker
(`JobsApart`), dialed, and if accepted in exactly one place, a worker, the
channel or the slice (`AcceptedOnce`); no job received is lost except after a
cancellation (`NoneForgotten`); and who closes what, when (`ClosingOrder`).
When `Scan` returns both channels are closed and empty, so the slice is what was
accepted, which is the step of `PortScan` that the refinement needs. For the rate
limit every tick delivered is counted where it is: in the ticker's buffer, with
a worker about to dial, or spent on a dial (`TokensCounted`).

**WebServer.** The invariant is local to a request (`Tied`): how the client, the
handler, the pipeline and the context of one request constrain each other; a
step of one request leaves the others alone (`OthersUntouched`), so only the
semaphore relates them. Its last conjunct carries `WatchedScansKeepRunner`: a
handler leaves its loop at the end of the stream or after its client. The
refinement maps the handler's event followed by the channel to the pending
events of `LossyStream`, so `NextEvent` is a stutter, `WriteToPage` a `Receive`
and `StreamEnds` a `MeetEnd`; the lemmas on `Numbers` are what the mapping needs
of sequences.

**StoreClients.** The invariant is local to a client once the store is known to
hold no row from the future (`ClockInv`): a save's stamp is the time of its
call, and a row younger than the stamp means that the save was overtaken
(`StampInv`), which is `StaleStampsWereRaced`. Rows the client has not
reached and nobody else has written are as its history says (`FreshInv`);
`FirstInv`, `MixedInv` and `ChangeInv` carry each property from the moment the
row is written to the report. Every step of one client has to keep the
invariant of every other, which the ghosts that record overtaking allow.

**Discovery.** `MergedTo` is the loop invariant of the merge at item n of slot
s: the list is what the merge has come past (`Past`), each name once, under the
first source that has it, in source order. `PhaseInv` says that nothing merges
before all slots are written. At the end of the last slot `MergedTo` is what
`Gather` asks of a reply (`ReturnIsReply`). `PromiseKept` is about the call on
its own (`DiscoverySpec`); `ReconKeepsPromise` carries it to its place in a scan,
where every step is one of `Discover`'s or leaves its variables alone
(`DiscoverySteps`).

**Lists.** What the proofs about a scan keep needing of lists, once: a selection
by positions has just the items at them (`ItemsAtPositions`, `ItemsAtDomain`),
`Unique` has every item once (`UniqueItems`), and what appending, joining and
flattening keep. `FlattenSeq` of the community modules is a recursive function,
and an induction over it would need the library's theorems with an operator
parameter; the lemmas argue instead from the least length for which the claim
would fail (`LeastNat`, `FlattenUnrolled`, `FlattenItems`).

**Recon.** Each component keeps its variables to itself, so `ReconProofs` sorts
the steps of a scan by what they do to each (`DiscoverySteps`,
`ResolutionSteps`, `HuntSteps`, `ProbeSteps`, `RequestSteps`) and gives each an
invariant of its own. `StageInv` and `ProbeInv` are the types, and that a call's
locals are empty outside the phase that makes the call; what is at hand when a
phase begins comes from the invariant of the one before.

- *The request.* `RequestInv`: what is configured is what the entry point made of
  the request it took. The rest is about `ServerPorts`, `CLIPorts` and the
  clamping, for every list of ports and every number.
- *The hunt.* `HuntInv`: at index `at` the results are, once each, the URLs before
  it that answer, and all of them unless the scan is cancelled. The URLs are
  those of every suggested name in every pattern, each once (`CandidateNames`,
  `URLItems`), which needs that the domain is in lower case (`DomainInv`).
- *Resolution.* `ResolutionInv`: the names still to resolve are new to the live
  assets and distinct, which is the promise of `Gather` (`Names1aType`); every
  address of an asset is looked up or waits to be, unless the asset came by a
  PTR record.
- *Scope.* `ScopeInv` follows what is within the target from the sources' answers
  over the slots, the merged list and the names to resolve to the live assets.
- *Ports.* `IdentifiedInv`: name, version and vulnerabilities of a reported port
  are those of what is left of its server's banner; `FetchedInv`: its technologies
  are those of a response of its server, cut or whole. `SoftBeginnings`,
  `VersionBeginnings` and `WordBeginnings` say what a cut leaves of each field,
  `CutHolds` and `CutIsOlder` that it contains no more and is no newer. What
  remains is a case for every parser, rule and table. For the rules, `LessByWeight` is the point:
  the comparison part by part is that of the weights, so that each rule's two
  bounds become an interval.
- *Indicators.* Go walks its maps in no order; `ScanOnce` says that a host has at
  most one provider among the keys of the tables, so every order gives one list.

One theorem about `Recon` has hypotheses besides the assumptions.
`SourcesScoped`: `Outcomes` are what the three sources make of some answers for
one target in lower case, and the scan is of that target (`OneTarget`), as the
constant `Outcomes` does not depend on the request; the answers are any lists of
names. The instance of `recon` satisfies it. `CVEsAsDescribed` itself speaks of
versions of at most three parts, each below a hundred (`Plain`), which is what
`Weight`, the scale on which it is stated, can tell apart; `Less` has no such
limit.

What stays with TLC: `Terminates`, `PipelineEnds`, `SlotReturned` and
`ReconTerminates`, which are liveness under fairness. Every other invariant and
action property that a passing run checks is also a theorem.

## 5. Not modelled, and the plan

Left to do, in this order:

1. `ChangeLedger`: what a monitoring user wants of a sequence of scans, with
   `Runner` refining it where it does; the closed side of the diff needs the
   set of probed endpoints in `Runner`.
2. Proofs: that `Less` is an order on versions of any length (`LessByWeight`
   gives it for plain ones), and `ChangeLedger` once it is there.

Not planned: the building of requests and the decoding of JSON, URLs and HTTP;
severities, descriptions and other texts; the printing of the command line and
the page's rendering; the interval that a rate limit is converted to (above
10^9 it is zero and the ticker panics); bare IP addresses as targets, which the
server refuses when private; and the container set-up. They hold no state and
decide nothing that another part depends on beyond the choices the models
already leave open.
