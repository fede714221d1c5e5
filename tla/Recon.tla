-------------------------------- MODULE Recon --------------------------------
(***************************************************************************)
(* One scan from its request to its end, in the detail that module Runner  *)
(* leaves open: the entry points (Options), the sources and their merge    *)
(* (Sources, Discovery), resolution and PTR enrichment (Resolution), DNS   *)
(* intelligence (DNSIntel), the identification of open ports (Banner,      *)
(* VulnDB, WebStack) and the bucket hunt (Buckets), in the order           *)
(* runner.go's execute calls them and with the looks at the context        *)
(* between them.  Which ports accept is modules PortScan's and             *)
(* TCPScanner's subject, what is stored and diffed is Runner's.            *)
(*                                                                         *)
(* A phase's values are reset when no later code reads them.               *)
(***************************************************************************)
EXTENDS Sources, Discovery, Resolution, Buckets, Options, DNSIntel, VulnDB, WebStack

CONSTANTS
  Requests,     \* [front, target, ports, workers, timeout, rate]
  TXTs,         \* answers to the TXT lookup: <<>> or <<records>>
  MXs,          \* answers to the MX lookup
  OpenPorts,    \* lists of ports that phase 2 finds open
  Servers,      \* what runs behind an open port
  Responses     \* what it answers to GET /

ASSUME HostAssumption == Host \subseteq Seq(STRING)

ASSUME RequestsAssumption ==
  \A r \in Requests :
    /\ r.front \in {"cli", "server"} /\ r.target \in Seq(STRING) /\ r.ports \in Seq(Int)
    /\ \A o \in {r.workers, r.timeout, r.rate} : o.kind \in {"none", "bad", "num"} /\ o.n \in Int

\* A version is that of the software an SSH or HTTP banner names.
ASSUME ServersAssumption ==
  \A s \in Servers :
    LET b == s.banner
    IN  /\ b = [proto |-> b.proto, soft |-> b.soft, version |-> b.version, words |-> b.words]
        /\ b.soft \in Seq(STRING) /\ Len(b.soft) <= 1
        /\ b.version \in Seq(Int) /\ b.words \in Seq(STRING)
        /\ b.version # <<>> => b.proto \in {"SSH", "HTTP"} /\ b.soft \notin {<<>>, <<"">>}

\* What a server answers is whole; Received cuts it.
ASSUME ResponsesAssumption ==
  \A r \in Responses :
    /\ r = [whole |-> TRUE, head |-> r.head, headers |-> r.headers, body |-> r.body]
    /\ \A h \in DOMAIN r.headers : r.headers[h] \in Seq(STRING)

VARIABLES
  stage,        \* the phase execute is in
  request,      \* <<>> or <<the request>>
  cfg,          \* <<>> or <<the pipeline.Config made of it>>
  domain,       \* cfg.Domain
  anyLive,      \* len(liveAssets) > 0
  intel,        \* [txt, mx, list]: the lookups of phase 1d and the indicators
  open,         \* open ports not identified yet
  probe         \* the open port being identified

reconVars == <<stage, request, cfg, domain, anyLive, intel, open, probe>>
vars == <<reconVars, discoveryVars, resolutionVars, bucketVars, cancelled>>

NoIntel == [txt |-> <<>>, mx |-> <<>>, list |-> <<>>]
NoProbe == [step |-> "none", port |-> 0, server |-> <<>>, response |-> <<>>, read |-> <<>>,
            name |-> "", version |-> <<>>, cves |-> <<>>, fetched |-> <<>>, techs |-> <<>>]

ReconInit ==
  /\ DiscoveryInit /\ ResolutionInit /\ BucketsInit
  /\ cancelled = FALSE
  /\ stage = "request"
  /\ request \in {<<r>> : r \in Requests}
  /\ cfg = <<>> /\ domain = <<>> /\ anyLive = FALSE
  /\ intel = NoIntel /\ open = <<>> /\ probe = NoProbe

Others == UNCHANGED <<request, cfg, domain, anyLive, intel, open, probe>>

\* --- the request ----------------------------------------------------------

Configure(accepted, config) ==
  /\ stage' = IF accepted THEN "configured" ELSE "done"
  /\ cfg' = IF accepted THEN <<config>> ELSE <<>>
  /\ UNCHANGED <<request, domain, anyLive, intel, open, probe>>
  /\ UNCHANGED <<discoveryVars, resolutionVars, bucketVars, cancelled>>

RunCLI ==
  /\ stage = "request" /\ request[1].front = "cli"
  /\ Configure(CLIAccepts(request[1]), CLIConfig(request[1]))

HandleScan ==
  /\ stage = "request" /\ request[1].front = "server"
  /\ Configure(ServerAccepts(request[1]), buildConfig(request[1]))

\* Ports are looked for once phase 1 has left live assets.
BeginPhase2 ==
  /\ stage' = "2"
  /\ open' \in OpenPorts

\* A local target has one synthetic asset and no phase 1.
Launch ==
  /\ stage = "configured"
  /\ domain' = cfg[1].domain
  /\ request' = <<>> /\ cfg' = <<>>
  /\ \/ ~cfg[1].local /\ stage' = "1a" /\ BeginDiscover /\ UNCHANGED open
     \/ cfg[1].local /\ ~cancelled /\ BeginPhase2 /\ UNCHANGED discoveryVars
     \/ cfg[1].local /\ cancelled /\ stage' = "done" /\ UNCHANGED <<open, discoveryVars>>
  /\ UNCHANGED <<anyLive, intel, probe, resolutionVars, bucketVars, cancelled>>

\* --- phase 1 --------------------------------------------------------------

Phase1a ==
  /\ stage = "1a" /\ DiscoverStep
  /\ Others /\ UNCHANGED <<stage, resolutionVars, bucketVars, cancelled>>

SourceAnswers(i) ==
  /\ Answer(i)
  /\ Others /\ UNCHANGED <<stage, resolutionVars, bucketVars, cancelled>>

CollectAtOnce ==   \* mutant: a cancelled scan does not wait for its sources
  /\ stage = "1a"
  /\ \/ ~cancelled /\ ~failed /\ TakeResult /\ stage' = "1b"
        /\ BeginResolve([k \in DOMAIN result |-> result[k].name]) /\ UNCHANGED bucketVars
     \/ ~cancelled /\ failed /\ TakeResult /\ stage' = "3"
        /\ BeginHunt(domain) /\ UNCHANGED resolutionVars
     \/ cancelled /\ stage' = "done"
        /\ UNCHANGED <<discoveryVars, resolutionVars, bucketVars, cancelled>>
  /\ Others

\* Without a single source there are no assets; the hunt for buckets goes on.
CollectNames ==
  /\ stage = "1a" /\ TakeResult
  /\ \/ ~failed /\ ~cancelled /\ stage' = "1b"
        /\ BeginResolve([k \in DOMAIN result |-> result[k].name]) /\ UNCHANGED bucketVars
     \/ failed /\ ~cancelled /\ stage' = "3"
        /\ BeginHunt(domain) /\ UNCHANGED resolutionVars
     \/ cancelled /\ stage' = "done" /\ UNCHANGED <<resolutionVars, bucketVars, cancelled>>
  /\ Others

Phase1bc ==
  /\ stage = "1b" /\ ResolveNext
  /\ Others /\ UNCHANGED <<stage, discoveryVars, bucketVars>>

CollectRegardless ==   \* mutant: no look at the context after phase 1c
  /\ stage = "1b" /\ TakeAssets
  /\ stage' = "1d"
  /\ anyLive' = (live # <<>>)
  /\ UNCHANGED <<request, cfg, domain, intel, open, probe, discoveryVars, bucketVars>>

CollectAssets ==
  /\ stage = "1b" /\ TakeAssets
  /\ stage' = IF cancelled THEN "done" ELSE "1d"
  /\ anyLive' = (live # <<>>)
  /\ UNCHANGED <<request, cfg, domain, intel, open, probe, discoveryVars, bucketVars>>

Phase1d ==
  /\ stage = "1d" /\ intel = NoIntel
  /\ \E txt \in TXTs, mx \in MXs : \E list \in Scan(txt, mx) :
       intel' = [txt |-> <<txt>>, mx |-> <<mx>>, list |-> list]
  /\ UNCHANGED <<stage, request, cfg, domain, anyLive, open, probe>>
  /\ UNCHANGED <<discoveryVars, resolutionVars, bucketVars, cancelled>>

EndPhase1 ==
  /\ stage = "1d" /\ intel # NoIntel
  /\ intel' = NoIntel /\ anyLive' = FALSE
  /\ \/ cancelled /\ stage' = "done" /\ UNCHANGED <<open, bucketVars>>
     \/ ~cancelled /\ anyLive /\ BeginPhase2 /\ UNCHANGED bucketVars
     \/ ~cancelled /\ ~anyLive /\ stage' = "3" /\ BeginHunt(domain) /\ UNCHANGED open
  /\ UNCHANGED <<request, cfg, domain, probe, discoveryVars, resolutionVars, cancelled>>

\* --- phase 2: one open port after another, each over two connections ------

Inspecting == UNCHANGED <<stage, request, cfg, domain, anyLive, intel, discoveryVars,
                          resolutionVars, bucketVars, cancelled>>

\* The service is identified and looked up, or the port is reported bare.
GrabBanner ==
  /\ stage = "2" /\ open # <<>> /\ probe = NoProbe
  /\ \E server \in Servers : \E read \in Grabs(server, open[1]) :
       \/ read = NoBanner /\ open' = Tail(open) /\ UNCHANGED probe
       \/ /\ read # NoBanner
          /\ LET svc == parseServiceBanner(read[1])
             IN  \E response \in Responses :
                   probe' = [NoProbe EXCEPT !.step = "grabbed", !.port = open[1],
                                            !.server = <<server>>, !.response = <<response>>,
                                            !.read = read, !.name = svc.name,
                                            !.version = svc.version,
                                            !.cves = Check(svc.name, svc.version)]
          /\ UNCHANGED open
  /\ Inspecting

\* Only web services and the ports of the web are asked for a page.
FetchPage ==
  /\ stage = "2" /\ probe.step = "grabbed"
  /\ \E fetched \in
        IF probe.name \in webServiceNames \/ CanFingerprint(probe.port)
        THEN FetchWeb(probe.server[1], probe.response[1], probe.port) ELSE {<<>>} :
       probe' = [probe EXCEPT !.step = "reported", !.fetched = fetched,
                              !.techs = FingerprintWeb(fetched)]
  /\ UNCHANGED open
  /\ Inspecting

NextPort ==
  /\ stage = "2" /\ probe.step = "reported"
  /\ open' = Tail(open)
  /\ probe' = NoProbe
  /\ Inspecting

EndPhase2 ==
  /\ stage = "2" /\ open = <<>> /\ probe = NoProbe
  /\ \/ cancelled /\ stage' = "done" /\ UNCHANGED bucketVars
     \/ ~cancelled /\ stage' = "3" /\ BeginHunt(domain)
  /\ Others /\ UNCHANGED <<discoveryVars, resolutionVars, cancelled>>

\* --- phase 3 --------------------------------------------------------------

Phase3 ==
  /\ stage = "3" /\ HuntNext
  /\ Others /\ UNCHANGED <<stage, discoveryVars, resolutionVars>>

CollectBuckets ==
  /\ stage = "3" /\ TakeBuckets
  /\ stage' = "done"
  /\ Others /\ UNCHANGED <<discoveryVars, resolutionVars>>

CancelScan ==
  /\ stage # "done" /\ Cancel
  /\ UNCHANGED <<reconVars, discoveryVars, resolutionVars, bucketVars>>

----------------------------------------------------------------------------
Execute ==
  \/ RunCLI \/ HandleScan \/ Launch
  \/ Phase1a \/ CollectNames \/ Phase1bc \/ CollectAssets \/ Phase1d \/ EndPhase1
  \/ GrabBanner \/ FetchPage \/ NextPort \/ EndPhase2
  \/ Phase3 \/ CollectBuckets

Next == Execute \/ (\E i \in 1..N : SourceAnswers(i)) \/ CancelScan

\* The pipeline's goroutine runs on, and every source answers or fails: its
\* HTTP client has a timeout.
Spec ==
  /\ ReconInit /\ [][Next]_vars
  /\ WF_vars(Execute)
  /\ \A i \in 1..N : WF_vars(SourceAnswers(i))
----------------------------------------------------------------------------
TypeOK ==
  /\ DiscoveryTypeOK
  /\ stage \in {"request", "configured", "1a", "1b", "1d", "2", "3", "done"}
  /\ rpc \in {"idle", "resolve", "lookup", "adopt", "done"}
  /\ bpc \in {"idle", "loop", "flight", "done"}
  /\ probe.step \in {"none", "grabbed", "reported"}
  /\ {cancelled, anyLive} \subseteq BOOLEAN
  /\ Len(request) <= 1 /\ Len(cfg) <= 1
  /\ dpc # "idle" => stage = "1a"
  /\ rpc # "idle" => stage = "1b"
  /\ bpc # "idle" => stage = "3"

\* Both entry points hand on ports that are valid, distinct and at least one,
\* and settings under which neither the worker pool nor a dial can hang; and
\* what the command line accepts, the server reads as the same target and ports
\* (server.go:249-255, main.go:245-249, tcp_scanner.go:52-55).
EntryPointsAgree ==
  stage = "configured" =>
    LET c == cfg[1]
        r == request[1]
    IN  /\ c.ports # <<>> /\ IsInjective(c.ports) /\ \A k \in DOMAIN c.ports : ValidPort(c.ports[k])
        /\ ScannerSettings(c).timeout > 0 /\ ScannerSettings(c).workers > 0
        /\ ScannerSettings(c).rate >= 0 /\ FingerprintTimeout(c) > 0
        /\ r.front = "server" =>
             ScannerSettings(c).workers <= maxWorkers /\ ScannerSettings(c).timeout <= maxScanTimeout
        /\ CLIAccepts(r) =>
             \A f \in {"domain", "ports", "local"} : CLIConfig(r)[f] = buildConfig(r)[f]

\* A host outside the target comes in by a PTR record only: every source's
\* names, whatever certificates and archives say, are within it (scope.go:10).
SourcesStayInScope ==
  \A k \in DOMAIN live : InScope(live[k].domain, domain) \/ Contains(ptr, live[k].domain)

\* The indicators are a function of the records, although the tables are maps
\* and Go iterates over a map in no order.
IndicatorsDetermined ==
  intel # NoIntel => Scan(intel.txt[1], intel.mx[1]) = {intel.list}

\* The affected versions on which description and comment of a rule agree:
\* "affects 8.5p1-9.7p1", "only affects 2.4.49", "all 2.4.x before 2.4.52" and
\* "pre-1.20.1"; and those on which they do not (vulndb.go:129 against 135, 140
\* against 145).
Weight(v) == LET At(i) == IF i \in DOMAIN v THEN v[i] ELSE 0 IN At(1) * 10000 + At(2) * 100 + At(3)
Affects(cve, soft, v) ==
  \/ cve = "CVE-2024-6387"  /\ soft = "openssh" /\ Weight(v) \in 80501..90701
  \/ cve = "CVE-2021-41773" /\ soft = "apache"  /\ Weight(v) = 20449
  \/ cve = "CVE-2021-44790" /\ soft = "apache"  /\ Weight(v) \in 20400..20451
  \/ cve = "CVE-2021-23017" /\ soft = "nginx"   /\ Weight(v) < 12001
Disputed(cve, soft, v) ==
  \/ cve = "CVE-2021-41773" /\ soft = "apache"  /\ Weight(v) = 20450
  \/ cve = "CVE-2021-44790" /\ soft = "apache"  /\ Weight(v) < 20400
Described == {"CVE-2024-6387", "CVE-2021-41773", "CVE-2021-44790", "CVE-2021-23017"}
SinceEver == {"CVE-2021-44790", "CVE-2021-23017"}

\* A version that Weight orders as compareVersions does, and that has no
\* distribution suffix: "1.20.1-debian" counts as 1.20.0 (vulndb.go:330-338).
Plain(v) == v \in Seq(Int) /\ Len(v) <= 3 /\ \A k \in DOMAIN v : v[k] \in 0..99

\* From the wire to the report: a server whose whole banner was read is
\* reported with the vulnerabilities that both texts give its version, and none
\* that neither does; a version cut short hides none of those without a first
\* affected version; and nothing is held against software without a version.
CVEsAsDescribed ==
  probe.step # "none" =>
    LET banner == probe.server[1].banner
        v == banner.version
        found == ToSet(probe.cves) \cap Described
        Sure(cve) == Affects(cve, banner.soft[1], v)
    IN  /\ probe.version = <<>> => found = {}
        /\ probe.version # <<>> /\ Plain(v) =>
             /\ {c \in SinceEver : Sure(c)} \subseteq found
             /\ probe.read = <<banner>> =>
                  /\ {c \in Described : Sure(c)} \subseteq found
                  /\ found \subseteq {c \in Described : Sure(c) \/ Disputed(c, banner.soft[1], v)}

\* A read that ends early leaves a beginning of the name, taken for the name
\* ("open", "ngi"); but a version is only ever reported with the whole name of
\* what the server runs, is a beginning of its version, and a whole read names
\* it (banner_fingerprinter.go:196, 238, 266).
NamedAsServed ==
  probe.step # "none" /\ probe.server[1].banner.proto \in {"SSH", "HTTP"} =>
    LET banner == probe.server[1].banner
        v == probe.version
        Protocol == IF banner.proto = "SSH" THEN "ssh" ELSE "http"
    IN  /\ probe.name \in {Protocol, ""} \cup ToSet(banner.soft)
                          \cup UNION {Cut(name) : name \in ToSet(banner.soft)}
        /\ probe.read = <<banner>> /\ banner.soft \notin {<<>>, <<"">>} =>
             probe.name = banner.soft[1] /\ v = banner.version
        /\ v # <<>> =>
             /\ banner.soft = <<probe.name>>
             /\ Len(v) <= Len(banner.version)
             /\ \A k \in 1..Len(v) - 1 : v[k] = banner.version[k]

\* A mail server that announces itself in what was read is not taken for FTP by
\* its host name, nor an FTP server for mail (banner_fingerprinter.go:312-318);
\* however early the read ends, a greeting is not given to a protocol of which
\* the whole greeting says nothing.
MailIsNotFTP ==
  probe.step # "none" /\ probe.server[1].banner.proto = "220" =>
    LET banner == probe.server[1].banner
    IN  /\ probe.name \in {"smtp", "ftp", ""}
        /\ probe.name = "smtp" => Says(banner, smtpKeywords)
        /\ probe.name = "ftp"  => Says(banner, ftpKeywords) /\ ~Says(probe.read[1], smtpKeywords)
        /\ probe.read = <<banner>> /\ Says(banner, smtpKeywords) => probe.name = "smtp"

\* What a response gives away by any signature, to a reader of the first value
\* of each header.
Signed(r) ==
  LET shown  == {rule \in ToSet(headerRules) : Values(r.headers, rule.header) # <<>>}
      Value(rule) == Values(r.headers, rule.header)[1]
      Named(table, text) == {sign.name : sign \in {x \in ToSet(table) : Has(text, x.pattern)}}
  IN  ({rule.name : rule \in {x \in shown : x.value = "" \/ Has(Value(x), x.value)}}
        \cup {Value(rule) : rule \in {x \in shown : x.name = ""}}
        \cup (UNION {Named(cookieRules, c) : c \in ToSet(Values(r.headers, "Set-Cookie"))})
        \cup Named(bodyRules, r.body)) \ {""}

\* What a text gives away when it is searched as the page.
SignedAsPage(text) == {sign.name : sign \in {x \in ToSet(bodyRules) : Has(text, x.pattern)}}

\* A technology that headers, cookies and page betray together is reported
\* once; a whole response yields all it gives away, one cut in its body nothing
\* more, and one cut in its headers, which are then searched as the page
\* (web_stack_fingerprinter.go:276), no more than a page of their text; and a
\* page is asked of web ports and web servers alone.
TechnologiesBySignature ==
  probe.step = "reported" =>
    LET names == [k \in DOMAIN probe.techs |-> probe.techs[k].name]
        response == probe.response[1]
    IN  /\ IsInjective(names)
        /\ probe.fetched # <<>> =>
             ToSet(names) \subseteq IF probe.fetched[1].whole THEN Signed(response)
                                   ELSE SignedAsPage(response.head)
        /\ probe.fetched = probe.response => ToSet(names) = Signed(response)
        /\ names # <<>> => CanFingerprint(probe.port) \/ probe.name \in webServiceNames

\* The looks at the context: once it is cancelled no phase is entered but the
\* first, whose sources then fail of their own.
CancelledStartsNoPhase ==
  [][cancelled /\ stage' # stage => stage' \in {"configured", "1a", "done"}]_vars

\* Every scan ends, whatever the network answers or does not.
ReconTerminates == <>(stage = "done")
==============================================================================
