------------------------------ MODULE ReconProofs ------------------------------
(***************************************************************************)
(* What the phases of a scan guarantee for every target, whatever the      *)
(* sources, the resolver and the clouds answer, and whenever the scan is   *)
(* cancelled.                                                              *)
(*                                                                         *)
(* The components keep their variables to themselves, so each gets its own *)
(* invariant.  The steps of a scan are first sorted by what they do to     *)
(* each component (RequestSteps, DiscoverySteps, ResolutionSteps,          *)
(* HuntSteps, ProbeSteps); the proofs about a component look at those only.*)
(***************************************************************************)
EXTENDS Recon, DiscoveryProofs, ListsProofs

\* A cancelled scan enters no phase but the first (runner.go:380-391).
LEMMA CancelStep == [Next]_vars => [cancelled /\ stage' # stage => stage' \in {"configured", "1a", "done"}]_vars
<1> SUFFICES ASSUME Next, cancelled, stage' # stage
             PROVE  stage' \in {"configured", "1a", "done"}
  OBVIOUS
<1>1. CASE RunCLI \/ HandleScan
  BY <1>1 DEF RunCLI, HandleScan, Configure
<1>2. CASE Launch
  BY <1>2 DEF Launch
<1>3. CASE Phase1a \/ Phase1bc \/ Phase1d \/ GrabBanner \/ FetchPage \/ NextPort \/ Phase3
  BY <1>3 DEF Phase1a, Phase1bc, Phase1d, GrabBanner, FetchPage, NextPort, Phase3, Inspecting
<1>4. CASE CollectNames \/ CollectAssets
  BY <1>4 DEF CollectNames, CollectAssets
<1>5. CASE EndPhase1 \/ EndPhase2
  BY <1>5 DEF EndPhase1, EndPhase2
<1>6. CASE CollectBuckets
  BY <1>6 DEF CollectBuckets
<1>7. CASE (\E i \in 1..N : SourceAnswers(i)) \/ CancelScan
  BY <1>7 DEF SourceAnswers, CancelScan, reconVars
<1> QED
  BY <1>1, <1>2, <1>3, <1>4, <1>5, <1>6, <1>7 DEF Next, Execute

THEOREM CancellationIsSeen == Spec => CancelledStartsNoPhase
<1>1. Spec => [][Next]_vars
  BY PTL DEF Spec
<1> QED
  BY <1>1, CancelStep, PTL DEF CancelledStartsNoPhase

----------------------------------------------------------------------------
(* The steps, by what they do to each component.                           *)

\* The arguments phase 1b gets from phase 1a.
Names1a == [k \in DOMAIN result |-> result[k].name]

LEMMA DiscoverySteps == [Next]_vars => [Step]_discoveryVars
<1> SUFFICES ASSUME Next PROVE [Step]_discoveryVars
  BY DEF vars, discoveryVars
<1>1. CASE Launch
  BY <1>1 DEF Launch, Step
<1>2. CASE Phase1a
  BY <1>2 DEF Phase1a, Step, DiscoverNext
<1>3. CASE CollectNames
  BY <1>3 DEF CollectNames, Step
<1>4. CASE \E i \in 1..N : SourceAnswers(i)
  BY <1>4 DEF SourceAnswers, Step, DiscoverNext
<1>5. CASE ~Launch /\ ~Phase1a /\ ~CollectNames /\ ~\E i \in 1..N : SourceAnswers(i)
  <2>1. UNCHANGED discoveryVars
    BY <1>5 DEF Next, Execute, RunCLI, HandleScan, Configure, Phase1bc, CollectAssets, Phase1d,
      EndPhase1, GrabBanner, FetchPage, NextPort, EndPhase2, Phase3, CollectBuckets, CancelScan,
      Inspecting
  <2> QED
    BY <2>1
<1> QED
  BY <1>1, <1>2, <1>3, <1>4, <1>5

LEMMA ResolutionSteps ==
  [Next]_vars =>
    \/ UNCHANGED resolutionVars
    \/ stage = "1a" /\ stage' = "1b" /\ dpc = "returned" /\ domain' = domain /\ BeginResolve(Names1a)
    \/ stage = "1b" /\ stage' = "1b" /\ domain' = domain /\ ResolveNext
    \/ stage = "1b" /\ stage' # "1b" /\ TakeAssets
<1> HAVE [Next]_vars
<1>1. CASE CollectNames
  BY <1>1 DEF CollectNames, Names1a, Others, TakeResult
<1>2. CASE Phase1bc
  BY <1>2 DEF Phase1bc, Others
<1>3. CASE CollectAssets
  BY <1>3 DEF CollectAssets
<1>4. CASE Next /\ ~CollectNames /\ ~Phase1bc /\ ~CollectAssets
  BY <1>4 DEF Next, Execute, RunCLI, HandleScan, Configure, Launch, Phase1a, Phase1d,
    EndPhase1, GrabBanner, FetchPage, NextPort, EndPhase2, Phase3, CollectBuckets, CancelScan,
    SourceAnswers, Inspecting
<1>5. CASE UNCHANGED vars
  BY <1>5 DEF vars
<1> QED
  BY <1>1, <1>2, <1>3, <1>4, <1>5

LEMMA HuntSteps ==
  [Next]_vars =>
    \/ UNCHANGED bucketVars
    \/ stage # "3" /\ stage' = "3" /\ domain' = domain /\ BeginHunt(domain)
    \/ stage = "3" /\ stage' = "3" /\ HuntNext
    \/ stage = "3" /\ stage' # "3" /\ TakeBuckets
<1> HAVE [Next]_vars
<1>1. CASE CollectNames
  BY <1>1 DEF CollectNames, Others
<1>2. CASE EndPhase1
  BY <1>2 DEF EndPhase1
<1>3. CASE EndPhase2
  BY <1>3 DEF EndPhase2, Others
<1>4. CASE Phase3
  BY <1>4 DEF Phase3
<1>5. CASE CollectBuckets
  BY <1>5 DEF CollectBuckets
<1>6. CASE Next /\ ~CollectNames /\ ~EndPhase1 /\ ~EndPhase2 /\ ~Phase3 /\ ~CollectBuckets
  BY <1>6 DEF Next, Execute, RunCLI, HandleScan, Configure, Launch, Phase1a, Phase1bc, CollectAssets,
    Phase1d, GrabBanner, FetchPage, NextPort, CancelScan, SourceAnswers, Inspecting
<1>7. CASE UNCHANGED vars
  BY <1>7 DEF vars
<1> QED
  BY <1>1, <1>2, <1>3, <1>4, <1>5, <1>6, <1>7

\* A context that is cancelled stays cancelled.
LEMMA ContextSteps == [Next]_vars => cancelled' = cancelled \/ (cancelled' = TRUE /\ UNCHANGED <<resolutionVars, bucketVars>>)
<1> HAVE [Next]_vars
<1>1. CASE CancelScan
  BY <1>1 DEF CancelScan, Cancel
<1>2. CASE Phase1bc \/ CollectAssets
  BY <1>2 DEF Phase1bc, CollectAssets, ResolveNext, ResolveName, EndResolve, LookupAddr, EndEnrich,
    AdoptName, EndAdopt, StopResolving, TakeAssets
<1>3. CASE Phase3 \/ CollectBuckets
  BY <1>3 DEF Phase3, CollectBuckets, HuntNext, Probe, Respond, Abort, EndHunt, TakeBuckets
<1>4. CASE CollectNames \/ EndPhase1 \/ EndPhase2
  BY <1>4 DEF CollectNames, EndPhase1, EndPhase2, BeginResolve, BeginHunt
<1>5. CASE Next /\ ~CancelScan /\ ~Phase1bc /\ ~CollectAssets /\ ~Phase3 /\ ~CollectBuckets
           /\ ~CollectNames /\ ~EndPhase1 /\ ~EndPhase2
  BY <1>5 DEF Next, Execute, RunCLI, HandleScan, Configure, Launch, Phase1a, Phase1d, GrabBanner,
    FetchPage, NextPort, SourceAnswers, Inspecting
<1>6. CASE UNCHANGED vars
  BY <1>6 DEF vars
<1> QED
  BY <1>1, <1>2, <1>3, <1>4, <1>5, <1>6

----------------------------------------------------------------------------
(* Discovery within the scan.                                              *)

LEMMA DiscoveryInvariant == Spec => []IInv
<1>1. ReconInit => IInv
  BY InitInv DEF ReconInit
<1>2. IInv /\ [Next]_vars => IInv'
  BY DiscoverySteps, InvStep
<1> QED
  BY <1>1, <1>2, PTL DEF Spec

\* Discover keeps its promise in the scan that calls it, too: whatever the
\* scan does meanwhile, the reply comes when every source has answered and is
\* the first occurrence of every name (multi_source_discoverer.go:55-71).
THEOREM ReconKeepsPromise == Spec => KeepsPromise
<1>1. ReconInit => Promise!Init
  BY DEF ReconInit, DiscoveryInit, Locals, Promise!Init
<1>2. IInv /\ [Next]_vars => [Promise!Next]_Promise!gatherVars
  BY DiscoverySteps, StepRefines
<1> QED
  BY <1>1, <1>2, DiscoveryInvariant, PTL DEF Spec, KeepsPromise, Promise!Spec

----------------------------------------------------------------------------
(* Which component is at work in which phase.                              *)

\* A probe has the fields of NoProbe.
IsProbe(p) ==
  p = [step |-> p.step, port |-> p.port, server |-> p.server, response |-> p.response,
       read |-> p.read, name |-> p.name, version |-> p.version, cves |-> p.cves,
       fetched |-> p.fetched, techs |-> p.techs]

\* A component's locals live as long as the phase that calls it; the request
\* and the configuration until the scan is launched.
StageInv ==
  /\ stage \in {"request", "configured", "1a", "1b", "1d", "2", "3", "done"}
  /\ rpc \in {"idle", "resolve", "lookup", "adopt", "done"}
  /\ bpc \in {"idle", "loop", "flight", "done"}
  /\ stage = "1a" <=> dpc # "idle"
  /\ stage = "1b" <=> rpc # "idle"
  /\ stage = "3" <=> bpc # "idle"
  /\ cancelled \in BOOLEAN /\ anyLive \in BOOLEAN
  /\ request = <<>> \/ \E r \in Requests : request = <<r>>
  /\ cfg = <<>> \/ \E c : cfg = <<c>>

ProbeInv ==
  /\ probe.step \in {"none", "grabbed", "reported"}
  /\ IsProbe(probe)
  /\ probe.step = "none" <=> probe = NoProbe

LEMMA StageStep == StageInv /\ [Next]_vars => StageInv'
<1> SUFFICES ASSUME StageInv, [Next]_vars PROVE StageInv'
  OBVIOUS
<1>1. CASE RunCLI \/ HandleScan
  <2>1. stage' \in {"configured", "done"} /\ stage = "request" /\ UNCHANGED <<request, anyLive, cancelled>>
        /\ UNCHANGED <<discoveryVars, resolutionVars, bucketVars>>
    BY <1>1 DEF RunCLI, HandleScan, Configure
  <2>2. cfg' = <<>> \/ \E c : cfg' = <<c>>
    BY <1>1 DEF RunCLI, HandleScan, Configure
  <2> QED
    BY <2>1, <2>2 DEF StageInv, discoveryVars, resolutionVars, bucketVars
<1>2. CASE Launch
  BY <1>2 DEF Launch, BeginPhase2, BeginDiscover, StageInv, discoveryVars, resolutionVars, bucketVars
<1>3. CASE Phase1a
  BY <1>3 DEF Phase1a, DiscoverStep, Wait, MergeName, NextSource, Return, Others, StageInv,
    resolutionVars, bucketVars
<1>4. CASE CollectNames
  BY <1>4 DEF CollectNames, TakeResult, BeginResolve, BeginHunt, Others, StageInv, resolutionVars, bucketVars
<1>5. CASE Phase1bc
  BY <1>5 DEF Phase1bc, ResolveNext, ResolveName, EndResolve, LookupAddr, EndEnrich, AdoptName,
    EndAdopt, StopResolving, Others, StageInv, discoveryVars, bucketVars
<1>6. CASE CollectAssets
  BY <1>6 DEF CollectAssets, TakeAssets, StageInv, discoveryVars, bucketVars
<1>7. CASE EndPhase1
  BY <1>7 DEF EndPhase1, BeginPhase2, BeginHunt, StageInv, discoveryVars, resolutionVars, bucketVars
<1>8. CASE EndPhase2
  BY <1>8 DEF EndPhase2, BeginHunt, Others, StageInv, discoveryVars, resolutionVars, bucketVars
<1>9. CASE Phase3
  BY <1>9 DEF Phase3, HuntNext, Probe, Respond, Abort, EndHunt, Others, StageInv, discoveryVars,
    resolutionVars
<1>10. CASE CollectBuckets
  BY <1>10 DEF CollectBuckets, TakeBuckets, Others, StageInv, discoveryVars, resolutionVars
<1>11. CASE Phase1d \/ GrabBanner \/ FetchPage \/ NextPort
  BY <1>11 DEF Phase1d, GrabBanner, FetchPage, NextPort, Inspecting, StageInv, discoveryVars,
    resolutionVars, bucketVars
<1>12. CASE \E i \in 1..N : SourceAnswers(i)
  BY <1>12 DEF SourceAnswers, Answer, Others, StageInv, resolutionVars, bucketVars
<1>13. CASE CancelScan
  BY <1>13 DEF CancelScan, Cancel, reconVars, StageInv, discoveryVars, resolutionVars, bucketVars
<1>14. CASE UNCHANGED vars
  BY <1>14 DEF vars, reconVars, StageInv, discoveryVars, resolutionVars, bucketVars
<1> QED
  BY <1>1, <1>2, <1>3, <1>4, <1>5, <1>6, <1>7, <1>8, <1>9, <1>10, <1>11, <1>12, <1>13, <1>14
  DEF Next, Execute

LEMMA StageInvariant == Spec => []StageInv
<1>1. ReconInit => StageInv
  BY DEF ReconInit, DiscoveryInit, ResolutionInit, BucketsInit, StageInv
<1> QED
  BY <1>1, StageStep, PTL DEF Spec

\* The steps, by what they do to the probe of a port.
LEMMA ProbeSteps ==
  [Next]_vars =>
    \/ UNCHANGED probe
    \/ probe = NoProbe /\ GrabBanner
    \/ probe.step = "grabbed" /\ FetchPage
    \/ probe' = NoProbe
<1> HAVE [Next]_vars
<1>1. CASE GrabBanner
  BY <1>1 DEF GrabBanner
<1>2. CASE FetchPage
  BY <1>2 DEF FetchPage
<1>3. CASE NextPort
  BY <1>3 DEF NextPort
<1>4. CASE Next /\ ~GrabBanner /\ ~FetchPage /\ ~NextPort
  BY <1>4 DEF Next, Execute, RunCLI, HandleScan, Configure, Launch, Phase1a, CollectNames, Phase1bc,
    CollectAssets, Phase1d, EndPhase1, EndPhase2, Phase3, CollectBuckets, CancelScan,
    SourceAnswers, Others, reconVars
<1>5. CASE UNCHANGED vars
  BY <1>5 DEF vars, reconVars
<1> QED
  BY <1>1, <1>2, <1>3, <1>4, <1>5

\* What a reported banner makes of the probe.
LEMMA GrabbedProbe ==
  ASSUME GrabBanner, probe' # probe
  PROVE  \E server \in Servers : \E read \in Grabs(server, open[1]) : \E response \in Responses :
           /\ read # NoBanner
           /\ probe' = [step |-> "grabbed", port |-> open[1], server |-> <<server>>,
                        response |-> <<response>>, read |-> read,
                        name |-> parseServiceBanner(read[1]).name,
                        version |-> parseServiceBanner(read[1]).version,
                        cves |-> Check(parseServiceBanner(read[1]).name, parseServiceBanner(read[1]).version),
                        fetched |-> <<>>, techs |-> <<>>]
<1>1. PICK server \in Servers : \E read \in Grabs(server, open[1]) : \E response \in Responses :
        /\ read # NoBanner
        /\ LET svc == parseServiceBanner(read[1])
           IN  probe' = [NoProbe EXCEPT !.step = "grabbed", !.port = open[1],
                                        !.server = <<server>>, !.response = <<response>>,
                                        !.read = read, !.name = svc.name,
                                        !.version = svc.version,
                                        !.cves = Check(svc.name, svc.version)]
  BY DEF GrabBanner
<1>4. PICK read \in Grabs(server, open[1]) : \E response \in Responses :
        /\ read # NoBanner
        /\ LET svc == parseServiceBanner(read[1])
           IN  probe' = [NoProbe EXCEPT !.step = "grabbed", !.port = open[1],
                                        !.server = <<server>>, !.response = <<response>>,
                                        !.read = read, !.name = svc.name,
                                        !.version = svc.version,
                                        !.cves = Check(svc.name, svc.version)]
  BY <1>1
<1> DEFINE name == parseServiceBanner(read[1]).name
           version == parseServiceBanner(read[1]).version
           cves == Check(name, version)
<1>2. PICK response \in Responses : probe' = [NoProbe EXCEPT !.step = "grabbed", !.port = open[1],
                               !.server = <<server>>, !.response = <<response>>,
                               !.read = read, !.name = name, !.version = version, !.cves = cves]
  BY <1>4
<1> HIDE DEF name, version, cves
<1>3. probe' = [step |-> "grabbed", port |-> open[1], server |-> <<server>>,
                response |-> <<response>>, read |-> read, name |-> name, version |-> version,
                cves |-> cves, fetched |-> <<>>, techs |-> <<>>]
  BY <1>2 DEF NoProbe
<1> QED
  BY <1>3, <1>4 DEF name, version, cves

\* What the answer to GET / makes of it.
LEMMA FetchedProbe ==
  ASSUME ProbeInv, FetchPage
  PROVE  \E fetched \in
            IF probe.name \in webServiceNames \/ CanFingerprint(probe.port)
            THEN FetchWeb(probe.server[1], probe.response[1], probe.port) ELSE {<<>>} :
           probe' = [step |-> "reported", port |-> probe.port, server |-> probe.server,
                     response |-> probe.response, read |-> probe.read, name |-> probe.name,
                     version |-> probe.version, cves |-> probe.cves,
                     fetched |-> fetched, techs |-> FingerprintWeb(fetched)]
<1>1. PICK fetched \in
            IF probe.name \in webServiceNames \/ CanFingerprint(probe.port)
            THEN FetchWeb(probe.server[1], probe.response[1], probe.port) ELSE {<<>>} :
           probe' = [probe EXCEPT !.step = "reported", !.fetched = fetched,
                                  !.techs = FingerprintWeb(fetched)]
  BY DEF FetchPage
<1> DEFINE techs == FingerprintWeb(fetched)
<1>2. probe' = [probe EXCEPT !.step = "reported", !.fetched = fetched, !.techs = techs]
  BY <1>1
<1> HIDE DEF techs
<1>3. probe' = [step |-> "reported", port |-> probe.port, server |-> probe.server,
                response |-> probe.response, read |-> probe.read, name |-> probe.name,
                version |-> probe.version, cves |-> probe.cves,
                fetched |-> fetched, techs |-> techs]
  BY <1>2 DEF ProbeInv, IsProbe
<1> QED
  BY <1>1, <1>3 DEF techs

LEMMA NoProbeShape == NoProbe.step = "none" /\ IsProbe(NoProbe)
  BY DEF IsProbe, NoProbe

LEMMA ProbeStep == ProbeInv /\ [Next]_vars => ProbeInv'
<1> SUFFICES ASSUME ProbeInv, [Next]_vars PROVE ProbeInv'
  OBVIOUS
<1>1. CASE UNCHANGED probe
  BY <1>1 DEF ProbeInv
<1>2. CASE GrabBanner /\ probe' # probe
  <2>1. probe'.step = "grabbed" /\ IsProbe(probe')
    BY <1>2, GrabbedProbe DEF IsProbe
  <2> QED
    BY <2>1, NoProbeShape DEF ProbeInv, IsProbe
<1>3. CASE FetchPage
  <2>1. probe'.step = "reported" /\ IsProbe(probe')
    BY <1>3, FetchedProbe DEF IsProbe
  <2> QED
    BY <2>1, NoProbeShape DEF ProbeInv, IsProbe
<1>4. CASE probe' = NoProbe
  BY <1>4, NoProbeShape DEF ProbeInv, IsProbe
<1> QED
  BY <1>1, <1>2, <1>3, <1>4, ProbeSteps

LEMMA ProbeInvariant == Spec => []ProbeInv
<1>1. ReconInit => ProbeInv
  BY NoProbeShape DEF ReconInit, ProbeInv
<1> QED
  BY <1>1, ProbeStep, PTL DEF Spec

\* The types, and that no two components are at work at once: the locals of
\* each call live in the phase that makes it, as on the one goroutine of
\* execute (runner.go:368-425).
THEOREM ReconTypeCorrect == Spec => []TypeOK
<1>1. IInv /\ StageInv /\ ProbeInv => TypeOK
  <2> SUFFICES ASSUME IInv, StageInv, ProbeInv PROVE TypeOK
    OBVIOUS
  <2>1. \A x : Len(<<x>>) <= 1 /\ Len(<<>>) <= 1
    OBVIOUS
  <2>2. Len(request) <= 1 /\ Len(cfg) <= 1
    BY <2>1 DEF StageInv
  <2>3. {cancelled, anyLive} \subseteq BOOLEAN
    BY DEF StageInv
  <2> QED
    BY <2>2, <2>3 DEF IInv, StageInv, ProbeInv, TypeOK
<1> QED
  BY <1>1, DiscoveryInvariant, StageInvariant, ProbeInvariant, PTL

----------------------------------------------------------------------------
(* Names.                                                                  *)

LEMMA LowerType ==
  ASSUME NEW name \in Seq(STRING)
  PROVE  /\ Lower(name) \in Seq(STRING) /\ Len(Lower(name)) = Len(name)
         /\ DOMAIN Lower(name) = DOMAIN name
         /\ Lower(Lower(name)) = Lower(name)
<1> DEFINE LowerLabel(l) == IF l \in DOMAIN LowerCase THEN LowerCase[l] ELSE l
           low == Lower(name)
<1>1. \A l \in STRING : LowerLabel(l) \in STRING /\ LowerLabel(LowerLabel(l)) = LowerLabel(l)
  BY LowerCaseAssumption
<1>2. DOMAIN name = 1..Len(name) /\ Len(name) \in Nat /\ \A i \in DOMAIN name : name[i] \in STRING
  OBVIOUS
<1>3. low = [i \in DOMAIN name |-> LowerLabel(name[i])] /\ Lower(low) = [i \in DOMAIN low |-> LowerLabel(low[i])]
  BY DEF Lower
<1> HIDE DEF LowerLabel, low
<1>4. DOMAIN low = DOMAIN name /\ \A i \in DOMAIN name : low[i] = LowerLabel(name[i]) /\ low[i] \in STRING
  BY <1>1, <1>2, <1>3
<1>5. low \in Seq(STRING) /\ Len(low) = Len(name)
  BY <1>2, <1>3, <1>4
<1>6. Lower(low) = low
  BY <1>1, <1>2, <1>3, <1>4
<1> QED
  BY <1>4, <1>5, <1>6 DEF low

\* Max is the largest of finitely many positions.
LEMMA MaxPosition ==
  ASSUME NEW n \in Nat, NEW S, \A i \in S : i \in 1..n, S # {}
  PROVE  Max(S) \in S /\ \A i \in S : Max(S) >= i
<1> DEFINE D == {d \in Nat : n - d \in S}
<1>1. PICK d \in D : \A e \in D : d <= e
  <2>1. \A i \in S : n - i \in Nat /\ n - (n - i) = i
    OBVIOUS
  <2>2. D \in SUBSET Nat /\ D # {}
    BY <2>1
  <2> HIDE DEF D
  <2> QED
    BY <2>2, LeastNat
<1>2. n - d \in S /\ \A i \in S : n - d >= i
  BY <1>1
<1> QED
  BY <1>2 DEF Max

LEMMA TrimDotsType ==
  ASSUME NEW name \in Seq(STRING)
  PROVE  TrimDots(name) \in Seq(STRING)
<1> DEFINE kept == {i \in DOMAIN name : name[i] # ""}
<1>0. TrimDots(name) = IF kept = {} THEN <<>> ELSE SubSeq(name, 1, Max(kept))
  BY DEF TrimDots
<1>1. CASE kept = {}
  <2> HIDE DEF kept
  <2> QED
    BY <1>0, <1>1
<1>2. CASE kept # {}
  <2>1. \A i \in kept : i \in 1..Len(name)
    <3>1. DOMAIN name = 1..Len(name)
      OBVIOUS
    <3> QED
      BY <3>1
  <2>2. Max(kept) \in 1..Len(name)
    <3> HIDE DEF kept
    <3> QED
      BY <1>2, <2>1, MaxPosition
  <2> HIDE DEF kept
  <2>3. TrimDots(name) = SubSeq(name, 1, Max(kept))
    BY <1>0, <1>2
  <2> QED
    BY <2>2, <2>3
<1> QED
  BY <1>1, <1>2

LEMMA NormalizeType ==
  ASSUME NEW name \in Seq(STRING)
  PROVE  NormalizeDomain(name) \in Seq(STRING) /\ Lower(NormalizeDomain(name)) = NormalizeDomain(name)
  BY TrimDotsType, LowerType DEF NormalizeDomain

----------------------------------------------------------------------------
(* The request.                                                            *)

LEMMA UniqueEmpty == Unique(<<>>) = <<>>
<1>1. <<>> \in Seq(Int) /\ ToSet(<<>>) = {}
  BY DEF ToSet
<1>2. Unique(<<>>) \in Seq(Int) /\ ToSet(Unique(<<>>)) = {}
  BY <1>1, UniqueItems
<1> DEFINE u == Unique(<<>>)
<1> HIDE DEF u
<1>3. u \in Seq(Int) /\ \A i \in DOMAIN u : u[i] \in {}
  BY <1>2 DEF ToSet, u
<1>4. u = <<>>
  <2> SUFFICES ASSUME u # <<>> PROVE FALSE
    OBVIOUS
  <2>1. 1 \in DOMAIN u
    BY <1>3
  <2> QED
    BY <1>3, <2>1
<1> QED
  BY <1>4 DEF u

\* A list of ports the scanner can be given.
GoodPorts(ports) == ports # <<>> /\ IsInjective(ports) /\ \A k \in DOMAIN ports : ValidPort(ports[k])

LEMMA DefaultPortsGood == GoodPorts(DefaultPorts)
  BY DEF GoodPorts, DefaultPorts, IsInjective, ValidPort

\* What is valid in a list stays so without repetitions.
LEMMA UniquePorts ==
  ASSUME NEW tokens \in Seq(Int), tokens # <<>>, \A k \in DOMAIN tokens : ValidPort(tokens[k])
  PROVE  GoodPorts(Unique(tokens))
<1>1. \A n \in ToSet(tokens) : ValidPort(n)
  BY DEF ToSet
<1>2. Unique(tokens) \in Seq(Int) /\ ToSet(Unique(tokens)) = ToSet(tokens)
      /\ IsInjective(Unique(tokens)) /\ Unique(tokens) # <<>>
  BY UniqueItems
<1>3. \A k \in DOMAIN Unique(tokens) : Unique(tokens)[k] \in ToSet(tokens)
  BY <1>2 DEF ToSet
<1> QED
  BY <1>1, <1>2, <1>3 DEF GoodPorts

LEMMA ValidTokens ==
  ASSUME NEW tokens \in Seq(Int)
  PROVE  /\ Select(tokens, ValidPort) \in Seq(Int)
         /\ \A k \in DOMAIN Select(tokens, ValidPort) : ValidPort(Select(tokens, ValidPort)[k])
         /\ (\A k \in DOMAIN tokens : ValidPort(tokens[k])) => Select(tokens, ValidPort) = tokens
<1> DEFINE S == {i \in DOMAIN tokens : ValidPort(tokens[i])}
           good == Select(tokens, ValidPort)
<1>1. good = ItemsAt(tokens, S)
  BY DEF Select
<1>2. good \in Seq(Int) /\ ToSet(good) = {tokens[i] : i \in S}
  <2>1. \A i \in S : i \in DOMAIN tokens
    OBVIOUS
  <2> HIDE DEF S
  <2> QED
    BY <1>1, <2>1, ItemsAtDomain
<1>3. \A k \in DOMAIN good : ValidPort(good[k])
  <2>1. \A n \in ToSet(good) : ValidPort(n)
    BY <1>2
  <2>2. \A k \in DOMAIN good : good[k] \in ToSet(good)
    BY DEF ToSet
  <2> HIDE DEF good
  <2> QED
    BY <2>1, <2>2
<1>4. (\A k \in DOMAIN tokens : ValidPort(tokens[k])) => good = tokens
  <2> SUFFICES ASSUME \A k \in DOMAIN tokens : ValidPort(tokens[k]) PROVE good = tokens
    OBVIOUS
  <2>1. S = DOMAIN tokens
    OBVIOUS
  <2> QED
    BY <1>1, <2>1, ItemsAtAll
<1> QED
  BY <1>2, <1>3, <1>4

LEMMA ServerPortsGood ==
  ASSUME NEW tokens \in Seq(Int)
  PROVE  GoodPorts(ServerPorts(tokens))
<1> DEFINE good == Select(tokens, ValidPort)
<1>1. good \in Seq(Int) /\ \A k \in DOMAIN good : ValidPort(good[k])
  BY ValidTokens
<1>2. ServerPorts(tokens) = IF Unique(good) = <<>> THEN DefaultPorts ELSE Unique(good)
  BY DEF ServerPorts
<1> HIDE DEF good
<1>3. CASE good = <<>>
  BY <1>2, <1>3, UniqueEmpty, DefaultPortsGood
<1>4. CASE good # <<>>
  <2>1. GoodPorts(Unique(good))
    BY <1>1, <1>4, UniquePorts
  <2> QED
    BY <1>2, <2>1, DefaultPortsGood
<1> QED
  BY <1>3, <1>4

\* Ports the command line accepts are the server's, too.
LEMMA SamePorts ==
  ASSUME NEW tokens \in Seq(Int), \A k \in DOMAIN tokens : ValidPort(tokens[k])
  PROVE  GoodPorts(CLIPorts(tokens)) /\ CLIPorts(tokens) = ServerPorts(tokens)
<1>1. Select(tokens, ValidPort) = tokens
  BY ValidTokens
<1>2. ServerPorts(tokens) = IF Unique(tokens) = <<>> THEN DefaultPorts ELSE Unique(tokens)
  BY <1>1 DEF ServerPorts
<1>3. CASE tokens = <<>>
  BY <1>2, <1>3, UniqueEmpty, DefaultPortsGood DEF CLIPorts
<1>4. CASE tokens # <<>>
  <2>1. GoodPorts(Unique(tokens)) /\ Unique(tokens) # <<>>
    BY <1>4, UniquePorts, UniqueItems
  <2> QED
    BY <1>2, <1>4, <2>1 DEF CLIPorts
<1> QED
  BY <1>3, <1>4

\* What the scan is configured with is what its entry point made of the request.
RequestInv ==
  /\ stage = "request" => \E r \in Requests : request = <<r>>
  /\ stage = "configured" =>
       \E r \in Requests :
         /\ request = <<r>>
         /\ \/ CLIAccepts(r) /\ r.front = "cli" /\ cfg = <<CLIConfig(r)>>
            \/ ServerAccepts(r) /\ r.front = "server" /\ cfg = <<buildConfig(r)>>

LEMMA RequestSteps ==
  [Next]_vars =>
    \/ UNCHANGED <<stage, request, cfg>>
    \/ RunCLI \/ HandleScan
    \/ stage' \notin {"request", "configured"}
<1> HAVE [Next]_vars
<1>1. CASE Launch \/ CollectNames \/ CollectAssets \/ EndPhase1 \/ EndPhase2 \/ CollectBuckets
  BY <1>1 DEF Launch, BeginPhase2, CollectNames, CollectAssets, EndPhase1, EndPhase2, CollectBuckets
<1>2. CASE Phase1a \/ Phase1bc \/ Phase1d \/ GrabBanner \/ FetchPage \/ NextPort \/ Phase3
  BY <1>2 DEF Phase1a, Phase1bc, Phase1d, GrabBanner, FetchPage, NextPort, Phase3, Inspecting, Others
<1>3. CASE (\E i \in 1..N : SourceAnswers(i)) \/ CancelScan
  BY <1>3 DEF SourceAnswers, Others, CancelScan, reconVars
<1>4. CASE UNCHANGED vars
  BY <1>4 DEF vars, reconVars
<1> QED
  BY <1>1, <1>2, <1>3, <1>4 DEF Next, Execute

LEMMA RequestStep == RequestInv /\ [Next]_vars => RequestInv'
<1> SUFFICES ASSUME RequestInv, [Next]_vars PROVE RequestInv'
  OBVIOUS
<1>1. CASE UNCHANGED <<stage, request, cfg>>
  BY <1>1 DEF RequestInv
<1>2. CASE RunCLI
  <2>1. PICK r \in Requests : request = <<r>>
    BY <1>2 DEF RunCLI, RequestInv
  <2>2. request' = <<r>> /\ r.front = "cli"
    BY <1>2, <2>1 DEF RunCLI, Configure
  <2>3. stage' = "done" \/ (CLIAccepts(r) /\ stage' = "configured" /\ cfg' = <<CLIConfig(r)>>)
    BY <1>2, <2>1 DEF RunCLI, Configure
  <2> QED
    BY <2>2, <2>3 DEF RequestInv
<1>3. CASE HandleScan
  <2>1. PICK r \in Requests : request = <<r>>
    BY <1>3 DEF HandleScan, RequestInv
  <2>2. request' = <<r>> /\ r.front = "server"
    BY <1>3, <2>1 DEF HandleScan, Configure
  <2>3. stage' = "done" \/ (ServerAccepts(r) /\ stage' = "configured" /\ cfg' = <<buildConfig(r)>>)
    BY <1>3, <2>1 DEF HandleScan, Configure
  <2> QED
    BY <2>2, <2>3 DEF RequestInv
<1>4. CASE stage' \notin {"request", "configured"}
  BY <1>4 DEF RequestInv
<1> QED
  BY <1>1, <1>2, <1>3, <1>4, RequestSteps

LEMMA RequestInvariant == Spec => []RequestInv
<1>1. ReconInit => RequestInv
  BY DEF ReconInit, RequestInv
<1> QED
  BY <1>1, RequestStep, PTL DEF Spec

\* The settings of the two entry points.
LEMMA CLISettings ==
  ASSUME NEW r \in Requests, CLIAccepts(r)
  PROVE  LET c == CLIConfig(r)
         IN  /\ GoodPorts(c.ports)
             /\ ScannerSettings(c).timeout > 0 /\ ScannerSettings(c).workers > 0
             /\ ScannerSettings(c).rate >= 0 /\ FingerprintTimeout(c) > 0
             /\ c.domain = buildConfig(r).domain /\ c.ports = buildConfig(r).ports
             /\ c.local = buildConfig(r).local
<1> DEFINE w == Flag(r.workers, 100)
           t == Flag(r.timeout, 2)
           q == Flag(r.rate, 0)
           d == NormalizeDomain(r.target)
           c == CLIConfig(r)
<1>1. w \in Int /\ t \in Int /\ q \in Int
  BY RequestsAssumption DEF Flag
<1>2. GoodPorts(CLIPorts(r.ports)) /\ CLIPorts(r.ports) = ServerPorts(r.ports)
  <2>1. r.ports \in Seq(Int) /\ \A k \in DOMAIN r.ports : ValidPort(r.ports[k])
    BY RequestsAssumption DEF CLIAccepts
  <2> QED
    BY <2>1, SamePorts
<1>3. c = [domain |-> d, ports |-> CLIPorts(r.ports), workers |-> w, timeout |-> t, rate |-> q,
           local |-> IsLocalTarget(d)]
  BY DEF CLIConfig, Config
<1>4. buildConfig(r).domain = d /\ buildConfig(r).ports = ServerPorts(r.ports)
      /\ buildConfig(r).local = IsLocalTarget(d)
  BY DEF buildConfig, Config
<1> HIDE DEF c, w, t, q, d
<1>5. ScannerSettings(c) = [timeout |-> IF t <= 0 THEN 2 ELSE t, workers |-> IF w <= 0 THEN 100 ELSE w,
                            rate |-> IF q < 0 THEN 0 ELSE q]
  BY <1>3 DEF ScannerSettings
<1>6. FingerprintTimeout(c) > 0
  BY <1>1, <1>3 DEF FingerprintTimeout
<1>7. ScannerSettings(c).timeout > 0 /\ ScannerSettings(c).workers > 0 /\ ScannerSettings(c).rate >= 0
  BY <1>1, <1>5
<1> QED
  BY <1>2, <1>3, <1>4, <1>6, <1>7 DEF c

LEMMA ServerSettings ==
  ASSUME NEW r \in Requests
  PROVE  LET c == buildConfig(r)
         IN  /\ GoodPorts(c.ports)
             /\ ScannerSettings(c).timeout > 0 /\ ScannerSettings(c).workers > 0
             /\ ScannerSettings(c).rate >= 0 /\ FingerprintTimeout(c) > 0
             /\ ScannerSettings(c).workers <= maxWorkers /\ ScannerSettings(c).timeout <= maxScanTimeout
<1> DEFINE given == parseInt(r.workers, 100)
           w == IF given < 1 THEN 1 ELSE IF given > maxWorkers THEN maxWorkers ELSE given
           wanted == parseDuration(r.timeout, 2)
           t == IF wanted > maxScanTimeout THEN maxScanTimeout ELSE wanted
           q == parseInt(r.rate, 0)
           d == NormalizeDomain(r.target)
           c == buildConfig(r)
<1>1. given \in Int /\ wanted \in Int /\ q \in Int
  BY RequestsAssumption DEF parseInt, parseDuration
<1>2. w \in 1..maxWorkers /\ t \in Int /\ t <= maxScanTimeout
  <2> HIDE DEF given, wanted
  <2> QED
    BY <1>1 DEF maxWorkers, maxScanTimeout
<1>3. c = [domain |-> d, ports |-> ServerPorts(r.ports), workers |-> w, timeout |-> t, rate |-> q,
           local |-> IsLocalTarget(d)]
  BY DEF buildConfig, Config
<1>4. GoodPorts(c.ports)
  BY <1>3, RequestsAssumption, ServerPortsGood
<1> HIDE DEF c, w, t, q, d
<1>5. ScannerSettings(c) = [timeout |-> IF t <= 0 THEN 2 ELSE t, workers |-> IF w <= 0 THEN 100 ELSE w,
                            rate |-> IF q < 0 THEN 0 ELSE q]
  BY <1>3 DEF ScannerSettings
<1>6. FingerprintTimeout(c) > 0
  BY <1>2, <1>3 DEF FingerprintTimeout
<1>7. /\ ScannerSettings(c).timeout > 0 /\ ScannerSettings(c).workers > 0 /\ ScannerSettings(c).rate >= 0
      /\ ScannerSettings(c).workers <= maxWorkers /\ ScannerSettings(c).timeout <= maxScanTimeout
  BY <1>1, <1>2, <1>5 DEF maxWorkers, maxScanTimeout
<1> QED
  BY <1>4, <1>6, <1>7 DEF c

\* Whatever is asked for, by flags or by query, the scanner gets valid and
\* distinct ports, at least one, and settings under which nothing hangs; and
\* both entry points take what the command line accepts for the same target
\* and ports (server.go:249-255, main.go:245-249, tcp_scanner.go:52-55).
THEOREM EntryPointsAlike == Spec => []EntryPointsAgree
<1>1. RequestInv => EntryPointsAgree
  <2> SUFFICES ASSUME RequestInv, stage = "configured" PROVE EntryPointsAgree
    BY DEF EntryPointsAgree
  <2>1. PICK r \in Requests :
          /\ request = <<r>>
          /\ \/ CLIAccepts(r) /\ r.front = "cli" /\ cfg = <<CLIConfig(r)>>
             \/ ServerAccepts(r) /\ r.front = "server" /\ cfg = <<buildConfig(r)>>
    BY DEF RequestInv
  <2>2. CLIAccepts(r) => \A f \in {"domain", "ports", "local"} : CLIConfig(r)[f] = buildConfig(r)[f]
    BY CLISettings
  <2>3. CASE CLIAccepts(r) /\ r.front = "cli" /\ cfg = <<CLIConfig(r)>>
    BY <2>1, <2>2, <2>3, CLISettings DEF EntryPointsAgree, GoodPorts
  <2>4. CASE ServerAccepts(r) /\ r.front = "server" /\ cfg = <<buildConfig(r)>>
    BY <2>1, <2>2, <2>4, ServerSettings DEF EntryPointsAgree, GoodPorts
  <2> QED
    BY <2>1, <2>3, <2>4
<1> QED
  BY <1>1, RequestInvariant, PTL

----------------------------------------------------------------------------
(* The hunt for buckets.                                                   *)

\* Once launched, the scan has the target as NormalizeDomain writes it.
DomainInv == domain \in Seq(STRING) /\ Lower(domain) = domain

LEMMA DomainStep == RequestInv /\ DomainInv /\ [Next]_vars => DomainInv'
<1> SUFFICES ASSUME RequestInv, DomainInv, [Next]_vars PROVE DomainInv'
  OBVIOUS
<1>1. CASE Launch
  <2>1. PICK r \in Requests : cfg = <<CLIConfig(r)>> \/ cfg = <<buildConfig(r)>>
    BY <1>1 DEF Launch, RequestInv
  <2>2. cfg[1].domain = NormalizeDomain(r.target)
    BY <2>1 DEF CLIConfig, buildConfig, Config
  <2>3. domain' = NormalizeDomain(r.target) /\ r.target \in Seq(STRING)
    BY <1>1, <2>2, RequestsAssumption DEF Launch
  <2> QED
    BY <2>3, NormalizeType DEF DomainInv
<1>2. CASE ~Launch
  <2>1. domain' = domain
    BY <1>2 DEF Next, Execute, RunCLI, HandleScan, Configure, Phase1a, CollectNames, Phase1bc,
      CollectAssets, Phase1d, EndPhase1, GrabBanner, FetchPage, NextPort, EndPhase2, Phase3,
      CollectBuckets, CancelScan, SourceAnswers, Others, Inspecting, vars, reconVars
  <2> QED
    BY <2>1 DEF DomainInv
<1> QED
  BY <1>1, <1>2

LEMMA DomainInvariant == Spec => []DomainInv
<1>1. ReconInit => DomainInv
  <2> SUFFICES ASSUME ReconInit PROVE DomainInv
    OBVIOUS
  <2>1. domain = <<>>
    BY DEF ReconInit
  <2>2. Lower(<<>>) = <<>>
    BY DEF Lower
  <2> QED
    BY <2>1, <2>2 DEF DomainInv
<1> QED
  BY <1>1, DomainStep, RequestInvariant, PTL DEF Spec

\* The labels of a bucket's name.  (The provers do not know a literal to be a
\* member of STRING.)
Words == {"backup", "dev", "staging", "prod", "data", "logs", "assets", "uploads", "static"}
Label == STRING \cup Words

URL == [name : Seq(Label), pattern : ToSet(patterns)]

LEMMA FiveItems ==
  ASSUME NEW T, NEW a \in T, NEW b \in T, NEW c \in T, NEW d \in T, NEW e \in T
  PROVE  <<a, b, c, d, e>> \in Seq(T) /\ Len(<<a, b, c, d, e>>) = 5
  OBVIOUS

LEMMA PatternsDistinct ==
  patterns \in Seq(ToSet(patterns)) /\ DOMAIN patterns = 1..5 /\ IsInjective(patterns)
<1> DEFINE P == {"s3-host", "s3-path", "azure-container", "gcs-path", "gcs-host"}
<1>1. patterns \in Seq(P) /\ Len(patterns) = 5
  <2>1. /\ "s3-host" \in P /\ "s3-path" \in P /\ "azure-container" \in P /\ "gcs-path" \in P
        /\ "gcs-host" \in P
    OBVIOUS
  <2> HIDE DEF P
  <2> QED
    BY <2>1, FiveItems DEF patterns
<1>2. DOMAIN patterns = 1..5 /\ \A i \in 1..5 : i \in {1, 2, 3, 4, 5}
  BY <1>1
<1>3. /\ patterns[1] = "s3-host" /\ patterns[2] = "s3-path" /\ patterns[3] = "azure-container"
      /\ patterns[4] = "gcs-path" /\ patterns[5] = "gcs-host"
  BY DEF patterns
<1>4. \A i, j \in {1, 2, 3, 4, 5} : patterns[i] = patterns[j] => i = j
  BY <1>3
<1>5. patterns \in [1..5 -> ToSet(patterns)]
  <2> HIDE DEF P
  <2>1. patterns \in [1..5 -> P]
    BY <1>1, LenProperties
  <2>2. \A i \in 1..5 : patterns[i] \in ToSet(patterns)
    BY <1>2 DEF ToSet
  <2> QED
    BY <2>1, <2>2
<1>6. patterns \in Seq(ToSet(patterns))
  BY <1>5, SeqFromFunction
<1>7. IsInjective(patterns)
  BY <1>2, <1>4 DEF IsInjective
<1> QED
  BY <1>2, <1>6, <1>7

LEMMA SuffixItems ==
  /\ suffixes \in Seq(Seq(Words)) /\ DOMAIN suffixes = 1..10 /\ Len(suffixes) = 10
  /\ {suffixes[k] : k \in 1..10} = {<<>>} \cup {<<word>> : word \in Words}
<1>1. suffixes \in Seq(Seq(Words)) /\ DOMAIN suffixes = 1..10 /\ Len(suffixes) = 10
  <2>1. <<>> \in Seq(Words) /\ \A word \in Words : <<word>> \in Seq(Words)
    BY OneItem, EmptySeq
  <2>2. \A a, b, c, d, e, f, g, h, i, j \in Seq(Words) :
          <<a, b, c, d, e, f, g, h, i, j>> \in Seq(Seq(Words))
          /\ DOMAIN <<a, b, c, d, e, f, g, h, i, j>> = 1..10 /\ Len(<<a, b, c, d, e, f, g, h, i, j>>) = 10
    OBVIOUS
  <2>3. /\ "backup" \in Words /\ "dev" \in Words /\ "staging" \in Words /\ "prod" \in Words
        /\ "data" \in Words /\ "logs" \in Words /\ "assets" \in Words /\ "uploads" \in Words
        /\ "static" \in Words
    BY DEF Words
  <2>4. /\ <<"backup">> \in Seq(Words) /\ <<"dev">> \in Seq(Words) /\ <<"staging">> \in Seq(Words)
        /\ <<"prod">> \in Seq(Words) /\ <<"data">> \in Seq(Words) /\ <<"logs">> \in Seq(Words)
        /\ <<"assets">> \in Seq(Words) /\ <<"uploads">> \in Seq(Words) /\ <<"static">> \in Seq(Words)
    BY <2>1, <2>3, Zenon
  <2> QED
    BY <2>1, <2>2, <2>4, Zenon DEF suffixes
<1>2. 1..10 = {1, 2, 3, 4, 5, 6, 7, 8, 9, 10}
  OBVIOUS
<1>3. /\ suffixes[1] = <<>> /\ suffixes[2] = <<"backup">> /\ suffixes[3] = <<"dev">>
      /\ suffixes[4] = <<"staging">> /\ suffixes[5] = <<"prod">> /\ suffixes[6] = <<"data">>
      /\ suffixes[7] = <<"logs">> /\ suffixes[8] = <<"assets">> /\ suffixes[9] = <<"uploads">>
      /\ suffixes[10] = <<"static">>
  BY DEF suffixes
<1>4. {suffixes[k] : k \in 1..10} =
        {suffixes[1], suffixes[2], suffixes[3], suffixes[4], suffixes[5], suffixes[6],
         suffixes[7], suffixes[8], suffixes[9], suffixes[10]}
  <2> HIDE DEF suffixes
  <2> QED
    BY <1>2, Zenon
<1> QED
  BY <1>1, <1>3, <1>4 DEF Words

\* The candidates are the suggested names, each once.
LEMMA CandidateNames ==
  ASSUME NEW d \in Seq(STRING), d # <<>>, Lower(d) = d
  PROVE  /\ candidatesFromDomain(d) \in Seq(Seq(Label))
         /\ ToSet(candidatesFromDomain(d)) = Suggested(d)
         /\ IsInjective(candidatesFromDomain(d))
<1> DEFINE base == SubSeq(Lower(d), 1, 1)
           first == [k \in DOMAIN suffixes |-> base \o suffixes[k]]
           slug == Lower(d)
<1>1. base = <<d[1]>> /\ d[1] \in Label /\ slug = d /\ d \in Seq(Label)
  <2>1. STRING \subseteq Label /\ Words \subseteq Label
    BY DEF Label
  <2>2. d \in Seq(Label)
    BY <2>1, SeqMonotonic
  <2> QED
    BY <2>2, FirstItem
<1>2. candidatesFromDomain(d) = Unique(first \o <<slug>>)
  BY DEF candidatesFromDomain
<1>3. \A k \in 1..10 : base \o suffixes[k] \in Seq(Label)
  <2>1. \A k \in 1..10 : suffixes[k] \in Seq(Label)
    <3>1. Words \subseteq Label
      BY DEF Label
    <3> QED
      BY <3>1, SuffixItems, ElementOfSeq, SeqMonotonic
  <2>2. base \in Seq(Label)
    BY <1>1, OneItem
  <2> HIDE DEF base
  <2> QED
    BY <2>1, <2>2, ConcatProperties
<1>4. first \in Seq(Seq(Label)) /\ <<slug>> \in Seq(Seq(Label))
  <2>1. first = [k \in 1..10 |-> base \o suffixes[k]]
    BY SuffixItems
  <2>2. <<slug>> \in Seq(Seq(Label))
    BY <1>1, OneItem
  <2> HIDE DEF base
  <2>3. first \in [1..10 -> Seq(Label)]
    BY <1>3, <2>1
  <2> QED
    BY <2>2, <2>3, SeqFromFunction
<1>5. ToSet(first) = {base \o suffixes[k] : k \in 1..10}
  BY SuffixItems DEF ToSet
<1>6. ToSet(first) = {base \o s : s \in {suffixes[k] : k \in 1..10}}
  BY <1>5
<1>7. base \o <<>> = <<d[1]>> /\ \A word \in Words : base \o <<word>> = <<d[1], word>>
  <2>1. <<d[1]>> \o <<>> = <<d[1]>>
    BY <1>1, OneItem, ConcatEmptySeq
  <2>2. \A word \in Words : <<d[1]>> \o <<word>> = <<d[1], word>>
    BY <1>1, TwoItems DEF Label
  <2> HIDE DEF base
  <2> QED
    BY <1>1, <2>1, <2>2
<1>8. ToSet(first) = {<<d[1]>>} \cup {<<d[1], word>> : word \in Words}
  <2>1. {suffixes[k] : k \in 1..10} = {<<>>} \cup {<<word>> : word \in Words}
    BY SuffixItems
  <2> HIDE DEF first, base
  <2>2. \A x \in ToSet(first) : x \in {<<d[1]>>} \cup {<<d[1], word>> : word \in Words}
    BY <1>6, <1>7, <2>1
  <2>3. <<d[1]>> \in ToSet(first)
    BY <1>6, <1>7, <2>1
  <2>4. \A word \in Words : <<d[1], word>> \in ToSet(first)
    BY <1>6, <1>7, <2>1
  <2> QED
    BY <2>2, <2>3, <2>4
<1>9. ToSet(<<slug>>) = {d}
  BY <1>1 DEF ToSet
<1>10. first \o <<slug>> \in Seq(Seq(Label)) /\ ToSet(first \o <<slug>>) = ToSet(first) \cup ToSet(<<slug>>)
  <2> HIDE DEF first, slug
  <2> QED
    BY <1>4, ConcatItems, ConcatProperties
<1>11. ToSet(first \o <<slug>>) = Suggested(d)
  <2> HIDE DEF first, slug
  <2> QED
    BY <1>8, <1>9, <1>10 DEF Suggested, Words
<1> HIDE DEF first, slug
<1> QED
  BY <1>2, <1>10, <1>11, UniqueItems

\* The URLs are those of every candidate in every pattern, each once.
LEMMA URLItems ==
  ASSUME NEW names \in Seq(Seq(Label)), IsInjective(names)
  PROVE  /\ buildURLs(names) \in Seq(URL)
         /\ IsInjective(buildURLs(names))
         /\ ToSet(buildURLs(names)) =
              {[name |-> n, pattern |-> p] : n \in ToSet(names), p \in ToSet(patterns)}
<1> DEFINE Of(n) == [p \in DOMAIN patterns |-> [name |-> n, pattern |-> patterns[p]]]
           lists == [k \in DOMAIN names |-> Of(names[k])]
<1>1. buildURLs(names) = FlattenSeq(lists)
  BY DEF buildURLs
<1>2. ASSUME NEW n \in Seq(Label)
      PROVE  /\ Of(n) \in Seq(URL) /\ IsInjective(Of(n))
             /\ ToSet(Of(n)) = {[name |-> n, pattern |-> p] : p \in ToSet(patterns)}
  <2>1. Of(n) = [p \in 1..5 |-> [name |-> n, pattern |-> patterns[p]]]
        /\ \A p \in 1..5 : [name |-> n, pattern |-> patterns[p]] \in URL
    BY PatternsDistinct DEF URL, ToSet
  <2>2. Of(n) \in Seq(URL)
    <3> HIDE DEF Of
    <3>1. Of(n) \in [1..5 -> URL]
      BY <2>1
    <3> QED
      BY <3>1, SeqFromFunction
  <2>3. IsInjective(Of(n))
    BY <2>1, PatternsDistinct DEF IsInjective
  <2>4. ToSet(Of(n)) = {[name |-> n, pattern |-> patterns[p]] : p \in 1..5}
    BY <2>1 DEF ToSet
  <2>5. ToSet(patterns) = {patterns[p] : p \in 1..5}
    BY PatternsDistinct DEF ToSet
  <2> HIDE DEF Of
  <2> QED
    BY <2>2, <2>3, <2>4, <2>5
<1> HIDE DEF Of
<1>3. DOMAIN names = 1..Len(names) /\ Len(names) \in Nat /\ \A k \in DOMAIN names : names[k] \in Seq(Label)
  OBVIOUS
<1>4. DOMAIN lists = DOMAIN names /\ \A k \in DOMAIN names : lists[k] = Of(names[k])
  OBVIOUS
<1>5. lists \in Seq(Seq(URL))
  <2>1. lists \in [1..Len(names) -> Seq(URL)]
    BY <1>2, <1>3
  <2> QED
    BY <1>3, <2>1
<1> HIDE DEF lists
<1>6. \A k \in DOMAIN lists : IsInjective(lists[k])
  BY <1>2, <1>3, <1>4
<1>7. \A k, l \in DOMAIN lists : k # l => ToSet(lists[k]) \cap ToSet(lists[l]) = {}
  <2> SUFFICES ASSUME NEW k \in DOMAIN lists, NEW l \in DOMAIN lists, k # l
               PROVE  ToSet(lists[k]) \cap ToSet(lists[l]) = {}
    OBVIOUS
  <2>1. names[k] # names[l]
    BY <1>4 DEF IsInjective
  <2>2. \A x \in ToSet(lists[k]) : x.name = names[k]
    BY <1>2, <1>3, <1>4
  <2>3. \A x \in ToSet(lists[l]) : x.name = names[l]
    BY <1>2, <1>3, <1>4
  <2> QED
    BY <2>1, <2>2, <2>3
<1>8. FlattenSeq(lists) \in Seq(URL)
      /\ ToSet(FlattenSeq(lists)) = UNION {ToSet(lists[k]) : k \in DOMAIN lists}
  BY <1>5, FlattenItems
<1>9. IsInjective(FlattenSeq(lists))
  BY <1>5, <1>6, <1>7, FlattenInjective
<1>10. UNION {ToSet(lists[k]) : k \in DOMAIN lists} =
         {[name |-> n, pattern |-> p] : n \in ToSet(names), p \in ToSet(patterns)}
  <2>1. ToSet(names) = {names[k] : k \in DOMAIN names}
    BY DEF ToSet
  <2>2. \A k \in DOMAIN lists :
          ToSet(lists[k]) = {[name |-> names[k], pattern |-> p] : p \in ToSet(patterns)}
    BY <1>2, <1>3, <1>4
  <2>3. ASSUME NEW x \in UNION {ToSet(lists[k]) : k \in DOMAIN lists}
        PROVE  x \in {[name |-> n, pattern |-> p] : n \in ToSet(names), p \in ToSet(patterns)}
    <3>1. PICK k \in DOMAIN lists : x \in ToSet(lists[k])
      OBVIOUS
    <3>2. names[k] \in ToSet(names)
      BY <1>4, <2>1
    <3> QED
      BY <2>2, <3>1, <3>2
  <2>4. ASSUME NEW n \in ToSet(names), NEW p \in ToSet(patterns)
        PROVE  [name |-> n, pattern |-> p] \in UNION {ToSet(lists[k]) : k \in DOMAIN lists}
    <3>1. PICK k \in DOMAIN lists : n = names[k]
      BY <1>4, <2>1
    <3>2. [name |-> n, pattern |-> p] \in ToSet(lists[k])
      BY <2>2, <3>1
    <3> QED
      BY <3>2
  <2> QED
    BY <2>3, <2>4
<1> QED
  BY <1>1, <1>8, <1>9, <1>10

\* The URLs of a hunt.
LEMMA HuntedURLs ==
  ASSUME NEW d \in Seq(STRING), d # <<>>, Lower(d) = d
  PROVE  LET us == buildURLs(candidatesFromDomain(d))
         IN  /\ us \in Seq(URL) /\ IsInjective(us)
             /\ ToSet(us) = {[name |-> n, pattern |-> p] : n \in Suggested(d), p \in ToSet(patterns)}
<1> DEFINE names == candidatesFromDomain(d)
<1>1. names \in Seq(Seq(Label)) /\ ToSet(names) = Suggested(d) /\ IsInjective(names)
  BY CandidateNames
<1> HIDE DEF names
<1>2. /\ buildURLs(names) \in Seq(URL) /\ IsInjective(buildURLs(names))
      /\ ToSet(buildURLs(names)) =
           {[name |-> n, pattern |-> p] : n \in ToSet(names), p \in ToSet(patterns)}
  BY <1>1, URLItems
<1> QED
  BY <1>1, <1>2 DEF names

\* The i-th URL answers, and what is then reported of it.
Answering(i) == StatusOf(urls[i]) \in {200, 403}
HitAt(i) == [url |-> urls[i], accessible |-> StatusOf(urls[i]) = 200]
Hit == [url : URL, accessible : BOOLEAN]

\* At index at, the results are the URLs before it that answer; if the scan is
\* not cancelled, all of them.
HuntInv ==
  /\ hunted \in Seq(STRING) /\ Lower(hunted) = hunted
  /\ urls = IF hunted = <<>> THEN <<>> ELSE buildURLs(candidatesFromDomain(hunted))
  /\ cloud = {} \/ cloud \in Clouds
  /\ at \in 1..Len(urls)+1
  /\ bpc = "idle" => at = 1 /\ hits = <<>>
  /\ hunted = <<>> => bpc \in {"idle", "done"}
  /\ bpc = "flight" => at <= Len(urls)
  /\ bpc = "done" /\ ~cancelled => at = Len(urls) + 1
  /\ hits \in Seq(Hit) /\ IsInjective(hits)
  /\ \A k \in DOMAIN hits : \E i \in 1..at-1 : Answering(i) /\ hits[k] = HitAt(i)
  /\ ~cancelled => \A i \in 1..at-1 : Answering(i) => HitAt(i) \in ToSet(hits)

\* The URLs of the hunt under way.
LEMMA URLsType ==
  ASSUME HuntInv
  PROVE  /\ urls \in Seq(URL) /\ Len(urls) \in Nat /\ DOMAIN urls = 1..Len(urls)
         /\ \A i, j \in 1..Len(urls) : urls[i] = urls[j] => i = j
<1>1. CASE hunted = <<>>
  <2>1. urls = <<>>
    BY <1>1 DEF HuntInv
  <2> QED
    BY <2>1, EmptySeq
<1>2. CASE hunted # <<>>
  <2>1. urls \in Seq(URL) /\ IsInjective(urls)
    BY <1>2, HuntedURLs DEF HuntInv
  <2>2. Len(urls) \in Nat /\ DOMAIN urls = 1..Len(urls)
    BY <2>1, LenProperties
  <2> QED
    BY <2>1, <2>2 DEF IsInjective
<1> QED
  BY <1>1, <1>2

LEMMA HuntStep == HuntInv /\ StageInv /\ DomainInv /\ [Next]_vars => HuntInv'
<1> SUFFICES ASSUME HuntInv, StageInv, DomainInv, [Next]_vars PROVE HuntInv'
  OBVIOUS
<1>0. /\ urls \in Seq(URL) /\ Len(urls) \in Nat /\ DOMAIN urls = 1..Len(urls)
      /\ \A i, j \in 1..Len(urls) : urls[i] = urls[j] => i = j
  BY URLsType
<1>9. UNCHANGED <<urls, cloud>> => \A i : HitAt(i)' = HitAt(i) /\ Answering(i)' = Answering(i)
  BY DEF HitAt, Answering, StatusOf
<1>1. CASE UNCHANGED bucketVars
  <2>1. ~cancelled' => ~cancelled
    BY ContextSteps DEF StageInv
  <2> QED
    BY <1>1, <1>9, <2>1 DEF HuntInv, bucketVars
<1>2. CASE BeginHunt(domain)
  <2>1. bpc = "idle" /\ at = 1 /\ hits = <<>> /\ UNCHANGED <<at, hits, cancelled>>
    BY <1>2 DEF BeginHunt, HuntInv
  <2>2. /\ hunted' = domain /\ cloud' \in Clouds
        /\ urls' = IF domain = <<>> THEN <<>> ELSE buildURLs(candidatesFromDomain(domain))
        /\ bpc' = IF domain = <<>> THEN "done" ELSE "loop"
    BY <1>2 DEF BeginHunt
  <2>3. Len(urls') \in Nat /\ (domain = <<>> => Len(urls') = 0)
    <3>1. CASE domain = <<>>
      BY <2>2, <3>1
    <3>2. CASE domain # <<>>
      <4>1. urls' \in Seq(URL)
        BY <2>2, <3>2, HuntedURLs DEF DomainInv
      <4> QED
        BY <3>2, <4>1, LenProperties
    <3> QED
      BY <3>1, <3>2
  <2>4. at' \in 1..Len(urls')+1 /\ 1..at'-1 = {}
    BY <2>1, <2>3
  <2>5. bpc' = "done" => at' = Len(urls') + 1
    BY <2>1, <2>2, <2>3
  <2>6. hits' \in Seq(Hit) /\ IsInjective(hits') /\ DOMAIN hits' = {}
    BY <2>1 DEF HuntInv
  <2> QED
    BY <2>2, <2>4, <2>5, <2>6 DEF HuntInv, DomainInv
<1>3. CASE Probe
  <2>1. bpc' = "flight" /\ bpc = "loop" /\ at <= Len(urls) /\ UNCHANGED <<hunted, urls, cloud, at, hits, cancelled>>
    BY <1>3 DEF Probe
  <2> QED
    BY <1>9, <2>1 DEF HuntInv
<1>4. CASE Respond
  <2>1. /\ bpc = "flight" /\ bpc' = "loop" /\ at' = at + 1
        /\ UNCHANGED <<hunted, urls, cloud, cancelled>>
        /\ hits' = IF Answering(at) THEN Append(hits, HitAt(at)) ELSE hits
    BY <1>4 DEF Respond, Answering, HitAt
  <2>2. at \in 1..Len(urls) /\ at' \in 1..Len(urls)+1 /\ \A i \in 1..at'-1 : i \in 1..at-1 \/ i = at
    BY <1>0, <2>1 DEF HuntInv
  <2>3. HitAt(at) \in Hit
    BY <1>0, <2>2, ElementOfSeq DEF Hit, HitAt
  <2>4. HitAt(at) \notin ToSet(hits)
    <3> SUFFICES ASSUME NEW k \in DOMAIN hits PROVE hits[k] # HitAt(at)
      BY DEF ToSet
    <3>1. PICK i \in 1..at-1 : hits[k] = HitAt(i)
      BY DEF HuntInv
    <3>2. i \in 1..Len(urls) /\ i # at
      BY <1>0, <2>2, <3>1
    <3> QED
      BY <1>0, <2>2, <3>1, <3>2 DEF HitAt
  <2>5. \A i : HitAt(i)' = HitAt(i) /\ Answering(i)' = Answering(i)
    BY <1>9, <2>1
  <2>6. 1..at-1 \subseteq 1..at'-1 /\ at \in 1..at'-1
    BY <1>0, <2>1, <2>2
  <2>7. CASE Answering(at)
    <3>1. hits' = Append(hits, HitAt(at)) /\ hits \in Seq(Hit) /\ IsInjective(hits)
      BY <2>1, <2>7 DEF HuntInv
    <3>2. /\ hits' \in Seq(Hit) /\ IsInjective(hits') /\ ToSet(hits') = ToSet(hits) \cup {HitAt(at)}
      BY <2>3, <2>4, <3>1, AppendItems
    <3>3. \A h \in ToSet(hits') : \E i \in 1..at'-1 : Answering(i) /\ h = HitAt(i)
      <4>1. \A h \in ToSet(hits) : \E i \in 1..at-1 : Answering(i) /\ h = HitAt(i)
        BY DEF HuntInv, ToSet
      <4> QED
        BY <2>6, <2>7, <3>2, <4>1
    <3>4. \A k \in DOMAIN hits' : hits'[k] \in ToSet(hits')
      BY DEF ToSet
    <3>5. \A k \in DOMAIN hits' : \E i \in 1..at'-1 : Answering(i)' /\ hits'[k] = HitAt(i)'
      BY <2>5, <3>3, <3>4
    <3>6. ~cancelled' => \A i \in 1..at'-1 : Answering(i)' => HitAt(i)' \in ToSet(hits')
      BY <2>1, <2>2, <2>5, <3>2 DEF HuntInv
    <3> QED
      BY <2>1, <2>2, <3>2, <3>5, <3>6 DEF HuntInv
  <2>8. CASE ~Answering(at)
    <3>1. hits' = hits
      BY <2>1, <2>8
    <3>2. \A k \in DOMAIN hits' : \E i \in 1..at'-1 : Answering(i)' /\ hits'[k] = HitAt(i)'
      BY <2>5, <2>6, <3>1 DEF HuntInv
    <3>3. ~cancelled' => \A i \in 1..at'-1 : Answering(i)' => HitAt(i)' \in ToSet(hits')
      BY <2>1, <2>2, <2>5, <2>8, <3>1 DEF HuntInv
    <3> QED
      BY <2>1, <2>2, <3>1, <3>2, <3>3 DEF HuntInv
  <2> QED
    BY <2>7, <2>8
<1>5. CASE Abort
  <2>1. /\ bpc = "flight" /\ bpc' = "loop" /\ at' = at + 1 /\ cancelled /\ cancelled'
        /\ UNCHANGED <<hunted, urls, cloud, hits, cancelled>>
    BY <1>5 DEF Abort
  <2>2. at \in 1..Len(urls) /\ at' \in 1..Len(urls)+1 /\ \A i \in 1..at-1 : i \in 1..at'-1
    BY <1>0, <2>1 DEF HuntInv
  <2>3. \A i : HitAt(i)' = HitAt(i) /\ Answering(i)' = Answering(i)
    BY <1>9, <2>1
  <2>4. \A k \in DOMAIN hits' : \E i \in 1..at'-1 : Answering(i)' /\ hits'[k] = HitAt(i)'
    BY <2>1, <2>2, <2>3 DEF HuntInv
  <2> QED
    BY <2>1, <2>2, <2>4 DEF HuntInv
<1>6. CASE EndHunt
  <2>1. /\ bpc' = "done" /\ (at > Len(urls) \/ cancelled)
        /\ UNCHANGED <<hunted, urls, cloud, at, hits, cancelled>>
    BY <1>6 DEF EndHunt
  <2>2. ~cancelled => at = Len(urls) + 1
    BY <1>0, <2>1 DEF HuntInv
  <2> QED
    BY <1>9, <2>1, <2>2 DEF HuntInv
<1>7. CASE TakeBuckets
  <2>1. bpc' = "idle" /\ hunted' = <<>> /\ urls' = <<>> /\ cloud' = {} /\ at' = 1 /\ hits' = <<>>
    BY <1>7 DEF TakeBuckets
  <2>2. hunted' \in Seq(STRING) /\ Lower(hunted') = hunted'
    BY <2>1, EmptySeq DEF Lower
  <2>3. at' \in 1..Len(urls')+1 /\ 1..at'-1 = {} /\ DOMAIN hits' = {} /\ hits' \in Seq(Hit) /\ IsInjective(hits')
    BY <2>1, EmptySeq DEF IsInjective
  <2> QED
    BY <2>1, <2>2, <2>3 DEF HuntInv
<1> QED
  BY <1>1, <1>2, <1>3, <1>4, <1>5, <1>6, <1>7, HuntSteps DEF HuntNext

LEMMA HuntInvariant == Spec => []HuntInv
<1>1. ReconInit => HuntInv
  <2> SUFFICES ASSUME ReconInit PROVE HuntInv
    OBVIOUS
  <2>1. bpc = "idle" /\ hunted = <<>> /\ urls = <<>> /\ cloud = {} /\ at = 1 /\ hits = <<>>
    BY DEF ReconInit, BucketsInit
  <2>2. hunted \in Seq(STRING) /\ Lower(hunted) = hunted
    BY <2>1, EmptySeq DEF Lower
  <2>3. at \in 1..Len(urls)+1 /\ 1..at-1 = {} /\ DOMAIN hits = {} /\ hits \in Seq(Hit) /\ IsInjective(hits)
    BY <2>1, EmptySeq DEF IsInjective
  <2> QED
    BY <2>1, <2>2, <2>3 DEF HuntInv
<1> QED
  BY <1>1, HuntStep, StageInvariant, DomainInvariant, PTL DEF Spec

\* Whatever the clouds hold and whenever the scan is cancelled, no bucket is
\* reported twice and none that is not there; and a hunt nobody cancels reports
\* every bucket of a suggested name (bucket_hunter.go:51-111, 160-196).
THEOREM BucketsAllFound == Spec => []BucketsFound
<1>1. HuntInv => BucketsFound
  <2> SUFFICES ASSUME HuntInv PROVE BucketsFound
    OBVIOUS
  <2> DEFINE Report(b) == [url |-> [name |-> b.name, pattern |-> b.pattern], accessible |-> b.status = 200]
  <2>1. IsInjective(hits)
    BY DEF HuntInv
  <2>2. ASSUME hunted # <<>>
        PROVE  /\ ToSet(urls) = {[name |-> n, pattern |-> p] : n \in Suggested(hunted), p \in ToSet(patterns)}
               /\ ToSet(urls) = {urls[i] : i \in 1..Len(urls)} /\ Len(urls) \in Nat
    <3>1. DOMAIN urls = 1..Len(urls) /\ Len(urls) \in Nat
      BY URLsType
    <3>2. ToSet(urls) = {urls[i] : i \in 1..Len(urls)}
      BY <3>1 DEF ToSet
    <3>3. hunted \in Seq(STRING) /\ Lower(hunted) = hunted /\ urls = buildURLs(candidatesFromDomain(hunted))
      BY <2>2 DEF HuntInv
    <3> QED
      BY <2>2, <3>1, <3>2, <3>3, HuntedURLs
  <2>3. ASSUME NEW n, NEW p, NEW b \in cloud, b.name = n, b.pattern = p
        PROVE  StatusOf([name |-> n, pattern |-> p]) = b.status
    <3> DEFINE held == {c \in cloud : c.name = n /\ c.pattern = p}
    <3>1. held # {} /\ \A c \in held : c.status = b.status
      BY <2>3, CloudsAssumption DEF HuntInv
    <3>2. (CHOOSE c \in held : TRUE) \in held
      BY <3>1
    <3>3. StatusOf([name |-> n, pattern |-> p]) = IF held = {} THEN 404 ELSE (CHOOSE c \in held : TRUE).status
      BY DEF StatusOf
    <3> HIDE DEF held
    <3> QED
      BY <3>1, <3>2, <3>3
  <2>4. ASSUME NEW n, NEW p, \A b \in cloud : ~(b.name = n /\ b.pattern = p)
        PROVE  StatusOf([name |-> n, pattern |-> p]) = 404
    BY <2>4 DEF StatusOf
  <2>5. ASSUME hunted # <<>>, NEW h \in ToSet(hits)
        PROVE  \E b \in Present(hunted) : h = Report(b)
    <3>1. PICK i \in 1..at-1 : Answering(i) /\ h = HitAt(i)
      BY DEF HuntInv, ToSet
    <3>2. i \in 1..Len(urls)
      BY <2>2, <2>5 DEF HuntInv
    <3>3. PICK n \in Suggested(hunted), p \in ToSet(patterns) : urls[i] = [name |-> n, pattern |-> p]
      <4>1. urls[i] \in ToSet(urls)
        BY <2>2, <2>5, <3>2
      <4> QED
        BY <2>2, <2>5, <4>1
    <3>4. StatusOf(urls[i]) # 404
      BY <3>1 DEF Answering
    <3>5. PICK b \in cloud : b.name = n /\ b.pattern = p
      BY <2>4, <3>3, <3>4
    <3>6. StatusOf(urls[i]) = b.status
      BY <2>3, <3>3, <3>5
    <3>7. b \in Present(hunted) /\ h = Report(b)
      BY <3>1, <3>3, <3>5, <3>6 DEF Present, Answering, HitAt
    <3> QED
      BY <3>7
  <2>6. ASSUME hunted # <<>>, bpc = "done", ~cancelled, NEW b \in Present(hunted)
        PROVE  Report(b) \in ToSet(hits)
    <3>1. b \in cloud /\ b.name \in Suggested(hunted) /\ b.status \in {200, 403}
      BY DEF Present
    <3>2. b.pattern \in ToSet(patterns)
      BY <3>1, CloudsAssumption DEF HuntInv
    <3>3. PICK i \in 1..Len(urls) : urls[i] = [name |-> b.name, pattern |-> b.pattern]
      BY <2>2, <2>6, <3>1, <3>2
    <3>4. StatusOf(urls[i]) = b.status
      BY <2>3, <3>1, <3>3
    <3>5. i \in 1..at-1
      BY <2>2, <2>6 DEF HuntInv
    <3>6. HitAt(i) \in ToSet(hits)
      BY <2>6, <3>1, <3>4, <3>5 DEF HuntInv, Answering
    <3> QED
      BY <3>3, <3>4, <3>6 DEF HitAt
  <2>7. hunted # <<>> => ToSet(hits) \subseteq {Report(b) : b \in Present(hunted)}
    BY <2>5
  <2>8. bpc = "done" /\ ~cancelled /\ hunted # <<>> => {Report(b) : b \in Present(hunted)} \subseteq ToSet(hits)
    BY <2>6
  <2> QED
    BY <2>1, <2>7, <2>8 DEF BucketsFound
<1> QED
  BY <1>1, HuntInvariant, PTL

----------------------------------------------------------------------------
(* Resolution and PTR enrichment.                                          *)

Addr == UNION {ToSet(a) : a \in Addresses}
Asset == [domain : Seq(STRING), ips : Seq(Addr)]

\* The names still to resolve are new to the live assets; the names still to
\* adopt are pointers; the addresses of every asset that is not owed to a
\* pointer are being looked up or have been.
ResolutionInv ==
  /\ todo \in Seq(Seq(STRING)) /\ ptr \in Seq(Seq(STRING))
  /\ live \in Seq(Asset) /\ addrs \in Seq(Addr) /\ asked \in Seq(Addr)
  /\ rpc = "idle" => todo = <<>> /\ live = <<>>
  /\ rpc \in {"idle", "resolve"} => addrs = <<>> /\ asked = <<>> /\ ptr = <<>>
  /\ rpc = "resolve" => IsInjective(todo) /\ \A k \in DOMAIN live : live[k].domain \notin ToSet(todo)
  /\ rpc = "lookup" => ToSet(asked) \cup ToSet(addrs) = IPsOf(live)
  /\ rpc = "adopt" =>
       /\ ToSet(todo) \subseteq ToSet(ptr) /\ addrs = <<>> /\ ToSet(asked) \subseteq IPsOf(live)
       /\ \A k \in DOMAIN live : live[k].domain \notin ToSet(ptr) => ToSet(live[k].ips) \subseteq ToSet(asked)
  /\ IsInjective(asked)
  /\ NoAssetTwice

\* A name that is resolved to no address leaves no asset; else there is one
\* asset more, with every address once.
LEMMA ResolvedItems ==
  ASSUME NEW answer \in Addresses, NEW name \in Seq(STRING), live \in Seq(Asset)
  PROVE  \/ Resolved(name, answer) = live
         \/ \E ips \in Seq(Addr) :
              IsInjective(ips) /\ Resolved(name, answer) = Append(live, [domain |-> name, ips |-> ips])
<1>1. answer \in Seq(Addr)
  BY LookupAssumption DEF Addr
<1>2. Unique(answer) \in Seq(Addr) /\ IsInjective(Unique(answer))
  BY <1>1, UniqueItems
<1> QED
  BY <1>2 DEF Resolved

LEMMA LiveItems ==
  ASSUME live \in Seq(Asset)
  PROVE  /\ Len(live) \in Nat /\ DOMAIN live = 1..Len(live)
         /\ \A k \in DOMAIN live : live[k] \in Asset /\ live[k].domain \in Seq(STRING) /\ live[k].ips \in Seq(Addr)
<1>1. Len(live) \in Nat /\ DOMAIN live = 1..Len(live)
  BY LenProperties
<1>2. \A k \in DOMAIN live : live[k] \in Asset
  BY <1>1, ElementOfSeq
<1> QED
  BY <1>1, <1>2 DEF Asset

\* A new name makes one more asset of those there are.
LEMMA NewAsset ==
  ASSUME live \in Seq(Asset), NoAssetTwice, NEW name \in Seq(STRING),
         \A k \in DOMAIN live : live[k].domain # name,
         NEW ips \in Seq(Addr), IsInjective(ips),
         live' = Append(live, [domain |-> name, ips |-> ips])
  PROVE  /\ live' \in Seq(Asset) /\ NoAssetTwice'
         /\ \A k \in DOMAIN live' : (k \in DOMAIN live /\ live'[k] = live[k])
                                    \/ live'[k] = [domain |-> name, ips |-> ips]
         /\ IPsOf(live) \subseteq IPsOf(live')
<1> DEFINE n == Len(live)
           asset == [domain |-> name, ips |-> ips]
<1>1. asset \in Asset
  BY DEF Asset
<1>2. /\ live' \in Seq(Asset) /\ n \in Nat /\ DOMAIN live = 1..n /\ DOMAIN live' = 1..n+1
      /\ \A k \in 1..n : live'[k] = live[k]
      /\ live'[n+1] = asset
  BY <1>1, AppendItems
<1>3. asset.domain = name /\ asset.ips = ips
  OBVIOUS
<1> HIDE DEF n, asset
<1>4. \A k \in 1..n+1 : k \in 1..n \/ k = n+1
  BY <1>2
<1>5. \A k \in 1..n : k \in 1..n+1
  BY <1>2
<1>6. \A k \in DOMAIN live' : (k \in DOMAIN live /\ live'[k] = live[k]) \/ live'[k] = asset
  BY <1>2, <1>4
<1>7. NoAssetTwice'
  <2>1. \A k, l \in 1..n+1 : live'[k].domain = live'[l].domain => k = l
    BY <1>2, <1>3, <1>4 DEF NoAssetTwice
  <2>2. \A k \in 1..n+1 : IsInjective(live'[k].ips)
    BY <1>2, <1>3, <1>4 DEF NoAssetTwice
  <2> QED
    BY <1>2, <2>1, <2>2 DEF NoAssetTwice
<1>8. IPsOf(live) \subseteq IPsOf(live')
  BY <1>2, <1>5 DEF IPsOf
<1> QED
  BY <1>2, <1>6, <1>7, <1>8 DEF asset

\* The names of the first phase are distinct.
LEMMA Names1aType ==
  ASSUME IInv, dpc = "returned"
  PROVE  Names1a \in Seq(Seq(STRING)) /\ IsInjective(Names1a)
<1>1. /\ DOMAIN result = 1..Len(result) /\ Len(result) \in Nat
      /\ \A j \in DOMAIN result : result[j] \in [name : Host, source : 1..N]
  BY ItemType DEF IInv, DiscoveryTypeOK
<1>2. \A k \in DOMAIN result : result[k].name \in Seq(STRING)
  <2>1. \A x \in [name : Host, source : 1..N] : x.name \in Host
    OBVIOUS
  <2> QED
    BY <1>1, <2>1, HostAssumption
<1>3. Names1a \in [1..Len(result) -> Seq(STRING)]
  BY <1>1, <1>2 DEF Names1a
<1>4. Names1a \in Seq(Seq(STRING))
  BY <1>1, <1>3, SeqFromFunction
<1>5. \A j, l \in DOMAIN result : result[j].name = result[l].name => j = l
  BY DEF IInv, MergeInv, MergedTo
<1>6. IsInjective(Names1a)
  BY <1>5 DEF Names1a, IsInjective
<1> QED
  BY <1>4, <1>6

\* What one lookup in reverse leaves of the names found.
LEMMA PointersType ==
  ASSUME NEW answer \in Pointers, ptr \in Seq(Seq(STRING))
  PROVE  LET names == [k \in DOMAIN answer |-> Lower(TrimDots(answer[k]))]
         IN  Unique(ptr \o Select(names, LAMBDA name : name # <<>>)) \in Seq(Seq(STRING))
<1> DEFINE names == [k \in DOMAIN answer |-> Lower(TrimDots(answer[k]))]
           S == {i \in DOMAIN names : names[i] # <<>>}
           kept == Select(names, LAMBDA name : name # <<>>)
<1>1. answer \in Seq(Seq(STRING))
  BY LookupAssumption
<1>2. DOMAIN answer = 1..Len(answer) /\ Len(answer) \in Nat
      /\ \A k \in DOMAIN answer : answer[k] \in Seq(STRING)
  BY <1>1, LenProperties, ElementOfSeq
<1>3. \A k \in DOMAIN answer : Lower(TrimDots(answer[k])) \in Seq(STRING)
  BY <1>2, TrimDotsType, LowerType
<1>4. names \in [1..Len(answer) -> Seq(STRING)]
  BY <1>2, <1>3
<1>5. names \in Seq(Seq(STRING))
  <2> HIDE DEF names
  <2> QED
    BY <1>2, <1>4, SeqFromFunction
<1>6. kept = ItemsAt(names, S) /\ \A i \in S : i \in DOMAIN names
  BY DEF Select
<1> HIDE DEF names, S, kept
<1>7. kept \in Seq(Seq(STRING))
  BY <1>5, <1>6, ItemsAtDomain
<1>8. ptr \o kept \in Seq(Seq(STRING))
  BY <1>7, ConcatProperties
<1>9. Unique(ptr \o kept) \in Seq(Seq(STRING))
  BY <1>8, UniqueItems
<1> QED
  BY <1>9 DEF kept, names

LEMMA ResolutionStep == ResolutionInv /\ StageInv /\ IInv /\ [Next]_vars => ResolutionInv'
<1> SUFFICES ASSUME ResolutionInv, StageInv, IInv, [Next]_vars PROVE ResolutionInv'
  OBVIOUS
<1>0. /\ todo \in Seq(Seq(STRING)) /\ ptr \in Seq(Seq(STRING)) /\ live \in Seq(Asset)
      /\ addrs \in Seq(Addr) /\ asked \in Seq(Addr) /\ NoAssetTwice /\ IsInjective(asked)
  BY DEF ResolutionInv
<1>1. CASE UNCHANGED resolutionVars
  BY <1>1 DEF resolutionVars, ResolutionInv, NoAssetTwice, IPsOf
<1>2. CASE dpc = "returned" /\ BeginResolve(Names1a)
  <2>1. rpc = "idle" /\ rpc' = "resolve" /\ todo' = Names1a /\ UNCHANGED <<live, addrs, asked, ptr>>
    BY <1>2 DEF BeginResolve
  <2>2. todo' \in Seq(Seq(STRING)) /\ IsInjective(todo')
    BY <1>2, <2>1, Names1aType
  <2>3. live' = <<>> /\ DOMAIN live' = {} /\ addrs' = <<>> /\ asked' = <<>> /\ ptr' = <<>>
    BY <2>1 DEF ResolutionInv
  <2> QED
    BY <2>1, <2>2, <2>3 DEF ResolutionInv, NoAssetTwice
<1>3. CASE ResolveName
  <2>1. /\ rpc = "resolve" /\ rpc' = rpc /\ todo # <<>> /\ todo' = Tail(todo)
        /\ UNCHANGED <<addrs, asked, ptr>>
    BY <1>3 DEF ResolveName
  <2>2. /\ todo[1] \in Seq(STRING) /\ todo' \in Seq(Seq(STRING))
        /\ ToSet(todo) = {todo[1]} \cup ToSet(todo')
        /\ IsInjective(todo') /\ todo[1] \notin ToSet(todo')
    BY <1>0, <2>1, TailItems DEF ResolutionInv
  <2>3. \A k \in DOMAIN live : live[k].domain # todo[1] /\ live[k].domain \notin ToSet(todo')
    BY <2>1, <2>2 DEF ResolutionInv
  <2>4. live' = live \/ \E answer \in Addresses : live' = Resolved(todo[1], answer)
    BY <1>3 DEF ResolveName
  <2>5. CASE live' = live
    BY <1>0, <2>1, <2>2, <2>3, <2>5 DEF ResolutionInv, NoAssetTwice
  <2>6. CASE live' # live
    <3>1. PICK ips \in Seq(Addr) : IsInjective(ips) /\ live' = Append(live, [domain |-> todo[1], ips |-> ips])
      BY <1>0, <2>2, <2>4, <2>6, ResolvedItems
    <3>2. /\ live' \in Seq(Asset) /\ NoAssetTwice'
          /\ \A k \in DOMAIN live' : (k \in DOMAIN live /\ live'[k] = live[k])
                                     \/ live'[k] = [domain |-> todo[1], ips |-> ips]
      BY <1>0, <2>2, <2>3, <3>1, NewAsset
    <3>3. \A k \in DOMAIN live' : live'[k].domain \notin ToSet(todo')
      BY <2>2, <2>3, <3>2
    <3> QED
      BY <1>0, <2>1, <2>2, <3>2, <3>3 DEF ResolutionInv
  <2> QED
    BY <2>5, <2>6
<1>4. CASE EndResolve
  <2> DEFINE lists == [k \in DOMAIN live |-> live[k].ips]
  <2>1. /\ rpc = "resolve" /\ rpc' \in {"done", "lookup"} /\ addrs' = FlattenSeq(lists)
        /\ UNCHANGED <<todo, live, asked, ptr>>
    BY <1>4 DEF EndResolve
  <2>2. lists \in Seq(Seq(Addr))
    <3>1. lists \in [1..Len(live) -> Seq(Addr)] /\ Len(live) \in Nat
      BY <1>0, LiveItems
    <3> HIDE DEF lists
    <3> QED
      BY <3>1, SeqFromFunction
  <2>3. DOMAIN lists = DOMAIN live /\ \A k \in DOMAIN live : lists[k] = live[k].ips
    OBVIOUS
  <2> HIDE DEF lists
  <2>4. addrs' \in Seq(Addr) /\ ToSet(addrs') = UNION {ToSet(lists[k]) : k \in DOMAIN lists}
    BY <2>1, <2>2, FlattenItems
  <2>5. ToSet(addrs') = IPsOf(live)
    BY <2>3, <2>4 DEF IPsOf
  <2>6. asked = <<>> /\ ToSet(asked) = {}
    BY <2>1 DEF ResolutionInv, ToSet
  <2> QED
    BY <1>0, <2>1, <2>4, <2>5, <2>6 DEF ResolutionInv, NoAssetTwice, IPsOf
<1>5. CASE LookupAddr
  <2>1. /\ rpc = "lookup" /\ rpc' = rpc /\ addrs # <<>> /\ addrs' = Tail(addrs)
        /\ UNCHANGED <<todo, live>>
    BY <1>5 DEF LookupAddr
  <2>2. addrs[1] \in Addr /\ addrs' \in Seq(Addr) /\ ToSet(addrs) = {addrs[1]} \cup ToSet(addrs')
    BY <1>0, <2>1, TailItems
  <2>3. ToSet(asked) \cup ToSet(addrs) = IPsOf(live)
    BY <2>1 DEF ResolutionInv
  <2>4. CASE Contains(asked, addrs[1])
    <3>1. UNCHANGED <<asked, ptr>>
      BY <1>5, <2>4 DEF LookupAddr
    <3>2. addrs[1] \in ToSet(asked)
      BY <1>0, <2>4, ContainsItems
    <3>3. ToSet(asked') \cup ToSet(addrs') = IPsOf(live')
      BY <2>1, <2>2, <2>3, <3>1, <3>2
    <3> QED
      BY <1>0, <2>1, <2>2, <3>1, <3>3 DEF ResolutionInv, NoAssetTwice
  <2>5. CASE ~Contains(asked, addrs[1])
    <3>1. asked' = Append(asked, addrs[1])
      BY <1>5, <2>5 DEF LookupAddr
    <3>2. addrs[1] \notin ToSet(asked)
      BY <1>0, <2>5, ContainsItems
    <3>3. asked' \in Seq(Addr) /\ IsInjective(asked') /\ ToSet(asked') = ToSet(asked) \cup {addrs[1]}
      BY <1>0, <2>2, <3>1, <3>2, AppendItems
    <3>4. ptr' \in Seq(Seq(STRING))
      <4>1. PICK answer \in Pointers :
              LET names == [k \in DOMAIN answer |-> Lower(TrimDots(answer[k]))]
              IN  ptr' = Unique(ptr \o Select(names, LAMBDA name : name # <<>>))
        BY <1>5, <2>5 DEF LookupAddr
      <4> QED
        BY <1>0, <4>1, PointersType
    <3>5. ToSet(asked') \cup ToSet(addrs') = IPsOf(live')
      BY <2>1, <2>2, <2>3, <3>3
    <3> QED
      BY <1>0, <2>1, <2>2, <3>3, <3>4, <3>5 DEF ResolutionInv, NoAssetTwice
  <2> QED
    BY <2>4, <2>5
<1>6. CASE EndEnrich
  <2>1. rpc = "lookup" /\ rpc' = "adopt" /\ addrs = <<>> /\ todo' = ptr /\ UNCHANGED <<live, addrs, asked, ptr>>
    BY <1>6 DEF EndEnrich
  <2>2. ToSet(asked) = IPsOf(live)
    <3>1. ToSet(addrs) = {}
      BY <2>1 DEF ToSet
    <3> QED
      BY <2>1, <3>1 DEF ResolutionInv
  <2>3. \A k \in DOMAIN live : ToSet(live[k].ips) \subseteq ToSet(asked)
    BY <2>2 DEF IPsOf
  <2> QED
    BY <1>0, <2>1, <2>2, <2>3 DEF ResolutionInv, NoAssetTwice, IPsOf
<1>7. CASE AdoptName
  <2>1. /\ rpc = "adopt" /\ rpc' = rpc /\ todo # <<>> /\ todo' = Tail(todo)
        /\ UNCHANGED <<addrs, asked, ptr>>
    BY <1>7 DEF AdoptName
  <2>2. /\ todo[1] \in Seq(STRING) /\ todo' \in Seq(Seq(STRING))
        /\ ToSet(todo) = {todo[1]} \cup ToSet(todo')
    BY <1>0, <2>1, TailItems
  <2>3. todo[1] \in ToSet(ptr) /\ ToSet(todo') \subseteq ToSet(ptr)
    BY <2>1, <2>2 DEF ResolutionInv
  <2>4. CASE live' = live
    BY <1>0, <2>1, <2>2, <2>3, <2>4 DEF ResolutionInv, NoAssetTwice, IPsOf
  <2>5. CASE live' # live
    <3>1. ~Known(todo[1]) /\ \E answer \in Addresses : live' = Resolved(todo[1], answer)
      BY <1>7, <2>5 DEF AdoptName
    <3>2. PICK ips \in Seq(Addr) : IsInjective(ips) /\ live' = Append(live, [domain |-> todo[1], ips |-> ips])
      BY <1>0, <2>2, <2>5, <3>1, ResolvedItems
    <3>3. /\ live' \in Seq(Asset) /\ NoAssetTwice'
          /\ \A k \in DOMAIN live' : (k \in DOMAIN live /\ live'[k] = live[k])
                                     \/ live'[k] = [domain |-> todo[1], ips |-> ips]
          /\ IPsOf(live) \subseteq IPsOf(live')
      BY <1>0, <2>2, <3>1, <3>2, NewAsset DEF Known
    <3>4. \A k \in DOMAIN live' :
            live'[k].domain \notin ToSet(ptr') => ToSet(live'[k].ips) \subseteq ToSet(asked')
      <4>1. \A k \in DOMAIN live : live[k].domain \notin ToSet(ptr) => ToSet(live[k].ips) \subseteq ToSet(asked)
        BY <2>1 DEF ResolutionInv
      <4>2. \A k \in DOMAIN live' : live'[k] = [domain |-> todo[1], ips |-> ips] => live'[k].domain \in ToSet(ptr)
        BY <2>3
      <4> QED
        BY <2>1, <3>3, <4>1, <4>2
    <3>5. ToSet(asked') \subseteq IPsOf(live')
      BY <2>1, <3>3 DEF ResolutionInv
    <3>6. addrs' = <<>> /\ ToSet(todo') \subseteq ToSet(ptr')
      BY <2>1, <2>3 DEF ResolutionInv
    <3> QED
      BY <1>0, <2>1, <2>2, <3>3, <3>4, <3>5, <3>6 DEF ResolutionInv
  <2> QED
    BY <2>4, <2>5
<1>8. CASE EndAdopt \/ StopResolving
  <2>1. rpc' = "done" /\ UNCHANGED <<todo, live, addrs, asked, ptr>>
    BY <1>8 DEF EndAdopt, StopResolving
  <2> QED
    BY <1>0, <2>1 DEF ResolutionInv, NoAssetTwice
<1>9. CASE TakeAssets
  <2>1. rpc' = "idle" /\ todo' = <<>> /\ live' = <<>> /\ addrs' = <<>> /\ asked' = <<>> /\ ptr' = <<>>
    BY <1>9 DEF TakeAssets
  <2>2. DOMAIN live' = {} /\ DOMAIN asked' = {}
    BY <2>1
  <2> QED
    BY <2>1, <2>2, EmptySeq DEF ResolutionInv, NoAssetTwice, IsInjective
<1> QED
  BY <1>1, <1>2, <1>3, <1>4, <1>5, <1>6, <1>7, <1>8, <1>9, ResolutionSteps DEF ResolveNext

LEMMA ResolutionInvariant == Spec => []ResolutionInv
<1>1. ReconInit => ResolutionInv
  <2> SUFFICES ASSUME ReconInit PROVE ResolutionInv
    OBVIOUS
  <2>1. rpc = "idle" /\ todo = <<>> /\ live = <<>> /\ addrs = <<>> /\ asked = <<>> /\ ptr = <<>>
    BY DEF ReconInit, ResolutionInit
  <2>2. DOMAIN live = {} /\ DOMAIN asked = {}
    BY <2>1
  <2> QED
    BY <2>1, <2>2, EmptySeq DEF ResolutionInv, NoAssetTwice, IsInjective
<1> QED
  BY <1>1, ResolutionStep, StageInvariant, DiscoveryInvariant, PTL DEF Spec

\* Whatever the sources, the resolver and the pointers answer, no name makes
\* two assets and no asset has an address twice (models/asset.go:69-72).
THEOREM NoHostTwice == Spec => []NoAssetTwice
<1>1. ResolutionInv => NoAssetTwice
  BY DEF ResolutionInv
<1> QED
  BY <1>1, ResolutionInvariant, PTL

\* Every address phase 1b found is looked up in reverse exactly once, before
\* the first pointer is adopted (ptr_enricher.go:66-70).
THEOREM EachAddressAskedOnce == Spec => []AddressesAskedOnce
<1>1. ResolutionInv => AddressesAskedOnce
  <2> SUFFICES ASSUME ResolutionInv PROVE AddressesAskedOnce
    OBVIOUS
  <2>1. rpc = "adopt" => ToSet(addrs) = {}
    BY DEF ResolutionInv, ToSet
  <2>2. rpc \in {"lookup", "adopt"} => ToSet(asked) \cup ToSet(addrs) \subseteq IPsOf(live)
    BY <2>1 DEF ResolutionInv
  <2>3. \A name : Contains(ptr, name) <=> name \in ToSet(ptr)
    BY ContainsItems DEF ResolutionInv
  <2>4. rpc = "adopt" =>
          \A k \in DOMAIN live : ~Contains(ptr, live[k].domain) => ToSet(live[k].ips) \subseteq ToSet(asked)
    BY <2>3 DEF ResolutionInv
  <2> QED
    BY <2>2, <2>4 DEF ResolutionInv, AddressesAskedOnce
<1> QED
  BY <1>1, ResolutionInvariant, PTL

----------------------------------------------------------------------------
(* The scope of the sources.                                               *)

\* Whatever a service answers, the names kept of it are within the target.
LEMMA ScopedItems ==
  ASSUME NEW names \in Seq(Seq(STRING)), NEW target \in Seq(STRING), Lower(target) = target,
         NEW found, found = Unique(Scoped(LowerAll(names), target))
  PROVE  \A k \in DOMAIN found : InScope(found[k], target)
<1> DEFINE low == LowerAll(names)
           S == {i \in DOMAIN low : low[i] # <<>> /\ InScope(low[i], Lower(target))}
           kept == Scoped(low, target)
<1>1. DOMAIN names = 1..Len(names) /\ Len(names) \in Nat /\ \A k \in DOMAIN names : names[k] \in Seq(STRING)
  BY LenProperties, ElementOfSeq
<1>2. low \in Seq(Seq(STRING))
  <2>1. low \in [1..Len(names) -> Seq(STRING)]
    BY <1>1, LowerType DEF LowerAll
  <2> QED
    BY <1>1, <2>1, SeqFromFunction
<1>3. kept = ItemsAt(low, S) /\ \A i \in S : i \in DOMAIN low /\ InScope(low[i], target)
  BY DEF Scoped, Select
<1>4. found = Unique(kept)
  OBVIOUS
<1> HIDE DEF low, S, kept
<1>5. kept \in Seq(Seq(STRING)) /\ ToSet(kept) = {low[i] : i \in S}
  BY <1>2, <1>3, ItemsAtDomain
<1>6. ToSet(found) = ToSet(kept)
  BY <1>4, <1>5, UniqueItems
<1>7. \A x \in ToSet(found) : InScope(x, target)
  BY <1>3, <1>5, <1>6
<1> QED
  BY <1>7 DEF ToSet

\* What a service may send: names as sequences of labels.
Bodies(answers, body) == \A a \in answers : a.body \in body
Lines == Seq([comma : BOOLEAN, host : Seq(STRING)])

OutcomesInScope(target) ==
  \A i \in 1..N : \A o \in Outcomes[i] : \A k \in DOMAIN o.names : InScope(o.names[k], target)

LEMMA SourcesInScope ==
  ASSUME NEW cts, NEW hts, NEW wbs, NEW target \in Seq(STRING), Lower(target) = target,
         Bodies(cts, Seq(Seq(Seq(STRING)))), Bodies(hts, Lines), Bodies(wbs, Seq(Seq(Seq(STRING)))),
         N = 3, Outcomes = SourceOutcomes(cts, hts, wbs, target)
  PROVE  OutcomesInScope(target)
<1> DEFINE Good(o) == \A k \in DOMAIN o.names : InScope(o.names[k], target)
<1>1. Good(Failed) /\ Good(Found(<<>>))
  BY DEF Failed, Found
<1>2. ASSUME NEW names \in Seq(Seq(STRING))
      PROVE  Good(Found(Unique(Scoped(LowerAll(names), target))))
  <2>1. \A k \in DOMAIN Unique(Scoped(LowerAll(names), target)) :
          InScope(Unique(Scoped(LowerAll(names), target))[k], target)
    BY ScopedItems
  <2> QED
    BY <2>1 DEF Found
<1>3. ASSUME NEW a \in cts PROVE Good(CTDiscover(a, target))
  <2>1. FlattenSeq(a.body) \in Seq(Seq(STRING))
    BY FlattenItems DEF Bodies
  <2>2. Good(Found(Unique(Scoped(LowerAll(FlattenSeq(a.body)), target))))
    BY <1>2, <2>1
  <2> HIDE DEF Good
  <2> QED
    BY <1>1, <2>2 DEF CTDiscover, parseSubdomains
<1>4. ASSUME NEW a \in wbs PROVE Good(WBDiscover(a, target))
  <2>1. FlattenSeq(a.body) \in Seq(Seq(STRING))
    BY FlattenItems DEF Bodies
  <2>2. Good(Found(Unique(Scoped(LowerAll(FlattenSeq(a.body)), target))))
    BY <1>2, <2>1
  <2> HIDE DEF Good
  <2> QED
    BY <1>1, <2>2 DEF WBDiscover, parseWayBackRecords
<1>5. ASSUME NEW a \in hts PROVE Good(HTDiscover(a, target))
  <2> DEFINE S == {i \in DOMAIN a.body : a.body[i].comma}
             entries == Select(a.body, LAMBDA line : line.comma)
             hosts == [i \in DOMAIN entries |-> entries[i].host]
  <2>1. a.body \in Lines
    BY DEF Bodies
  <2>2. entries = ItemsAt(a.body, S) /\ \A i \in S : i \in DOMAIN a.body
    BY DEF Select
  <2>3. entries \in Lines
    <3> HIDE DEF entries, S
    <3> QED
      BY <2>1, <2>2, ItemsAtDomain DEF Lines
  <2>4. Len(entries) \in Nat /\ hosts \in [1..Len(entries) -> Seq(STRING)]
    <3> HIDE DEF entries
    <3>1. DOMAIN entries = 1..Len(entries) /\ Len(entries) \in Nat
          /\ \A k \in DOMAIN entries : entries[k] \in [comma : BOOLEAN, host : Seq(STRING)]
      BY <2>3, LenProperties, ElementOfSeq DEF Lines
    <3> QED
      BY <3>1
  <2>5. hosts \in Seq(Seq(STRING))
    <3> HIDE DEF hosts, entries
    <3> QED
      BY <2>4, SeqFromFunction
  <2>6. Good(Found(Unique(Scoped(LowerAll(hosts), target))))
    <3> HIDE DEF hosts, Good
    <3> QED
      BY <1>2, <2>5
  <2>7. \/ HTDiscover(a, target) = Found(<<>>)
        \/ HTDiscover(a, target) = Failed
        \/ HTDiscover(a, target) = Found(Unique(Scoped(LowerAll(hosts), target)))
    BY DEF HTDiscover
  <2> HIDE DEF Good, hosts, entries, S
  <2> QED
    BY <1>1, <2>6, <2>7
<1>6. ASSUME NEW i \in 1..N, NEW o \in Outcomes[i] PROVE Good(o)
  <2>1. i = 1 \/ i = 2 \/ i = 3
    OBVIOUS
  <2>2. /\ Outcomes[1] = {CTDiscover(a, target) : a \in cts}
        /\ Outcomes[2] = {HTDiscover(a, target) : a \in hts}
        /\ Outcomes[3] = {WBDiscover(a, target) : a \in wbs}
    BY DEF SourceOutcomes
  <2> HIDE DEF Good
  <2> QED
    BY <1>3, <1>4, <1>5, <2>1, <2>2
<1> QED
  BY <1>6 DEF OutcomesInScope

\* The scan has the one target whose sources Outcomes are.
OneTarget(target) ==
  \A r \in Requests :
    ~IsLocalTarget(NormalizeDomain(r.target)) => NormalizeDomain(r.target) = target

\* What is within the target: the domain itself, what the sources have
\* answered, what is to be resolved of it and what has been.
ScopeInv(target) ==
  /\ stage \in {"1a", "1b"} => domain = target
  /\ \A i \in 1..N : slots[i] # <<>> => slots[i][1] \in Outcomes[i]
  /\ rpc = "resolve" => \A k \in DOMAIN todo : InScope(todo[k], target)
  /\ rpc \in {"resolve", "lookup"} => \A k \in DOMAIN live : InScope(live[k].domain, target)
  /\ \A k \in DOMAIN live : InScope(live[k].domain, target) \/ live[k].domain \in ToSet(ptr)

LEMMA SlotsStep ==
  ASSUME IInv, [Step]_discoveryVars, \A i \in 1..N : slots[i] # <<>> => slots[i][1] \in Outcomes[i]
  PROVE  \A i \in 1..N : slots'[i] # <<>> => slots'[i][1] \in Outcomes[i]
<1>1. CASE UNCHANGED slots
  BY <1>1
<1>2. ASSUME NEW j \in 1..N, Answer(j)
      PROVE  \A i \in 1..N : slots'[i] # <<>> => slots'[i][1] \in Outcomes[i]
  <2>1. PICK o \in Outcomes[j] : slots' = [slots EXCEPT ![j] = <<o>>]
    BY <1>2 DEF Answer
  <2>2. slots'[j][1] = o /\ \A i \in 1..N : i # j => slots'[i] = slots[i]
    BY <2>1 DEF IInv, DiscoveryTypeOK
  <2> QED
    BY <2>1, <2>2
<1>3. CASE TakeResult
  BY <1>3 DEF TakeResult, Locals
<1>4. UNCHANGED slots \/ TakeResult \/ \E j \in 1..N : Answer(j)
  BY DEF Step, BeginDiscover, DiscoverNext, DiscoverStep, Wait, MergeName, NextSource, Return, discoveryVars
<1> QED
  BY <1>1, <1>2, <1>3, <1>4

\* The merged names are some source's.
LEMMA MergedInScope ==
  ASSUME IInv, dpc = "returned", NEW target, OutcomesInScope(target),
         \A i \in 1..N : slots[i] # <<>> => slots[i][1] \in Outcomes[i]
  PROVE  \A k \in DOMAIN result : InScope(result[k].name, target)
<1> SUFFICES ASSUME NEW j \in DOMAIN result PROVE InScope(result[j].name, target)
  OBVIOUS
<1> DEFINE i == result[j].source
<1>1. i \in 1..N
  BY ItemType DEF IInv, DiscoveryTypeOK
<1>2. PICK k \in Nat : Past(i, k, source, next) /\ result[j].name = Slot(i).names[k]
  BY DEF IInv, MergeInv, MergedTo
<1>3. slots[i] # <<>> /\ Slot(i) = slots[i][1] /\ Slot(i) \in Outcomes[i]
  BY <1>1 DEF IInv, PhaseInv, Slot
<1>4. k \in DOMAIN Slot(i).names
  BY <1>2 DEF Past
<1> QED
  BY <1>1, <1>2, <1>3, <1>4 DEF OutcomesInScope

\* The domain changes at the launch only, and phase 1 is for targets that are
\* not local.
LEMMA TargetStep ==
  ASSUME NEW target, OneTarget(target), RequestInv, [Next]_vars,
         stage \in {"1a", "1b"} => domain = target
  PROVE  stage' \in {"1a", "1b"} => domain' = target
<1>1. CASE Launch
  <2>1. PICK r \in Requests : cfg = <<CLIConfig(r)>> \/ cfg = <<buildConfig(r)>>
    BY <1>1 DEF Launch, RequestInv
  <2>2. cfg[1].domain = NormalizeDomain(r.target) /\ cfg[1].local = IsLocalTarget(NormalizeDomain(r.target))
    BY <2>1 DEF CLIConfig, buildConfig, Config
  <2>3. domain' = NormalizeDomain(r.target)
    BY <1>1, <2>2 DEF Launch
  <2>4. stage' \in {"1a", "1b"} => ~IsLocalTarget(NormalizeDomain(r.target))
    BY <1>1, <2>2 DEF Launch, BeginPhase2
  <2> QED
    BY <2>3, <2>4 DEF OneTarget
<1>2. CASE ~Launch
  <2>1. domain' = domain
    BY <1>2 DEF Next, Execute, RunCLI, HandleScan, Configure, Phase1a, CollectNames, Phase1bc,
      CollectAssets, Phase1d, EndPhase1, GrabBanner, FetchPage, NextPort, EndPhase2, Phase3,
      CollectBuckets, CancelScan, SourceAnswers, Others, Inspecting, vars, reconVars
  <2>2. stage' = stage \/ stage = "1a" \/ stage' \notin {"1a", "1b"}
    BY <1>2 DEF Next, Execute, RunCLI, HandleScan, Configure, Phase1a, CollectNames, Phase1bc,
      CollectAssets, Phase1d, EndPhase1, BeginPhase2, GrabBanner, FetchPage, NextPort, EndPhase2, Phase3,
      CollectBuckets, CancelScan, SourceAnswers, Others, Inspecting, vars, reconVars
  <2> QED
    BY <2>1, <2>2
<1> QED
  BY <1>1, <1>2

LEMMA ScopeStep ==
  ASSUME NEW target, OneTarget(target), OutcomesInScope(target),
         RequestInv, StageInv, IInv, ResolutionInv, ScopeInv(target), [Next]_vars
  PROVE  ScopeInv(target)'
<1>0. /\ todo \in Seq(Seq(STRING)) /\ ptr \in Seq(Seq(STRING)) /\ live \in Seq(Asset)
  BY DEF ResolutionInv
<1>1. stage' \in {"1a", "1b"} => domain' = target
  BY TargetStep DEF ScopeInv
<1>2. \A i \in 1..N : slots'[i] # <<>> => slots'[i][1] \in Outcomes[i]
  BY DiscoverySteps, SlotsStep DEF ScopeInv
<1> DEFINE Todo == rpc = "resolve" => \A k \in DOMAIN todo : InScope(todo[k], target)
           Own == rpc \in {"resolve", "lookup"} => \A k \in DOMAIN live : InScope(live[k].domain, target)
           All == \A k \in DOMAIN live : InScope(live[k].domain, target) \/ live[k].domain \in ToSet(ptr)
<1>3. Todo /\ Own /\ All
  BY DEF ScopeInv
<1>4. Todo' /\ Own' /\ All'
  <2>1. CASE UNCHANGED resolutionVars
    BY <1>3, <2>1 DEF resolutionVars
  <2>2. CASE dpc = "returned" /\ BeginResolve(Names1a)
    <3>1. rpc = "idle" /\ rpc' = "resolve" /\ todo' = Names1a /\ UNCHANGED <<live, ptr>>
      BY <2>2 DEF BeginResolve
    <3>2. \A k \in DOMAIN Names1a : InScope(Names1a[k], target)
      BY <2>2, MergedInScope DEF Names1a, ScopeInv
    <3>3. DOMAIN live = {}
      BY <3>1 DEF ResolutionInv
    <3> QED
      BY <3>1, <3>2, <3>3
  <2>3. CASE ResolveName
    <3>1. rpc = "resolve" /\ rpc' = rpc /\ todo # <<>> /\ todo' = Tail(todo) /\ UNCHANGED ptr
      BY <2>3 DEF ResolveName
    <3>2. todo[1] \in Seq(STRING) /\ ToSet(todo) = {todo[1]} \cup ToSet(todo')
      BY <1>0, <3>1, TailItems
    <3>3. \A x \in ToSet(todo) : InScope(x, target)
      BY <1>3, <3>1 DEF ToSet
    <3>4. Todo'
      BY <3>1, <3>2, <3>3 DEF ToSet
    <3>5. live' = live \/ \E answer \in Addresses : live' = Resolved(todo[1], answer)
      BY <2>3 DEF ResolveName
    <3>6. \A k \in DOMAIN live' : InScope(live'[k].domain, target)
      <4>1. CASE live' = live
        BY <1>3, <3>1, <4>1
      <4>2. CASE live' # live
        <5>1. PICK ips \in Seq(Addr) : IsInjective(ips) /\ live' = Append(live, [domain |-> todo[1], ips |-> ips])
          BY <1>0, <3>2, <3>5, <4>2, ResolvedItems
        <5>2. \A k \in DOMAIN live : live[k].domain # todo[1]
          <6>1. \A k \in DOMAIN live : live[k].domain \notin ToSet(todo)
            BY <3>1 DEF ResolutionInv
          <6> QED
            BY <3>2, <6>1
        <5>3. \A k \in DOMAIN live' : (k \in DOMAIN live /\ live'[k] = live[k])
                                      \/ live'[k] = [domain |-> todo[1], ips |-> ips]
          BY <1>0, <3>2, <5>1, <5>2, NewAsset DEF ResolutionInv
        <5> QED
          BY <1>3, <3>1, <3>2, <3>3, <5>3
      <4> QED
        BY <4>1, <4>2
    <3> QED
      BY <3>1, <3>4, <3>6
  <2>4. CASE EndResolve \/ EndEnrich \/ EndAdopt \/ StopResolving
    BY <1>3, <2>4 DEF EndResolve, EndEnrich, EndAdopt, StopResolving
  <2>5. CASE LookupAddr
    BY <1>3, <2>5 DEF LookupAddr
  <2>6. CASE AdoptName
    <3>1. rpc = "adopt" /\ rpc' = rpc /\ todo # <<>> /\ UNCHANGED ptr
      BY <2>6 DEF AdoptName
    <3>2. todo[1] \in Seq(STRING) /\ todo[1] \in ToSet(ptr)
      <4>1. todo[1] \in Seq(STRING) /\ todo[1] \in ToSet(todo)
        BY <1>0, <3>1, TailItems
      <4> QED
        BY <3>1, <4>1 DEF ResolutionInv
    <3>3. CASE live' = live
      BY <1>3, <3>1, <3>3
    <3>4. CASE live' # live
      <4>1. ~Known(todo[1]) /\ \E answer \in Addresses : live' = Resolved(todo[1], answer)
        BY <2>6, <3>4 DEF AdoptName
      <4>2. PICK ips \in Seq(Addr) : IsInjective(ips) /\ live' = Append(live, [domain |-> todo[1], ips |-> ips])
        BY <1>0, <3>2, <3>4, <4>1, ResolvedItems
      <4>3. \A k \in DOMAIN live' : (k \in DOMAIN live /\ live'[k] = live[k])
                                    \/ live'[k] = [domain |-> todo[1], ips |-> ips]
        BY <1>0, <3>2, <4>1, <4>2, NewAsset DEF Known, ResolutionInv
      <4> QED
        BY <1>3, <3>1, <3>2, <4>3
    <3> QED
      BY <3>3, <3>4
  <2>7. CASE TakeAssets
    BY <2>7 DEF TakeAssets
  <2> QED
    BY <2>1, <2>2, <2>3, <2>4, <2>5, <2>6, <2>7, ResolutionSteps DEF ResolveNext
<1> QED
  BY <1>1, <1>2, <1>4 DEF ScopeInv

\* Whatever crt.sh, HackerTarget and the Wayback Machine answer, a host that is
\* not within the target comes in by a PTR record only (scope.go:10).
THEOREM SourcesScoped ==
  ASSUME NEW cts, NEW hts, NEW wbs, NEW target \in Seq(STRING), Lower(target) = target,
         Bodies(cts, Seq(Seq(Seq(STRING)))), Bodies(hts, Lines), Bodies(wbs, Seq(Seq(Seq(STRING)))),
         N = 3, Outcomes = SourceOutcomes(cts, hts, wbs, target), OneTarget(target)
  PROVE  Spec => []SourcesStayInScope
<1>1. OutcomesInScope(target)
  BY SourcesInScope
<1>2. ReconInit => ScopeInv(target)
  BY DEF ReconInit, DiscoveryInit, Locals, ResolutionInit, ScopeInv
<1>3. RequestInv /\ StageInv /\ IInv /\ ResolutionInv /\ ScopeInv(target) /\ [Next]_vars => ScopeInv(target)'
  BY <1>1, ScopeStep
<1>4. StageInv /\ ResolutionInv /\ ScopeInv(target) => SourcesStayInScope
  <2> SUFFICES ASSUME StageInv, ResolutionInv, ScopeInv(target), NEW k \in DOMAIN live
               PROVE  InScope(live[k].domain, domain) \/ Contains(ptr, live[k].domain)
    BY DEF SourcesStayInScope
  <2>1. stage = "1b"
    BY DEF StageInv, ResolutionInv
  <2>2. domain = target
    BY <2>1 DEF ScopeInv
  <2>3. live[k].domain \in ToSet(ptr) => Contains(ptr, live[k].domain)
    BY ContainsItems DEF ResolutionInv
  <2> QED
    BY <2>2, <2>3 DEF ScopeInv
<1> QED
  BY <1>2, <1>3, <1>4, RequestInvariant, StageInvariant, DiscoveryInvariant, ResolutionInvariant, PTL DEF Spec

----------------------------------------------------------------------------
(* The identification of open ports.                                       *)

\* What was read of a server's banner, and what was made of it.
Identified(p, server, b) ==
  /\ p.server = <<server>> /\ p.read = <<b>>
  /\ p.name = parseServiceBanner(b).name /\ p.version = parseServiceBanner(b).version
  /\ p.cves = Check(p.name, p.version)

IdentifiedInv ==
  probe.step # "none" => \E server \in Servers : \E b \in Prefixed(server.banner) : Identified(probe, server, b)

\* Whatever the port, a probe reads a prefix of the server's banner.
LEMMA GrabsAPrefix ==
  ASSUME NEW server, NEW port, NEW read \in Grabs(server, port), read # NoBanner
  PROVE  \E b \in Prefixed(server.banner) : read = <<b>>
<1>1. Nothing \in Prefixed(server.banner)
  BY DEF Prefixed
<1> QED
  BY <1>1 DEF Grabs, grabHTTPSBanner, grabHTTPBanner, grabRawBanner

LEMMA IdentifiedStep == ProbeInv /\ IdentifiedInv /\ [Next]_vars => IdentifiedInv'
<1> SUFFICES ASSUME ProbeInv, IdentifiedInv, [Next]_vars PROVE IdentifiedInv'
  OBVIOUS
<1>1. CASE UNCHANGED probe
  BY <1>1 DEF IdentifiedInv, Identified
<1>2. CASE GrabBanner /\ probe' # probe
  <2>1. PICK server \in Servers : \E read \in Grabs(server, open[1]) : \E response \in Responses :
           /\ read # NoBanner
           /\ probe' = [step |-> "grabbed", port |-> open[1], server |-> <<server>>,
                        response |-> <<response>>, read |-> read,
                        name |-> parseServiceBanner(read[1]).name,
                        version |-> parseServiceBanner(read[1]).version,
                        cves |-> Check(parseServiceBanner(read[1]).name, parseServiceBanner(read[1]).version),
                        fetched |-> <<>>, techs |-> <<>>]
    BY <1>2, GrabbedProbe
  <2>2. PICK read \in Grabs(server, open[1]) : \E response \in Responses :
           /\ read # NoBanner
           /\ probe' = [step |-> "grabbed", port |-> open[1], server |-> <<server>>,
                        response |-> <<response>>, read |-> read,
                        name |-> parseServiceBanner(read[1]).name,
                        version |-> parseServiceBanner(read[1]).version,
                        cves |-> Check(parseServiceBanner(read[1]).name, parseServiceBanner(read[1]).version),
                        fetched |-> <<>>, techs |-> <<>>]
    BY <2>1
  <2>3. PICK b \in Prefixed(server.banner) : read = <<b>>
    BY <2>2, GrabsAPrefix
  <2>4. read[1] = b
    BY <2>3
  <2>5. Identified(probe', server, b)
    <3>1. /\ probe'.server = <<server>> /\ probe'.read = <<b>>
          /\ probe'.name = parseServiceBanner(read[1]).name
          /\ probe'.version = parseServiceBanner(read[1]).version
          /\ probe'.cves = Check(parseServiceBanner(read[1]).name, parseServiceBanner(read[1]).version)
      BY <2>2, <2>3
    <3> QED
      BY <3>1, <2>4 DEF Identified
  <2> QED
    BY <2>5 DEF IdentifiedInv
<1>3. CASE probe.step = "grabbed" /\ FetchPage
  <2>1. /\ probe'.server = probe.server /\ probe'.read = probe.read /\ probe'.name = probe.name
        /\ probe'.version = probe.version /\ probe'.cves = probe.cves
    BY <1>3, FetchedProbe
  <2>2. PICK server \in Servers : \E b \in Prefixed(server.banner) : Identified(probe, server, b)
    BY <1>3 DEF IdentifiedInv
  <2>3. PICK b \in Prefixed(server.banner) : Identified(probe, server, b)
    BY <2>2
  <2>4. Identified(probe', server, b)
    BY <2>1, <2>3 DEF Identified
  <2> QED
    BY <2>4 DEF IdentifiedInv
<1>4. CASE probe' = NoProbe
  BY <1>4, NoProbeShape DEF IdentifiedInv
<1> QED
  BY <1>1, <1>2, <1>3, <1>4, ProbeSteps

LEMMA IdentifiedInvariant == Spec => []IdentifiedInv
<1>1. ReconInit => IdentifiedInv
  BY NoProbeShape DEF ReconInit, IdentifiedInv
<1> QED
  BY <1>1, IdentifiedStep, ProbeInvariant, PTL DEF Spec

\* The first items of a list, and the first items with another one after them.
LEMMA FirstItems ==
  ASSUME NEW T, NEW s \in Seq(T), NEW k \in 0..Len(s)
  PROVE  /\ SubSeq(s, 1, k) \in Seq(T) /\ Len(SubSeq(s, 1, k)) = k
         /\ \A i \in 1..k : SubSeq(s, 1, k)[i] = s[i]
  OBVIOUS

LEMMA CutItems ==
  ASSUME NEW T, NEW s \in Seq(T), NEW k \in DOMAIN s, NEW x \in T
  PROVE  LET v == Append(SubSeq(s, 1, k - 1), x)
         IN  v \in Seq(T) /\ Len(v) = k /\ v[k] = x /\ \A i \in 1..k-1 : v[i] = s[i]
<1> DEFINE u == SubSeq(s, 1, k - 1)
<1>1. k \in 1..Len(s) /\ k - 1 \in 0..Len(s)
  OBVIOUS
<1>2. u \in Seq(T) /\ Len(u) = k - 1 /\ \A i \in 1..k-1 : u[i] = s[i]
  BY <1>1, FirstItems
<1> HIDE DEF u
<1>3. Append(u, x) \in Seq(T) /\ Len(Append(u, x)) = k /\ Append(u, x)[k] = x
      /\ \A i \in 1..k-1 : Append(u, x)[i] = s[i]
  BY <1>1, <1>2
<1> QED
  BY <1>3 DEF u

\* What is left of a name.
LEMMA SoftBeginnings ==
  ASSUME NEW soft \in Seq(STRING), Len(soft) <= 1, NEW s \in Beginnings(soft, Cut)
  PROVE  \/ s = <<>>
         \/ soft = <<soft[1]>> /\ \E x \in {soft[1]} \cup Cut(soft[1]) : s = <<x>>
<1>1. CASE Len(soft) = 0
  <2>1. soft = <<>> /\ DOMAIN soft = {} /\ 0..Len(soft) = {0} /\ SubSeq(soft, 1, 0) = <<>>
    BY <1>1
  <2> QED
    BY <2>1 DEF Beginnings
<1>2. CASE Len(soft) = 1
  <2>1. PICK name \in STRING : soft = <<name>>
    <3>1. soft[1] \in STRING /\ <<soft[1]>> \in Seq(STRING) /\ Len(<<soft[1]>>) = 1 /\ <<soft[1]>>[1] = soft[1]
      BY <1>2
    <3>2. \A i \in 1..1 : i = 1
      OBVIOUS
    <3>3. soft = <<soft[1]>>
      BY <1>2, <3>1, <3>2, SeqEqual
    <3> QED
      BY <3>1, <3>3
  <2>2. soft[1] = name /\ \A i \in DOMAIN soft : i = 1
    BY <1>2, <2>1
  <2>3. SubSeq(soft, 1, 0) = <<>>
    <3>1. 0 \in 0..Len(soft)
      BY <1>2
    <3>2. SubSeq(soft, 1, 0) \in Seq(STRING) /\ Len(SubSeq(soft, 1, 0)) = 0
      BY <3>1, FirstItems
    <3> QED
      BY <3>2, EmptySeq
  <2>4. ASSUME NEW k \in 0..Len(soft), s = SubSeq(soft, 1, k) PROVE s \in {<<>>, soft}
    <3>1. CASE k = 0
      BY <2>3, <2>4, <3>1
    <3>2. CASE k = 1
      <4>1. s \in Seq(STRING) /\ Len(s) = 1 /\ \A i \in 1..1 : s[i] = soft[i]
        BY <1>2, <2>4, <3>2, FirstItems
      <4> QED
        BY <1>2, <4>1, SeqEqual
    <3> QED
      BY <1>2, <3>1, <3>2
  <2>5. ASSUME NEW x \in Cut(name), s = Append(SubSeq(soft, 1, 1 - 1), x) PROVE s = <<x>>
    <3>1. 1 - 1 = 0 /\ \A y : Append(<<>>, y) = <<y>>
      OBVIOUS
    <3> QED
      BY <2>3, <2>5, <3>1
  <2>6. \/ \E k \in 0..Len(soft) : s = SubSeq(soft, 1, k)
        \/ \E x \in Cut(name) : s = Append(SubSeq(soft, 1, 1 - 1), x)
    <3>1. \/ \E k \in 0..Len(soft) : s = SubSeq(soft, 1, k)
          \/ \E k \in DOMAIN soft : \E x \in Cut(soft[k]) : s = Append(SubSeq(soft, 1, k - 1), x)
      BY Zenon DEF Beginnings
    <3> QED
      BY <2>2, <3>1
  <2> QED
    BY <2>1, <2>2, <2>4, <2>5, <2>6
<1> QED
  <2>1. Len(soft) = 0 \/ Len(soft) = 1
    <3>1. PICK n \in Nat : n = Len(soft)
      OBVIOUS
    <3>2. n = 0 \/ n = 1
      BY <3>1
    <3> QED
      BY <3>1, <3>2
  <2> QED
    BY <1>1, <1>2, <2>1, Zenon

\* What is left of a version: its first components, the last one whole or cut.
LEMMA VersionBeginnings ==
  ASSUME NEW s \in Seq(Int), NEW v \in Beginnings(s, CutNumber)
  PROVE  /\ v \in Seq(Int) /\ Len(v) \in 0..Len(s)
         /\ \A i \in 1..Len(v)-1 : v[i] = s[i]
         /\ v # <<>> => v[Len(v)] = s[Len(v)] \/ v[Len(v)] \in CutNumber(s[Len(v)])
<1>1. ASSUME NEW k \in 0..Len(s), v = SubSeq(s, 1, k)
      PROVE  /\ v \in Seq(Int) /\ Len(v) \in 0..Len(s)
             /\ \A i \in 1..Len(v)-1 : v[i] = s[i]
             /\ v # <<>> => v[Len(v)] = s[Len(v)]
  <2>1. v \in Seq(Int) /\ Len(v) = k /\ \A i \in 1..k : v[i] = s[i]
    BY <1>1, FirstItems
  <2>2. v # <<>> => k \in 1..k
    BY <2>1
  <2> QED
    BY <2>1, <2>2
<1>2. ASSUME NEW k \in DOMAIN s, NEW x \in CutNumber(s[k]), v = Append(SubSeq(s, 1, k - 1), x)
      PROVE  /\ v \in Seq(Int) /\ Len(v) \in 0..Len(s)
             /\ \A i \in 1..Len(v)-1 : v[i] = s[i]
             /\ v[Len(v)] \in CutNumber(s[Len(v)])
  <2>1. PICK c \in Int : c = s[k]
    OBVIOUS
  <2>2. x \in Int
    <3>1. \A n \in Nat : /\ n \div 10 \in Int /\ n \div 100 \in Int
                         /\ n \div 1000 \in Int /\ n \div 10000 \in Int
      OBVIOUS
    <3>2. \A n \in Nat : CutDigits(n) \subseteq Int
      BY <3>1 DEF CutDigits
    <3>3. CASE c >= 0
      <4>1. CutNumber(c) = CutDigits(c)
        BY <3>3 DEF CutNumber
      <4> QED
        BY <2>1, <3>2, <3>3, <4>1
    <3>4. CASE c < 0
      <4>1. PICK n \in Nat : n = -(c + 1)
        BY <3>4
      <4>2. CutNumber(c) = {c, n} \cup CutDigits(n)
        <5>1. ~(c >= 0)
          BY <3>4
        <5>2. CutNumber(c) = {c, -(c + 1)} \cup CutDigits(-(c + 1))
          BY <5>1, Zenon DEF CutNumber
        <5> QED
          BY <4>1, <5>2, Zenon
      <4> QED
        BY <2>1, <3>2, <4>2
    <3> QED
      BY <3>3, <3>4
  <2>3. v \in Seq(Int) /\ Len(v) = k /\ v[k] = x /\ \A i \in 1..k-1 : v[i] = s[i]
    BY <1>2, <2>2, CutItems
  <2> QED
    BY <2>3
<1> QED
  BY <1>1, <1>2 DEF Beginnings

\* What is left of a text contains no more than the text.
LEMMA CutHolds ==
  ASSUME NEW text, NEW part \in Cut(text), NEW pattern, Has(part, pattern)
  PROVE  Has(text, pattern)
  BY TextsAssumption DEF Has, Cut

LEMMA WordBeginnings ==
  ASSUME NEW s \in Seq(STRING), NEW w \in Beginnings(s, Cut)
  PROVE  \A i \in DOMAIN w : i \in DOMAIN s /\ (w[i] = s[i] \/ w[i] \in Cut(s[i]))
<1>1. ASSUME NEW k \in 0..Len(s), w = SubSeq(s, 1, k), NEW i \in DOMAIN w
      PROVE  i \in DOMAIN s /\ w[i] = s[i]
  <2>1. w \in Seq(STRING) /\ Len(w) = k /\ \A j \in 1..k : w[j] = s[j]
    BY <1>1, FirstItems
  <2> QED
    BY <1>1, <2>1
<1>2. ASSUME NEW k \in DOMAIN s, NEW x \in Cut(s[k]), w = Append(SubSeq(s, 1, k - 1), x), NEW i \in DOMAIN w
      PROVE  i \in DOMAIN s /\ (w[i] = s[i] \/ w[i] \in Cut(s[i]))
  <2> DEFINE T == STRING \cup {x}
  <2>1. s \in Seq(T) /\ x \in T
    OBVIOUS
  <2> HIDE DEF T
  <2>2. w \in Seq(T) /\ Len(w) = k /\ w[k] = x /\ \A j \in 1..k-1 : w[j] = s[j]
    BY <1>2, <2>1, CutItems
  <2>3. i = k \/ i \in 1..k-1
    BY <1>2, <2>2
  <2>4. i \in DOMAIN s
    BY <1>2, <2>2
  <2> QED
    BY <1>2, <2>2, <2>3, <2>4
<1> QED
  BY <1>1, <1>2 DEF Beginnings

LEMMA WholeBeginning ==
  ASSUME NEW s \in Seq(Int)
  PROVE  s \in Beginnings(s, CutNumber)
<1>1. Len(s) \in 0..Len(s) /\ SubSeq(s, 1, Len(s)) = s
  <2>1. Len(s) \in 0..Len(s)
    OBVIOUS
  <2>2. SubSeq(s, 1, Len(s)) \in Seq(Int) /\ Len(SubSeq(s, 1, Len(s))) = Len(s)
        /\ \A i \in 1..Len(s) : SubSeq(s, 1, Len(s))[i] = s[i]
    BY <2>1, FirstItems
  <2> QED
    BY <2>1, <2>2, SeqEqual
<1> QED
  BY <1>1, Zenon DEF Beginnings

LEMMA OneOrNone ==
  ASSUME NEW s \in Seq(STRING), Len(s) <= 1, s # <<>>
  PROVE  s = <<s[1]>>
<1>1. PICK n \in Nat : n = Len(s)
  OBVIOUS
<1>2. n # 0
  BY <1>1, EmptySeq
<1>3. Len(s) = 1
  BY <1>1, <1>2
<1>4. s[1] \in STRING /\ <<s[1]>> \in Seq(STRING) /\ Len(<<s[1]>>) = 1 /\ <<s[1]>>[1] = s[1]
  BY <1>3
<1>5. \A i \in 1..1 : i = 1
  OBVIOUS
<1> QED
  BY <1>3, <1>4, <1>5, SeqEqual

\* What is left of a banner, field by field.
LEMMA PrefixFields ==
  ASSUME NEW server \in Servers, NEW b \in Prefixed(server.banner)
  PROVE  \/ b = Nothing
         \/ /\ b.proto = server.banner.proto
            /\ \/ /\ b.soft \in Beginnings(server.banner.soft, Cut)
                  /\ b.version = <<>> /\ b.words = <<>>
               \/ /\ b.soft = server.banner.soft
                  /\ b.version \in Beginnings(server.banner.version, CutNumber)
                  /\ b.words = server.banner.words
               \/ /\ b.soft = server.banner.soft /\ b.version = server.banner.version
                  /\ b.words \in Beginnings(server.banner.words, Cut)
<1>1. PICK proto, soft, version, words :
        /\ server.banner = [proto |-> proto, soft |-> soft, version |-> version, words |-> words]
        /\ server.banner.proto = proto /\ server.banner.soft = soft
        /\ server.banner.version = version /\ server.banner.words = words
  BY ServersAssumption
<1> DEFINE banner == [proto |-> proto, soft |-> soft, version |-> version, words |-> words]
           Softs == Beginnings(soft, Cut)
           Versions == Beginnings(version, CutNumber)
           Greetings == Beginnings(words, Cut)
<1>2. \/ b = Nothing
      \/ \E s \in Softs : b = [banner EXCEPT !.soft = s, !.version = <<>>, !.words = <<>>]
      \/ \E v \in Versions : b = [banner EXCEPT !.version = v]
      \/ \E w \in Greetings : b = [banner EXCEPT !.words = w]
  BY <1>1, Zenon DEF Prefixed
<1> HIDE DEF Softs, Versions, Greetings
<1>3. ASSUME NEW s \in Softs, b = [banner EXCEPT !.soft = s, !.version = <<>>, !.words = <<>>]
      PROVE  b.proto = proto /\ b.soft \in Softs /\ b.version = <<>> /\ b.words = <<>>
  BY <1>3
<1>4. ASSUME NEW v \in Versions, b = [banner EXCEPT !.version = v]
      PROVE  b.proto = proto /\ b.soft = soft /\ b.version \in Versions /\ b.words = words
  BY <1>4
<1>5. ASSUME NEW w \in Greetings, b = [banner EXCEPT !.words = w]
      PROVE  b.proto = proto /\ b.soft = soft /\ b.version = version /\ b.words \in Greetings
  BY <1>5
<1> HIDE DEF banner
<1> QED
  BY <1>1, <1>2, <1>3, <1>4, <1>5, Zenon DEF Softs, Versions, Greetings

\* What is made of the name and the version that a banner of SSH or HTTP holds.
OwnName(proto) == IF proto = "SSH" THEN "ssh" ELSE "http"

Named(b, name, v) ==
  \/ b.soft # <<>> /\ name = b.soft[1] /\ v = b.version
  \/ b.soft \in {<<>>, <<"">>} /\ name = OwnName(b.proto) /\ v = <<>>

LEMMA NameAndVersion ==
  ASSUME NEW b, b.proto \in {"SSH", "HTTP"}
  PROVE  Named(b, parseServiceBanner(b).name, parseServiceBanner(b).version)
<1>1. CASE b.proto = "SSH"
  <2>1. parseServiceBanner(b) = parseSSHBanner(b)
    BY <1>1 DEF parseServiceBanner
  <2>2. CASE b.soft \in {<<>>, <<"">>}
    <3>1. parseServiceBanner(b) = Service("ssh", <<>>)
      BY <2>1, <2>2 DEF parseSSHBanner
    <3>2. parseServiceBanner(b).name = "ssh" /\ parseServiceBanner(b).version = <<>>
      BY <3>1 DEF Service
    <3> QED
      BY <1>1, <2>2, <3>2 DEF Named, OwnName
  <2>3. CASE b.soft \notin {<<>>, <<"">>}
    <3>1. parseServiceBanner(b) = Service(b.soft[1], b.version)
      BY <2>1, <2>3 DEF parseSSHBanner
    <3>2. parseServiceBanner(b).name = b.soft[1] /\ parseServiceBanner(b).version = b.version
      BY <3>1 DEF Service
    <3> QED
      BY <2>3, <3>2 DEF Named
  <2> QED
    BY <2>2, <2>3
<1>2. CASE b.proto = "HTTP"
  <2>1. parseServiceBanner(b) = parseHTTPBanner(b)
    BY <1>2 DEF parseServiceBanner
  <2>2. CASE b.soft = <<>>
    <3>1. parseServiceBanner(b) = Service("http", <<>>)
      BY <2>1, <2>2 DEF parseHTTPBanner
    <3>2. parseServiceBanner(b).name = "http" /\ parseServiceBanner(b).version = <<>>
      BY <3>1 DEF Service
    <3> QED
      BY <1>2, <2>2, <3>2 DEF Named, OwnName
  <2>3. CASE b.soft # <<>>
    <3>1. parseServiceBanner(b) = Service(b.soft[1], b.version)
      BY <2>1, <2>3 DEF parseHTTPBanner
    <3>2. parseServiceBanner(b).name = b.soft[1] /\ parseServiceBanner(b).version = b.version
      BY <3>1 DEF Service
    <3> QED
      BY <2>3, <3>2 DEF Named
  <2> QED
    BY <2>2, <2>3
<1> QED
  BY <1>1, <1>2

LEMMA NothingNamed ==
  parseServiceBanner(Nothing).name = "" /\ parseServiceBanner(Nothing).version = <<>>
<1>1. Nothing.proto = ""
  BY DEF Nothing
<1>2. parseServiceBanner(Nothing) = Service("", <<>>)
  BY <1>1, Zenon DEF parseServiceBanner
<1>3. Service("", <<>>).name = "" /\ Service("", <<>>).version = <<>>
  BY DEF Service
<1> QED
  BY <1>2, <1>3, Zenon

\* A version goes with the whole name of what the server runs.
LEMMA NamedByPrefix ==
  ASSUME NEW server \in Servers, server.banner.proto \in {"SSH", "HTTP"},
         NEW b \in Prefixed(server.banner)
  PROVE  LET banner == server.banner
             name == parseServiceBanner(b).name
             v == parseServiceBanner(b).version
             Protocol == IF banner.proto = "SSH" THEN "ssh" ELSE "http"
         IN  /\ name \in {Protocol, ""} \cup ToSet(banner.soft)
                         \cup UNION {Cut(x) : x \in ToSet(banner.soft)}
             /\ b = banner /\ banner.soft \notin {<<>>, <<"">>} =>
                  name = banner.soft[1] /\ v = banner.version
             /\ v # <<>> => banner.soft = <<name>> /\ v \in Beginnings(banner.version, CutNumber)
<1> DEFINE banner == server.banner
           name == parseServiceBanner(b).name
           v == parseServiceBanner(b).version
           Protocol == IF banner.proto = "SSH" THEN "ssh" ELSE "http"
           Names == {Protocol, ""} \cup ToSet(banner.soft)
                         \cup UNION {Cut(x) : x \in ToSet(banner.soft)}
<1>1. /\ banner.soft \in Seq(STRING) /\ Len(banner.soft) <= 1
      /\ banner.version \in Seq(Int)
  BY ServersAssumption
<1>2. ASSUME b = Nothing
      PROVE  name = "" /\ v = <<>> /\ b # banner
  <2>1. b.proto = ""
    BY <1>2 DEF Nothing
  <2>2. name = "" /\ v = <<>>
    BY <1>2, NothingNamed
  <2> QED
    BY <2>1, <2>2
<1>3. ASSUME b # Nothing
      PROVE  \/ b.soft # <<>> /\ name = b.soft[1] /\ v = b.version
             \/ b.soft \in {<<>>, <<"">>} /\ name = Protocol /\ v = <<>>
  <2>1. b.proto = banner.proto /\ b.proto \in {"SSH", "HTTP"}
    BY <1>3, PrefixFields
  <2>2. Named(b, name, v)
    BY <2>1, NameAndVersion
  <2>3. Protocol = OwnName(b.proto)
    BY <2>1, Zenon DEF OwnName
  <2> HIDE DEF name, v, Protocol
  <2> QED
    BY <2>2, <2>3, Zenon DEF Named
<1>4. ASSUME b # Nothing, b.soft # <<>>
      PROVE  b.soft[1] \in ToSet(banner.soft) \cup UNION {Cut(x) : x \in ToSet(banner.soft)}
  <2>1. b.soft = banner.soft \/ b.soft \in Beginnings(banner.soft, Cut)
    BY <1>4, PrefixFields
  <2>2. banner.soft # <<>> => banner.soft[1] \in ToSet(banner.soft)
    BY <1>1 DEF ToSet
  <2>3. CASE b.soft = banner.soft
    BY <1>4, <2>2, <2>3
  <2>4. CASE b.soft \in Beginnings(banner.soft, Cut)
    <3>1. /\ banner.soft = <<banner.soft[1]>>
          /\ \E x \in {banner.soft[1]} \cup Cut(banner.soft[1]) : b.soft = <<x>>
      BY <1>1, <1>4, <2>4, SoftBeginnings
    <3>2. PICK x \in {banner.soft[1]} \cup Cut(banner.soft[1]) : b.soft = <<x>>
      BY <3>1
    <3>3. b.soft[1] = x /\ banner.soft # <<>>
      BY <3>1, <3>2
    <3> QED
      BY <2>2, <3>3
  <2> QED
    BY <2>1, <2>3, <2>4
<1>5. name \in Names
  BY <1>2, <1>3, <1>4
<1>6. b = banner /\ banner.soft \notin {<<>>, <<"">>} => name = banner.soft[1] /\ v = banner.version
  BY <1>2, <1>3
<1>7. ASSUME v # <<>>
      PROVE  banner.soft = <<name>> /\ v \in Beginnings(banner.version, CutNumber)
  <2>1. b # Nothing
    BY <1>2, <1>7
  <2>2. b.soft # <<>> /\ name = b.soft[1] /\ v = b.version
    BY <1>3, <1>7, <2>1
  <2>3. b.soft = banner.soft /\ v \in Beginnings(banner.version, CutNumber) \cup {banner.version}
    BY <1>7, <2>1, <2>2, PrefixFields
  <2>4. banner.version \in Beginnings(banner.version, CutNumber)
    BY <1>1, WholeBeginning
  <2>5. banner.soft = <<banner.soft[1]>>
    BY <1>1, <2>2, <2>3, OneOrNone
  <2> QED
    BY <2>2, <2>3, <2>4, <2>5
<1> HIDE DEF banner, name, v, Names
<1>8. /\ name \in Names
      /\ b = banner /\ banner.soft \notin {<<>>, <<"">>} => name = banner.soft[1] /\ v = banner.version
      /\ v # <<>> => banner.soft = <<name>> /\ v \in Beginnings(banner.version, CutNumber)
  BY <1>5, <1>6, <1>7
<1> QED
  BY <1>8, Zenon DEF banner, name, v, Names

\* A read that ends early leaves a beginning of the name, taken for the name;
\* but a version is only ever reported with the whole name of what the server
\* runs, and is a beginning of its version (banner_fingerprinter.go:196, 238, 266).
THEOREM PortsNamedAsServed == Spec => []NamedAsServed
<1>1. IdentifiedInv => NamedAsServed
  <2> SUFFICES ASSUME IdentifiedInv, probe.step # "none", probe.server[1].banner.proto \in {"SSH", "HTTP"}
               PROVE  LET banner == probe.server[1].banner
                          v == probe.version
                          Protocol == IF banner.proto = "SSH" THEN "ssh" ELSE "http"
                      IN  /\ probe.name \in {Protocol, ""} \cup ToSet(banner.soft)
                                            \cup UNION {Cut(name) : name \in ToSet(banner.soft)}
                          /\ probe.read = <<banner>> /\ banner.soft \notin {<<>>, <<"">>} =>
                               probe.name = banner.soft[1] /\ v = banner.version
                          /\ v # <<>> =>
                               /\ banner.soft = <<probe.name>>
                               /\ Len(v) <= Len(banner.version)
                               /\ \A k \in 1..Len(v) - 1 : v[k] = banner.version[k]
    BY DEF NamedAsServed
  <2>1. PICK server \in Servers : \E b \in Prefixed(server.banner) : Identified(probe, server, b)
    BY DEF IdentifiedInv
  <2>2. PICK b \in Prefixed(server.banner) : Identified(probe, server, b)
    BY <2>1
  <2> DEFINE banner == server.banner
             name == parseServiceBanner(b).name
             v == parseServiceBanner(b).version
             Protocol == IF banner.proto = "SSH" THEN "ssh" ELSE "http"
  <2>3. probe.server[1] = server /\ probe.read = <<b>> /\ probe.name = name /\ probe.version = v
    BY <2>2 DEF Identified
  <2>4. /\ name \in {Protocol, ""} \cup ToSet(banner.soft) \cup UNION {Cut(x) : x \in ToSet(banner.soft)}
        /\ b = banner /\ banner.soft \notin {<<>>, <<"">>} => name = banner.soft[1] /\ v = banner.version
        /\ v # <<>> => banner.soft = <<name>> /\ v \in Beginnings(banner.version, CutNumber)
    BY <2>3, NamedByPrefix
  <2>5. v # <<>> => Len(v) <= Len(banner.version) /\ \A k \in 1..Len(v) - 1 : v[k] = banner.version[k]
    <3>1. SUFFICES ASSUME v # <<>>
                   PROVE  Len(v) <= Len(banner.version) /\ \A k \in 1..Len(v) - 1 : v[k] = banner.version[k]
      OBVIOUS
    <3> DEFINE s == banner.version
    <3>2. s \in Seq(Int) /\ v \in Beginnings(s, CutNumber)
      BY <2>4, <3>1, ServersAssumption
    <3> HIDE DEF s, v
    <3>3. Len(v) \in 0..Len(s) /\ \A i \in 1..Len(v)-1 : v[i] = s[i]
      BY <3>2, VersionBeginnings
    <3>4. Len(s) \in Nat
      BY <3>2
    <3> QED
      BY <3>3, <3>4 DEF s
  <2>6. probe.read = <<banner>> => b = banner
    <3> HIDE DEF banner
    <3> QED
      BY <2>3
  <2>7. probe.server[1].banner = banner
    BY <2>3
  <2> HIDE DEF banner, name, v
  <2> QED
    BY <2>3, <2>4, <2>5, <2>6, <2>7
<1> QED
  BY <1>1, IdentifiedInvariant, PTL

\* What is left of a greeting says no more than the greeting.
LEMMA PrefixSays ==
  ASSUME NEW server \in Servers, NEW b \in Prefixed(server.banner), NEW keywords, Says(b, keywords)
  PROVE  Says(server.banner, keywords)
<1> DEFINE banner == server.banner
<1>1. banner.words \in Seq(STRING)
  BY ServersAssumption
<1>2. PICK k \in DOMAIN b.words : \E w \in keywords : Has(b.words[k], w)
  BY DEF Says
<1>3. PICK w \in keywords : Has(b.words[k], w)
  BY <1>2
<1>4. b # Nothing /\ b.words # <<>>
  <2>1. b.words # <<>>
    <3>1. b.words = <<>> => DOMAIN b.words = {}
      OBVIOUS
    <3> QED
      BY <1>2, <3>1
  <2>2. Nothing.words = <<>>
    BY DEF Nothing
  <2> QED
    BY <2>1, <2>2
<1>5. b.words = banner.words \/ b.words \in Beginnings(banner.words, Cut)
  BY <1>4, PrefixFields
<1>6. k \in DOMAIN banner.words /\ Has(banner.words[k], w)
  <2>1. CASE b.words = banner.words
    BY <1>2, <1>3, <2>1
  <2>2. CASE b.words \in Beginnings(banner.words, Cut)
    <3>1. k \in DOMAIN banner.words /\ (b.words[k] = banner.words[k] \/ b.words[k] \in Cut(banner.words[k]))
      BY <1>1, <1>2, <2>2, WordBeginnings
    <3> QED
      BY <1>3, <3>1, CutHolds
  <2> QED
    BY <1>5, <2>1, <2>2
<1> QED
  BY <1>6 DEF Says

LEMMA GreetingNamed ==
  ASSUME NEW b, b.proto = "220"
  PROVE  LET name == parseServiceBanner(b).name
         IN  /\ Says(b, smtpKeywords) => name = "smtp"
             /\ ~Says(b, smtpKeywords) /\ Says(b, ftpKeywords) => name = "ftp"
             /\ ~Says(b, smtpKeywords) /\ ~Says(b, ftpKeywords) => name = ""
<1>1. parseServiceBanner(b) = parseFTPSMTPBanner(b)
  BY DEF parseServiceBanner
<1>2. /\ Service("smtp", <<>>).name = "smtp" /\ Service("ftp", <<>>).name = "ftp"
      /\ Service("", <<>>).name = ""
  BY DEF Service
<1>3. CASE Says(b, smtpKeywords)
  BY <1>1, <1>2, <1>3, Zenon DEF parseFTPSMTPBanner
<1>4. CASE ~Says(b, smtpKeywords) /\ Says(b, ftpKeywords)
  BY <1>1, <1>2, <1>4, Zenon DEF parseFTPSMTPBanner
<1>5. CASE ~Says(b, smtpKeywords) /\ ~Says(b, ftpKeywords)
  BY <1>1, <1>2, <1>5, Zenon DEF parseFTPSMTPBanner
<1> QED
  BY <1>3, <1>4, <1>5, Zenon

\* A mail server that announces itself is not taken for FTP by its host name,
\* nor a greeting for a protocol of which it says nothing
\* (banner_fingerprinter.go:312-330).
THEOREM MailIsNotTakenForFTP == Spec => []MailIsNotFTP
<1>1. IdentifiedInv => MailIsNotFTP
  <2> SUFFICES ASSUME IdentifiedInv, probe.step # "none", probe.server[1].banner.proto = "220"
               PROVE  LET banner == probe.server[1].banner
                      IN  /\ probe.name \in {"smtp", "ftp", ""}
                          /\ probe.name = "smtp" => Says(banner, smtpKeywords)
                          /\ probe.name = "ftp"  => /\ Says(banner, ftpKeywords)
                                                    /\ ~Says(probe.read[1], smtpKeywords)
                          /\ probe.read = <<banner>> /\ Says(banner, smtpKeywords) => probe.name = "smtp"
    BY DEF MailIsNotFTP
  <2>1. PICK server \in Servers : \E b \in Prefixed(server.banner) : Identified(probe, server, b)
    BY DEF IdentifiedInv
  <2>2. PICK b \in Prefixed(server.banner) : Identified(probe, server, b)
    BY <2>1
  <2> DEFINE banner == server.banner
  <2>3. /\ probe.server[1] = server /\ probe.read = <<b>> /\ probe.read[1] = b
        /\ probe.name = parseServiceBanner(b).name
    BY <2>2 DEF Identified
  <2>4. /\ Says(b, smtpKeywords) => Says(banner, smtpKeywords)
        /\ Says(b, ftpKeywords) => Says(banner, ftpKeywords)
    BY PrefixSays
  <2>5. CASE b = Nothing
    <3>1. probe.name = ""
      BY <2>3, <2>5, NothingNamed
    <3>2. b # banner
      <4>1. Nothing.proto = "" /\ banner.proto = "220"
        BY <2>3 DEF Nothing
      <4> QED
        BY <2>5, <4>1
    <3> HIDE DEF banner
    <3>3. probe.read # <<banner>> /\ probe.server[1].banner = banner
      BY <2>3, <3>2 DEF banner
    <3> QED
      BY <3>1, <3>3
  <2>6. CASE b # Nothing
    <3>1. b.proto = "220"
      BY <2>3, <2>6, PrefixFields
    <3>2. /\ Says(b, smtpKeywords) => probe.name = "smtp"
          /\ ~Says(b, smtpKeywords) /\ Says(b, ftpKeywords) => probe.name = "ftp"
          /\ ~Says(b, smtpKeywords) /\ ~Says(b, ftpKeywords) => probe.name = ""
      BY <2>3, <3>1, GreetingNamed
    <3>3. probe.server[1].banner = banner
      BY <2>3
    <3> HIDE DEF banner
    <3>4. probe.read = <<banner>> => b = banner
      BY <2>3
    <3> QED
      BY <2>3, <2>4, <3>2, <3>3, <3>4
  <2> QED
    BY <2>5, <2>6
<1> QED
  BY <1>1, IdentifiedInvariant, PTL

----------------------------------------------------------------------------
(* Versions and vulnerabilities.                                           *)

\* Its parts, padded, and their weight.
Weighs(v, x, y, z) ==
  /\ Part(v, 1) = x /\ Part(v, 2) = y /\ Part(v, 3) = z
  /\ Weight(v) = x * 10000 + y * 100 + z

LEMMA PlainParts ==
  ASSUME NEW v, Plain(v)
  PROVE  /\ \A i \in DOMAIN v : i \in {1, 2, 3}
         /\ \E x \in 0..99, y \in 0..99, z \in 0..99 : Weighs(v, x, y, z)
<1> DEFINE At(i) == IF i \in DOMAIN v THEN v[i] ELSE 0
<1>1. \A i \in DOMAIN v : i \in {1, 2, 3} /\ v[i] \in 0..99
  BY DEF Plain
<1>2. \A i : Part(v, i) = At(i) /\ At(i) \in 0..99
  BY <1>1 DEF Part, Number
<1>3. Weight(v) = At(1) * 10000 + At(2) * 100 + At(3)
  BY DEF Weight
<1> HIDE DEF At
<1>4. PICK x \in 0..99, y \in 0..99, z \in 0..99 : x = At(1) /\ y = At(2) /\ z = At(3)
  BY <1>2
<1>5. Weighs(v, x, y, z)
  BY <1>2, <1>3, <1>4 DEF Weighs
<1> QED
  BY <1>1, <1>5

LEMMA WeightType == ASSUME NEW v, Plain(v) PROVE Weight(v) \in Int
<1>1. PICK x \in 0..99, y \in 0..99, z \in 0..99 : Weighs(v, x, y, z)
  BY PlainParts
<1> QED
  BY <1>1 DEF Weighs

\* On such versions the padded comparison is that of the weights.
LEMMA LessByWeight ==
  ASSUME NEW a, NEW b, Plain(a), Plain(b)
  PROVE  Less(a, b) <=> Weight(a) < Weight(b)
<1> DEFINE First(i) == /\ Part(a, i) < Part(b, i)
                       /\ \A j \in 1..i-1 : Part(a, j) = Part(b, j)
<1>1. PICK p1 \in 0..99, p2 \in 0..99, p3 \in 0..99 : Weighs(a, p1, p2, p3)
  BY PlainParts
<1>2. PICK q1 \in 0..99, q2 \in 0..99, q3 \in 0..99 : Weighs(b, q1, q2, q3)
  BY PlainParts
<1>3. Less(a, b) <=> \E i \in {1, 2, 3} : First(i)
  <2>1. \A i \in DOMAIN a \cup DOMAIN b : i \in {1, 2, 3}
    BY PlainParts
  <2>2. \A i \in {1, 2, 3} : Part(a, i) < Part(b, i) => i \in DOMAIN a \cup DOMAIN b
    BY DEF Part
  <2> QED
    BY <2>1, <2>2 DEF Less
<1>4. /\ First(1) <=> p1 < q1
      /\ First(2) <=> p1 = q1 /\ p2 < q2
      /\ First(3) <=> p1 = q1 /\ p2 = q2 /\ p3 < q3
  <2>1. /\ \A j : j \in 1..1-1 <=> FALSE
        /\ \A j : j \in 1..2-1 <=> j = 1
        /\ \A j : j \in 1..3-1 <=> j \in {1, 2}
    OBVIOUS
  <2> QED
    BY <1>1, <1>2, <2>1 DEF Weighs
<1> HIDE DEF First
<1>5. Less(a, b) <=> p1 < q1 \/ (p1 = q1 /\ p2 < q2) \/ (p1 = q1 /\ p2 = q2 /\ p3 < q3)
  BY <1>3, <1>4
<1>6. p1 * 10000 + p2 * 100 + p3 < q1 * 10000 + q2 * 100 + q3 <=>
        p1 < q1 \/ (p1 = q1 /\ p2 < q2) \/ (p1 = q1 /\ p2 = q2 /\ p3 < q3)
  <2>1. CASE p1 < q1
    BY <2>1
  <2>2. CASE q1 < p1
    BY <2>2
  <2>3. CASE p1 = q1
    BY <2>3
  <2> QED
    BY <2>1, <2>2, <2>3
<1> QED
  BY <1>1, <1>2, <1>5, <1>6 DEF Weighs

\* So a rule's bounds are bounds on the weight.
LEMMA CompareByWeight ==
  ASSUME NEW a, NEW b, Plain(a), Plain(b)
  PROVE  /\ compareVersions(a, b) <= 0 <=> Weight(a) <= Weight(b)
         /\ compareVersions(a, b) >= 0 <=> Weight(a) >= Weight(b)
<1>1. Weight(a) \in Int /\ Weight(b) \in Int
  BY WeightType
<1> QED
  BY <1>1, LessByWeight DEF compareVersions

LEMMA TenItems ==
  ASSUME NEW T, NEW a \in T, NEW b \in T, NEW c \in T, NEW d \in T, NEW e \in T,
         NEW f \in T, NEW g \in T, NEW h \in T, NEW i \in T, NEW j \in T
  PROVE  LET s == <<a, b, c, d, e, f, g, h, i, j>>
         IN  s \in Seq(T) /\ DOMAIN s = 1..10
  OBVIOUS

LEMMA RulesItems == rules \in Seq(ToSet(rules)) /\ DOMAIN rules = 1..10
<1>1. \A a, b, c, d, e, f, g, h, i, j :
        LET s == <<a, b, c, d, e, f, g, h, i, j>>
        IN  s \in Seq({a, b, c, d, e, f, g, h, i, j}) /\ DOMAIN s = 1..10
  BY TenItems
<1>2. DOMAIN rules = 1..10 /\ Len(rules) = 10
  BY DEF rules
<1>3. rules = [i \in 1..10 |-> rules[i]]
  BY DEF rules
<1>4. \A i \in 1..10 : rules[i] \in ToSet(rules)
  BY <1>2 DEF ToSet
<1>5. rules \in [1..10 -> ToSet(rules)]
  BY <1>3, <1>4
<1> QED
  BY <1>2, <1>5, SeqFromFunction

\* What Check reports.
LEMMA CheckItems ==
  ASSUME NEW name, NEW v
  PROVE  ToSet(Check(name, v)) =
           {rules[i].cve : i \in {j \in 1..10 : rules[j].service = name /\ Fires(rules[j], v)}}
<1> DEFINE S == {j \in DOMAIN rules : rules[j].service = name /\ Fires(rules[j], v)}
           kept == ItemsAt(rules, S)
<1>1. Check(name, v) = [k \in DOMAIN kept |-> kept[k].cve]
  BY DEF Check, Select
<1>2. ToSet(kept) = {rules[j] : j \in S} /\ S = {j \in 1..10 : rules[j].service = name /\ Fires(rules[j], v)}
  BY RulesItems, ItemsAtDomain
<1> HIDE DEF S, kept
<1>3. ToSet(Check(name, v)) = {x.cve : x \in ToSet(kept)}
  BY <1>1 DEF ToSet
<1> QED
  BY <1>2, <1>3

\* Each described vulnerability is the subject of one rule.
LEMMA DescribedRules ==
  ASSUME NEW name, NEW v, NEW c \in Described
  PROVE  c \in ToSet(Check(name, v)) <=>
           \/ c = "CVE-2024-6387"  /\ name = "openssh" /\ Fires(rules[1], v)
           \/ c = "CVE-2021-41773" /\ name = "apache"  /\ Fires(rules[3], v)
           \/ c = "CVE-2021-44790" /\ name = "apache"  /\ Fires(rules[4], v)
           \/ c = "CVE-2021-23017" /\ name = "nginx"   /\ Fires(rules[5], v)
<1>1. \A i \in 1..10 : rules[i].cve \in Described => i \in {1, 3, 4, 5}
  <2>1. /\ rules[2].cve \notin Described /\ rules[6].cve \notin Described /\ rules[7].cve \notin Described
        /\ rules[8].cve \notin Described /\ rules[9].cve \notin Described /\ rules[10].cve \notin Described
    BY DEF rules, Rule, Described
  <2>2. \A i \in 1..10 : i \in {1, 2, 3, 4, 5, 6, 7, 8, 9, 10}
    OBVIOUS
  <2> QED
    BY <2>1, <2>2
<1>2. /\ rules[1].cve = "CVE-2024-6387" /\ rules[1].service = "openssh"
      /\ rules[3].cve = "CVE-2021-41773" /\ rules[3].service = "apache"
      /\ rules[4].cve = "CVE-2021-44790" /\ rules[4].service = "apache"
      /\ rules[5].cve = "CVE-2021-23017" /\ rules[5].service = "nginx"
  BY DEF rules, Rule
<1>3. c \in ToSet(Check(name, v)) <=>
        \E i \in {1, 3, 4, 5} : rules[i].cve = c /\ rules[i].service = name /\ Fires(rules[i], v)
  <2>1. \A i \in {1, 3, 4, 5} : i \in 1..10
    OBVIOUS
  <2> QED
    BY <1>1, <2>1, CheckItems
<1> QED
  BY <1>2, <1>3 DEF Described

LEMMA PlainTriple ==
  ASSUME NEW v, v \in Seq(Int), Len(v) = 3, DOMAIN v = 1..3, v # <<>>,
         v[1] \in 0..99, v[2] \in 0..99, v[3] \in 0..99
  PROVE  Plain(v) /\ v # <<>> /\ Weight(v) = v[1] * 10000 + v[2] * 100 + v[3]
<1>2. 1 \in 1..3 /\ 2 \in 1..3 /\ 3 \in 1..3 /\ \A k \in 1..3 : k \in {1, 2, 3}
  OBVIOUS
<1>3. \A k \in 1..3 : v[k] \in 0..99
  BY <1>2
<1>4. Plain(v)
  BY <1>3 DEF Plain
<1>5. Weight(v) = v[1] * 10000 + v[2] * 100 + v[3]
  BY <1>2 DEF Weight
<1> QED
  BY <1>4, <1>5

\* A bound is inclusive.
LEMMA FiresUpTo ==
  ASSUME NEW v, Plain(v), v # <<>>, NEW rule, NEW max, Plain(max), max # <<>>, rule.max = max, rule.min = <<>>
  PROVE  Fires(rule, v) <=> Weight(v) <= Weight(max)
  BY CompareByWeight DEF Fires

LEMMA FiresBetween ==
  ASSUME NEW v, Plain(v), v # <<>>, NEW rule, NEW max, Plain(max), max # <<>>, rule.max = max,
         NEW min, Plain(min), min # <<>>, rule.min = min
  PROVE  Fires(rule, v) <=> Weight(v) <= Weight(max) /\ Weight(v) >= Weight(min)
  BY CompareByWeight DEF Fires

\* The rules fire on the versions described.
LEMMA RulesFire ==
  ASSUME NEW v, Plain(v), v # <<>>
  PROVE  /\ Fires(rules[1], v) <=> Weight(v) \in 80501..90701
         /\ Fires(rules[3], v) <=> Weight(v) \in {20449, 20450}
         /\ Fires(rules[4], v) <=> Weight(v) < 20452
         /\ Fires(rules[5], v) <=> Weight(v) < 12001
<1>1. Weight(v) \in Int
  BY WeightType
<1>2. Fires(rules[1], v) <=> Weight(v) \in 80501..90701
  <2>1. PICK min, max : min = <<8, 5, 1>> /\ max = <<9, 7, 1>> /\ rules[1].min = min /\ rules[1].max = max
    BY DEF rules, Rule
  <2>2. Plain(min) /\ min # <<>> /\ Weight(min) = 80501
    <3>1. min \in Seq(Int) /\ Len(min) = 3 /\ DOMAIN min = 1..3 /\ min # <<>>
          /\ min[1] = 8 /\ min[2] = 5 /\ min[3] = 1
      BY <2>1
    <3> QED
      BY <3>1, PlainTriple
  <2>3. Plain(max) /\ max # <<>> /\ Weight(max) = 90701
    <3>1. max \in Seq(Int) /\ Len(max) = 3 /\ DOMAIN max = 1..3 /\ max # <<>>
          /\ max[1] = 9 /\ max[2] = 7 /\ max[3] = 1
      BY <2>1
    <3> QED
      BY <3>1, PlainTriple
  <2>4. Fires(rules[1], v) <=> Weight(v) <= 90701 /\ Weight(v) >= 80501
    BY <2>1, <2>2, <2>3, FiresBetween
  <2>5. PICK w \in Int : w = Weight(v)
    BY <1>1
  <2>6. w \in 80501..90701 <=> w <= 90701 /\ w >= 80501
    OBVIOUS
  <2> QED
    BY <2>4, <2>5, <2>6
<1>3. Fires(rules[3], v) <=> Weight(v) \in {20449, 20450}
  <2>1. PICK min, max : min = <<2, 4, 49>> /\ max = <<2, 4, 50>> /\ rules[3].min = min /\ rules[3].max = max
    BY DEF rules, Rule
  <2>2. Plain(min) /\ min # <<>> /\ Weight(min) = 20449
    <3>1. min \in Seq(Int) /\ Len(min) = 3 /\ DOMAIN min = 1..3 /\ min # <<>>
          /\ min[1] = 2 /\ min[2] = 4 /\ min[3] = 49
      BY <2>1
    <3> QED
      BY <3>1, PlainTriple
  <2>3. Plain(max) /\ max # <<>> /\ Weight(max) = 20450
    <3>1. max \in Seq(Int) /\ Len(max) = 3 /\ DOMAIN max = 1..3 /\ max # <<>>
          /\ max[1] = 2 /\ max[2] = 4 /\ max[3] = 50
      BY <2>1
    <3> QED
      BY <3>1, PlainTriple
  <2>4. Fires(rules[3], v) <=> Weight(v) <= 20450 /\ Weight(v) >= 20449
    BY <2>1, <2>2, <2>3, FiresBetween
  <2> QED
    BY <1>1, <2>4
<1>4. Fires(rules[4], v) <=> Weight(v) < 20452
  <2>1. PICK max : max = <<2, 4, 51>> /\ rules[4].min = <<>> /\ rules[4].max = max
    BY DEF rules, Rule
  <2>2. Plain(max) /\ max # <<>> /\ Weight(max) = 20451
    <3>1. max \in Seq(Int) /\ Len(max) = 3 /\ DOMAIN max = 1..3 /\ max # <<>>
          /\ max[1] = 2 /\ max[2] = 4 /\ max[3] = 51
      BY <2>1
    <3> QED
      BY <3>1, PlainTriple
  <2>3. Fires(rules[4], v) <=> Weight(v) <= 20451
    BY <2>1, <2>2, FiresUpTo
  <2> QED
    BY <1>1, <2>3
<1>5. Fires(rules[5], v) <=> Weight(v) < 12001
  <2>1. PICK max : max = <<1, 20, 0>> /\ rules[5].min = <<>> /\ rules[5].max = max
    BY DEF rules, Rule
  <2>2. Plain(max) /\ max # <<>> /\ Weight(max) = 12000
    <3>1. max \in Seq(Int) /\ Len(max) = 3 /\ DOMAIN max = 1..3 /\ max # <<>>
          /\ max[1] = 1 /\ max[2] = 20 /\ max[3] = 0
      BY <2>1
    <3> QED
      BY <3>1, PlainTriple
  <2>3. Fires(rules[5], v) <=> Weight(v) <= 12000
    BY <2>1, <2>2, FiresUpTo
  <2> QED
    BY <1>1, <2>3
<1> QED
  BY <1>2, <1>3, <1>4, <1>5

\* On such a version the report lies between what both texts say and what one does.
LEMMA FoundAsDescribed ==
  ASSUME NEW soft, NEW v, Plain(v), v # <<>>, NEW c \in Described
  PROVE  c \in ToSet(Check(soft, v)) <=> Affects(c, soft, v) \/ Disputed(c, soft, v)
<1>1. PICK w \in Int : w = Weight(v)
  BY WeightType
<1>2. /\ Fires(rules[1], v) <=> w \in 80501..90701
      /\ Fires(rules[3], v) <=> w = 20449 \/ w = 20450
      /\ Fires(rules[4], v) <=> w \in 20400..20451 \/ w < 20400
      /\ Fires(rules[5], v) <=> w < 12001
  <2>1. /\ Fires(rules[1], v) <=> Weight(v) \in 80501..90701
        /\ Fires(rules[3], v) <=> Weight(v) \in {20449, 20450}
        /\ Fires(rules[4], v) <=> Weight(v) < 20452
        /\ Fires(rules[5], v) <=> Weight(v) < 12001
    BY RulesFire
  <2>2. Fires(rules[1], v) <=> w \in 80501..90701
    BY <1>1, <2>1
  <2>3. Fires(rules[3], v) <=> w = 20449 \/ w = 20450
    BY <1>1, <2>1
  <2>4. Fires(rules[4], v) <=> w \in 20400..20451 \/ w < 20400
    <3>1. Fires(rules[4], v) <=> w < 20452
      BY <1>1, <2>1
    <3>2. ASSUME NEW n \in Int PROVE n < 20452 <=> n \in 20400..20451 \/ n < 20400
      OBVIOUS
    <3> QED
      BY <3>1, <3>2
  <2>5. Fires(rules[5], v) <=> w < 12001
    BY <1>1, <2>1
  <2> QED
    BY <2>2, <2>3, <2>4, <2>5
<1>3. /\ Affects(c, soft, v) <=>
           \/ c = "CVE-2024-6387"  /\ soft = "openssh" /\ w \in 80501..90701
           \/ c = "CVE-2021-41773" /\ soft = "apache"  /\ w = 20449
           \/ c = "CVE-2021-44790" /\ soft = "apache"  /\ w \in 20400..20451
           \/ c = "CVE-2021-23017" /\ soft = "nginx"   /\ w < 12001
      /\ Disputed(c, soft, v) <=>
           \/ c = "CVE-2021-41773" /\ soft = "apache"  /\ w = 20450
           \/ c = "CVE-2021-44790" /\ soft = "apache"  /\ w < 20400
  BY <1>1 DEF Affects, Disputed
<1>4. CASE c = "CVE-2024-6387"
  BY <1>2, <1>3, <1>4, DescribedRules
<1>5. CASE c = "CVE-2021-41773"
  BY <1>2, <1>3, <1>5, DescribedRules
<1>6. CASE c = "CVE-2021-44790"
  BY <1>2, <1>3, <1>6, DescribedRules
<1>7. CASE c = "CVE-2021-23017"
  BY <1>2, <1>3, <1>7, DescribedRules
<1> QED
  BY <1>4, <1>5, <1>6, <1>7 DEF Described

\* What is left of a number below a hundred is no larger.
LEMMA CutIsSmaller ==
  ASSUME NEW c \in 0..99, NEW x \in CutNumber(c)
  PROVE  x \in 0..c
<1>1. CutNumber(c) = CutDigits(c)
  BY DEF CutNumber
<1>2. /\ c \div 10 \in 0..c /\ c \div 100 \in 0..c
      /\ c \div 1000 \in 0..c /\ c \div 10000 \in 0..c
  OBVIOUS
<1> QED
  BY <1>1, <1>2 DEF CutDigits

\* So a version cut short is no newer than the whole.
LEMMA CutIsOlder ==
  ASSUME NEW s, Plain(s), NEW v \in Beginnings(s, CutNumber)
  PROVE  Plain(v) /\ Weight(v) <= Weight(s)
<1>1. s \in Seq(Int) /\ Len(s) <= 3 /\ \A k \in DOMAIN s : s[k] \in 0..99
  BY DEF Plain
<1>2. /\ v \in Seq(Int) /\ Len(v) \in 0..Len(s)
      /\ \A i \in 1..Len(v)-1 : v[i] = s[i]
      /\ v # <<>> => v[Len(v)] = s[Len(v)] \/ v[Len(v)] \in CutNumber(s[Len(v)])
  BY <1>1, VersionBeginnings
<1>3. ASSUME NEW i \in DOMAIN v
      PROVE  i \in DOMAIN s /\ v[i] \in 0..99 /\ v[i] <= s[i]
  <2>1. i \in DOMAIN s /\ v # <<>> /\ (i = Len(v) \/ i \in 1..Len(v)-1)
    BY <1>1, <1>2, <1>3
  <2>2. s[i] \in 0..99
    BY <1>1, <2>1
  <2>3. v[i] = s[i] \/ v[i] \in CutNumber(s[i])
    BY <1>2, <2>1
  <2>4. PICK c \in 0..99 : c = s[i]
    BY <2>2
  <2>5. PICK x : x = v[i]
    OBVIOUS
  <2>6. x = c \/ x \in 0..c
    <3>1. x = c \/ x \in CutNumber(c)
      BY <2>3, <2>4, <2>5
    <3> QED
      BY <3>1, CutIsSmaller
  <2>7. x \in 0..99 /\ x <= c
    BY <2>6
  <2> QED
    BY <2>1, <2>4, <2>5, <2>7
<1>4. Plain(v)
  <2>1. Len(v) <= 3
    BY <1>1, <1>2
  <2> QED
    BY <1>2, <1>3, <2>1 DEF Plain
<1>5. Weight(v) <= Weight(s)
  <2> DEFINE At(u, i) == IF i \in DOMAIN u THEN u[i] ELSE 0
  <2>1. \A i : At(v, i) \in 0..99 /\ At(s, i) \in 0..99 /\ At(v, i) <= At(s, i)
    <3>1. ASSUME NEW i PROVE At(v, i) \in 0..99 /\ At(s, i) \in 0..99 /\ At(v, i) <= At(s, i)
      <4>1. At(s, i) \in 0..99
        BY <1>1
      <4>2. CASE i \in DOMAIN v
        <5>1. At(v, i) = v[i] /\ At(s, i) = s[i] /\ v[i] \in 0..99 /\ v[i] <= s[i]
          BY <1>3, <4>2
        <5> HIDE DEF At
        <5> QED
          BY <4>1, <5>1
      <4>3. CASE i \notin DOMAIN v
        <5>1. At(v, i) = 0
          BY <4>3
        <5> HIDE DEF At
        <5> QED
          BY <4>1, <5>1
      <4> QED
        BY <4>2, <4>3
    <3> HIDE DEF At
    <3> QED
      BY <3>1
  <2>2. /\ Weight(v) = At(v, 1) * 10000 + At(v, 2) * 100 + At(v, 3)
        /\ Weight(s) = At(s, 1) * 10000 + At(s, 2) * 100 + At(s, 3)
    BY DEF Weight
  <2> HIDE DEF At
  <2>3. PICK p1 \in 0..99, p2 \in 0..99, p3 \in 0..99 : p1 = At(v, 1) /\ p2 = At(v, 2) /\ p3 = At(v, 3)
    BY <2>1
  <2>4. PICK q1 \in 0..99, q2 \in 0..99, q3 \in 0..99 : q1 = At(s, 1) /\ q2 = At(s, 2) /\ q3 = At(s, 3)
    BY <2>1
  <2>5. p1 <= q1 /\ p2 <= q2 /\ p3 <= q3
    BY <2>1, <2>3, <2>4
  <2>6. p1 * 10000 + p2 * 100 + p3 <= q1 * 10000 + q2 * 100 + q3
    BY <2>5
  <2> QED
    BY <2>2, <2>3, <2>4, <2>6
<1> QED
  BY <1>4, <1>5

\* Without a version none of them fires.
LEMMA RulesNeedAVersion ==
  ~Fires(rules[1], <<>>) /\ ~Fires(rules[3], <<>>) /\ ~Fires(rules[4], <<>>) /\ ~Fires(rules[5], <<>>)
<1>1. /\ rules[1].max = <<9, 7, 1>> /\ rules[3].max = <<2, 4, 50>>
      /\ rules[4].max = <<2, 4, 51>> /\ rules[5].max = <<1, 20, 0>>
  BY DEF rules, Rule
<1>2. \A a, b, c : <<a, b, c>> # <<>>
  OBVIOUS
<1> QED
  BY <1>1, <1>2 DEF Fires

\* Only SSH and HTTP banners have a version.
LEMMA VersionOf ==
  ASSUME NEW b, b.proto \notin {"SSH", "HTTP"}
  PROVE  parseServiceBanner(b).version = <<>>
<1>1. \E name : parseServiceBanner(b) = Service(name, <<>>)
  <2>1. parseFTPSMTPBanner(b) \in {Service("smtp", <<>>), Service("ftp", <<>>), Service("", <<>>)}
    BY Zenon DEF parseFTPSMTPBanner
  <2>2. parsePOP3Banner(b) = Service("pop3", <<>>) /\ parseIMAPBanner(b) = Service("imap", <<>>)
    BY DEF parsePOP3Banner, parseIMAPBanner
  <2>3. parseServiceBanner(b) \in
          {parseFTPSMTPBanner(b), parsePOP3Banner(b), parseIMAPBanner(b), Service("", <<>>)}
    <3> HIDE DEF parseFTPSMTPBanner, parsePOP3Banner, parseIMAPBanner, Service
    <3> QED
      BY DEF parseServiceBanner
  <2> QED
    BY <2>1, <2>2, <2>3
<1>2. \A name : Service(name, <<>>).version = <<>>
  BY DEF Service
<1> QED
  BY <1>1, <1>2

\* From the wire to the report, whatever servers there are and wherever a read
\* ends: with the whole banner, what description and comment of a rule both say
\* of the version is reported and what neither says is not; a version cut short
\* hides no vulnerability without a first affected version; no version, no
\* vulnerability (vulndb.go:107-163, 235-267).
THEOREM VulnerabilitiesAsDescribed == Spec => []CVEsAsDescribed
<1>1. IdentifiedInv => CVEsAsDescribed
  <2> SUFFICES ASSUME IdentifiedInv, probe.step # "none"
               PROVE  LET banner == probe.server[1].banner
                          v == banner.version
                          found == ToSet(probe.cves) \cap Described
                          Sure(cve) == Affects(cve, banner.soft[1], v)
                      IN  /\ probe.version = <<>> => found = {}
                          /\ probe.version # <<>> /\ Plain(v) =>
                               /\ {c \in SinceEver : Sure(c)} \subseteq found
                               /\ probe.read = <<banner>> =>
                                    /\ {c \in Described : Sure(c)} \subseteq found
                                    /\ found \subseteq
                                         {c \in Described : Sure(c) \/ Disputed(c, banner.soft[1], v)}
    BY DEF CVEsAsDescribed
  <2>1. PICK server \in Servers : \E b \in Prefixed(server.banner) : Identified(probe, server, b)
    BY DEF IdentifiedInv
  <2>2. PICK b \in Prefixed(server.banner) : Identified(probe, server, b)
    BY <2>1
  <2> DEFINE banner == server.banner
             soft == banner.soft[1]
             v == banner.version
             name == parseServiceBanner(b).name
             version == parseServiceBanner(b).version
             found == ToSet(probe.cves) \cap Described
  <2>3. /\ probe.server[1] = server /\ probe.read = <<b>>
        /\ probe.name = name /\ probe.version = version
        /\ probe.cves = Check(name, version)
    BY <2>2 DEF Identified
  <2>4. version = <<>> => found = {}
    BY <2>3, DescribedRules, RulesNeedAVersion
  <2>5. ASSUME version # <<>>
        PROVE  /\ banner.soft = <<name>> /\ name = soft /\ version \in Beginnings(v, CutNumber)
               /\ b = banner => version = v
    <3>1. b # Nothing
      BY <2>5, NothingNamed
    <3>2. b.proto \in {"SSH", "HTTP"}
      BY <2>5, VersionOf
    <3>3. banner.proto \in {"SSH", "HTTP"}
      BY <3>1, <3>2, PrefixFields
    <3>4. /\ b = banner /\ banner.soft \notin {<<>>, <<"">>} => version = v
          /\ banner.soft = <<name>> /\ version \in Beginnings(v, CutNumber)
      BY <2>5, <3>3, NamedByPrefix
    <3>5. v \in Seq(Int) /\ (v # <<>> => banner.soft \notin {<<>>, <<"">>})
      BY ServersAssumption
    <3>6. b = banner => version = v
      <4>1. version \in Seq(Int) /\ Len(version) \in 0..Len(v)
        <5> HIDE DEF version, v
        <5> QED
          BY <3>4, <3>5, VersionBeginnings
      <4>2. v = <<>> => Len(v) = 0
        OBVIOUS
      <4>3. v # <<>>
        <5> HIDE DEF version, v
        <5> QED
          BY <2>5, <4>1, <4>2, EmptySeq
      <4> QED
        BY <3>4, <3>5, <4>3
    <3>7. name = soft
      <4>1. PICK n : n = name
        OBVIOUS
      <4>2. server.banner.soft = <<n>>
        BY <3>4, <4>1, Zenon
      <4>3. server.banner.soft[1] = n
        BY <4>2
      <4> QED
        BY <4>1, <4>3, Zenon
    <3> QED
      BY <3>4, <3>6, <3>7
  <2>6. ASSUME version # <<>>, Plain(v)
        PROVE  /\ Plain(version) /\ Weight(version) <= Weight(v)
               /\ \A c \in Described : c \in found <=> Affects(c, soft, version) \/ Disputed(c, soft, version)
    <3>1. Plain(version) /\ Weight(version) <= Weight(v)
      <4> HIDE DEF version, v
      <4> QED
        BY <2>5, <2>6, CutIsOlder
    <3>2. probe.cves = Check(soft, version)
      <4> HIDE DEF version, name, soft
      <4> QED
        BY <2>3, <2>5, <2>6
    <3> HIDE DEF version, soft
    <3> QED
      BY <2>6, <3>1, <3>2, FoundAsDescribed
  <2> HIDE DEF banner, soft, v, name, version
  <2>7. ASSUME version # <<>>, Plain(v), NEW c \in SinceEver, Affects(c, soft, v)
        PROVE  c \in found
    <3>1. PICK w \in Int, x \in Int : w = Weight(v) /\ x = Weight(version)
      BY <2>6, <2>7, WeightType
    <3>2. x <= w
      BY <2>6, <2>7, <3>1
    <3>3. c \in Described
      BY DEF SinceEver, Described
    <3>4. Affects(c, soft, version) \/ Disputed(c, soft, version)
      <4>1. CASE c = "CVE-2021-44790"
        <5>1. soft = "apache" /\ w \in 20400..20451
          BY <2>7, <3>1, <4>1 DEF Affects
        <5>2. x \in 20400..20451 \/ x < 20400
          BY <3>2, <5>1
        <5> QED
          BY <3>1, <4>1, <5>1, <5>2 DEF Affects, Disputed
      <4>2. CASE c = "CVE-2021-23017"
        <5>1. soft = "nginx" /\ w < 12001
          BY <2>7, <3>1, <4>2 DEF Affects
        <5>2. x < 12001
          BY <3>2, <5>1
        <5> QED
          BY <3>1, <4>2, <5>1, <5>2 DEF Affects
      <4> QED
        BY <4>1, <4>2 DEF SinceEver
    <3> QED
      BY <2>6, <2>7, <3>3, <3>4
  <2>8. ASSUME version # <<>>, Plain(v), b = banner, NEW c \in Described
        PROVE  c \in found <=> Affects(c, soft, v) \/ Disputed(c, soft, v)
    BY <2>5, <2>6, <2>8
  <2>9. probe.server[1].banner = banner
    BY <2>3 DEF banner
  <2>10. probe.read = <<banner>> => b = banner
    BY <2>3
  <2>11. /\ probe.version = <<>> => found = {}
         /\ probe.version # <<>> /\ Plain(v) =>
              /\ {c \in SinceEver : Affects(c, soft, v)} \subseteq found
              /\ probe.read = <<banner>> =>
                   /\ {c \in Described : Affects(c, soft, v)} \subseteq found
                   /\ found \subseteq {c \in Described : Affects(c, soft, v) \/ Disputed(c, soft, v)}
    <3>1. probe.version = version /\ found \subseteq Described
      BY <2>3
    <3> HIDE DEF found
    <3> QED
      BY <2>4, <2>7, <2>8, <2>10, <3>1
  <2> QED
    BY <2>9, <2>11, Zenon DEF banner, soft, v, found
<1> QED
  BY <1>1, IdentifiedInvariant, PTL

----------------------------------------------------------------------------
(* The services read off TXT and MX records.                               *)

\* The label before the last: it tells one provider's hosts from another's.
Second(pattern) == Reverse(pattern)[2]

LEMMA PatternShapes ==
  /\ \A a, b : Len(Reverse(<<a, b>>)) = 2 /\ Second(<<a, b>>) = a
  /\ \A a, b, c : Len(Reverse(<<a, b, c>>)) = 3 /\ Second(<<a, b, c>>) = b
  /\ \A a, b, c, d : Len(Reverse(<<a, b, c, d>>)) = 4 /\ Second(<<a, b, c, d>>) = c
<1>1. ASSUME NEW a, NEW b PROVE Len(Reverse(<<a, b>>)) = 2 /\ Second(<<a, b>>) = a
  <2>1. <<a, b>> \in Seq({a, b}) /\ Len(<<a, b>>) = 2
    OBVIOUS
  <2>2. Reverse(<<a, b>>) = [i \in 1..2 |-> <<a, b>>[(2 - i) + 1]]
    BY <2>1 DEF Reverse
  <2>3. 2 \in 1..2 /\ (2 - 2) + 1 = 1 /\ <<a, b>>[1] = a
    OBVIOUS
  <2>4. Reverse(<<a, b>>)[2] = a
    BY <2>2, <2>3
  <2>5. Reverse(<<a, b>>) \in [1..2 -> {a, b}]
    BY <2>2
  <2>6. Len(Reverse(<<a, b>>)) = 2
    BY <2>5, SeqFromFunction
  <2> QED
    BY <2>4, <2>6 DEF Second
<1>2. ASSUME NEW a, NEW b, NEW c PROVE Len(Reverse(<<a, b, c>>)) = 3 /\ Second(<<a, b, c>>) = b
  <2>1. <<a, b, c>> \in Seq({a, b, c}) /\ Len(<<a, b, c>>) = 3
    OBVIOUS
  <2>2. Reverse(<<a, b, c>>) = [i \in 1..3 |-> <<a, b, c>>[(3 - i) + 1]]
    BY <2>1 DEF Reverse
  <2>3. 2 \in 1..3 /\ (3 - 2) + 1 = 2 /\ <<a, b, c>>[2] = b
    OBVIOUS
  <2>4. Reverse(<<a, b, c>>)[2] = b
    BY <2>2, <2>3
  <2>5. Reverse(<<a, b, c>>) \in [1..3 -> {a, b, c}]
    BY <2>2
  <2>6. Len(Reverse(<<a, b, c>>)) = 3
    BY <2>5, SeqFromFunction
  <2> QED
    BY <2>4, <2>6 DEF Second
<1>3. ASSUME NEW a, NEW b, NEW c, NEW d PROVE Len(Reverse(<<a, b, c, d>>)) = 4 /\ Second(<<a, b, c, d>>) = c
  <2>1. <<a, b, c, d>> \in Seq({a, b, c, d}) /\ Len(<<a, b, c, d>>) = 4
    OBVIOUS
  <2>2. Reverse(<<a, b, c, d>>) = [i \in 1..4 |-> <<a, b, c, d>>[(4 - i) + 1]]
    BY <2>1 DEF Reverse
  <2>3. 2 \in 1..4 /\ (4 - 2) + 1 = 3 /\ <<a, b, c, d>>[3] = c
    OBVIOUS
  <2>4. Reverse(<<a, b, c, d>>)[2] = c
    BY <2>2, <2>3
  <2>5. Reverse(<<a, b, c, d>>) \in [1..4 -> {a, b, c, d}]
    BY <2>2
  <2>6. Len(Reverse(<<a, b, c, d>>)) = 4
    BY <2>5, SeqFromFunction
  <2> QED
    BY <2>4, <2>6 DEF Second
<1> QED
  BY <1>1, <1>2, <1>3

\* Two patterns that one host matches agree in that label.
LEMMA MatchedAlike ==
  ASSUME NEW host, NEW p, Len(Reverse(p)) \in {2, 3, 4}, InScope(host, p)
  PROVE  Second(p) = Second(host)
<1> DEFINE n == Len(Reverse(p))
<1>1. SubSeq(Reverse(p), 1, n) = SubSeq(Reverse(host), 1, n)
  BY DEF InScope, IsSuffix, IsPrefix
<1>2. \A s : SubSeq(s, 1, n)[2] = s[2]
  <2>1. n \in Int /\ 2 \in 1..n-1+1 /\ 1 + 2 - 1 = 2
    OBVIOUS
  <2> HIDE DEF n
  <2> TAKE s
  <2>2. \A i \in 1..n : s[i] \in {s[j] : j \in 1..n}
    OBVIOUS
  <2>3. \A i \in 1..n-1+1 : SubSeq(s, 1, n)[i] = s[1+i-1]
    BY <2>1, <2>2, SubSeqProperties
  <2> QED
    BY <2>1, <2>3
<1> HIDE DEF n
<1> QED
  <2>1. SubSeq(Reverse(p), 1, n)[2] = Reverse(p)[2]
    BY <1>2
  <2>2. SubSeq(Reverse(host), 1, n)[2] = Reverse(host)[2]
    BY <1>2
  <2> QED
    BY <1>1, <2>1, <2>2, Zenon DEF Second

\* What a row's pattern tells by, and what it names.
Tells(row, label, service) ==
  Len(Reverse(row.pattern)) \in {2, 3, 4} /\ Second(row.pattern) = label /\ row.service = service

LEMMA RowShapes ==
  /\ \A a, b, s : Tells(Row(<<a, b>>, s), a, s)
  /\ \A a, b, c, s : Tells(Row(<<a, b, c>>, s), b, s)
  /\ \A a, b, c, d, s : Tells(Row(<<a, b, c, d>>, s), c, s)
  BY PatternShapes DEF Row, Tells

\* In either table one provider has one name.
OneName(table) ==
  /\ \A x \in table : Len(Reverse(x.pattern)) \in {2, 3, 4}
  /\ \A x, y \in table : Second(x.pattern) = Second(y.pattern) => x.service = y.service

LEMMA TablesNameOnce == OneName(spfIncludes) /\ OneName(mxHosts)
<1>1. OneName(spfIncludes)
  <2>1. /\ Tells(Row(<<"mailgun", "org">>, "Mailgun"), "mailgun", "Mailgun")
        /\ Tells(Row(<<"_spf", "google", "com">>, "Google Workspace"), "google", "Google Workspace")
        /\ Tells(Row(<<"google", "com">>, "Google Workspace"), "google", "Google Workspace")
        /\ Tells(Row(<<"spf", "protection", "outlook", "com">>, "Microsoft 365"), "outlook", "Microsoft 365")
        /\ Tells(Row(<<"outlook", "com">>, "Microsoft 365"), "outlook", "Microsoft 365")
        /\ Tells(Row(<<"sendgrid", "net">>, "SendGrid"), "sendgrid", "SendGrid")
        /\ Tells(Row(<<"amazonses", "com">>, "Amazon SES"), "amazonses", "Amazon SES")
        /\ Tells(Row(<<"mandrillapp", "com">>, "Mandrill (Mailchimp)"), "mandrillapp", "Mandrill (Mailchimp)")
        /\ Tells(Row(<<"zendesk", "com">>, "Zendesk"), "zendesk", "Zendesk")
        /\ Tells(Row(<<"salesforce", "com">>, "Salesforce"), "salesforce", "Salesforce")
        /\ Tells(Row(<<"_spf", "salesforce", "com">>, "Salesforce"), "salesforce", "Salesforce")
        /\ Tells(Row(<<"mailchimp", "com">>, "Mailchimp"), "mailchimp", "Mailchimp")
        /\ Tells(Row(<<"postmarkapp", "com">>, "Postmark"), "postmarkapp", "Postmark")
        /\ Tells(Row(<<"sparkpostmail", "com">>, "SparkPost"), "sparkpostmail", "SparkPost")
    BY RowShapes, Zenon
  <2>2. \A x \in spfIncludes :
          \/ Tells(x, "mailgun", "Mailgun")
          \/ Tells(x, "google", "Google Workspace")
          \/ Tells(x, "outlook", "Microsoft 365")
          \/ Tells(x, "sendgrid", "SendGrid")
          \/ Tells(x, "amazonses", "Amazon SES")
          \/ Tells(x, "mandrillapp", "Mandrill (Mailchimp)")
          \/ Tells(x, "zendesk", "Zendesk")
          \/ Tells(x, "salesforce", "Salesforce")
          \/ Tells(x, "mailchimp", "Mailchimp")
          \/ Tells(x, "postmarkapp", "Postmark")
          \/ Tells(x, "sparkpostmail", "SparkPost")
    BY <2>1 DEF spfIncludes
  <2>3. \A x \in spfIncludes : Len(Reverse(x.pattern)) \in {2, 3, 4}
    BY <2>2, Zenon DEF Tells
  <2>4. \A x, y \in spfIncludes : Second(x.pattern) = Second(y.pattern) => x.service = y.service
    BY <2>2 DEF Tells
  <2> QED
    BY <2>3, <2>4 DEF OneName
<1>2. OneName(mxHosts)
  <2>1. /\ Tells(Row(<<"google", "com">>, "Google Workspace"), "google", "Google Workspace")
        /\ Tells(Row(<<"googlemail", "com">>, "Google Workspace"), "googlemail", "Google Workspace")
        /\ Tells(Row(<<"outlook", "com">>, "Microsoft 365"), "outlook", "Microsoft 365")
        /\ Tells(Row(<<"protection", "outlook", "com">>, "Microsoft 365"), "outlook", "Microsoft 365")
        /\ Tells(Row(<<"mailgun", "org">>, "Mailgun"), "mailgun", "Mailgun")
        /\ Tells(Row(<<"amazonses", "com">>, "Amazon SES"), "amazonses", "Amazon SES")
        /\ Tells(Row(<<"zoho", "com">>, "Zoho Mail"), "zoho", "Zoho Mail")
        /\ Tells(Row(<<"zohomail", "com">>, "Zoho Mail"), "zohomail", "Zoho Mail")
        /\ Tells(Row(<<"protonmail", "ch">>, "ProtonMail"), "protonmail", "ProtonMail")
        /\ Tells(Row(<<"sendgrid", "net">>, "SendGrid"), "sendgrid", "SendGrid")
        /\ Tells(Row(<<"messagingengine", "com">>, "FastMail"), "messagingengine", "FastMail")
        /\ Tells(Row(<<"mxrecord", "io">>, "Mailchimp"), "mxrecord", "Mailchimp")
    BY RowShapes, Zenon
  <2>2. \A x \in mxHosts :
          \/ Tells(x, "google", "Google Workspace")
          \/ Tells(x, "googlemail", "Google Workspace")
          \/ Tells(x, "outlook", "Microsoft 365")
          \/ Tells(x, "mailgun", "Mailgun")
          \/ Tells(x, "amazonses", "Amazon SES")
          \/ Tells(x, "zoho", "Zoho Mail")
          \/ Tells(x, "zohomail", "Zoho Mail")
          \/ Tells(x, "protonmail", "ProtonMail")
          \/ Tells(x, "sendgrid", "SendGrid")
          \/ Tells(x, "messagingengine", "FastMail")
          \/ Tells(x, "mxrecord", "Mailchimp")
    BY <2>1 DEF mxHosts
  <2>3. \A x \in mxHosts : Len(Reverse(x.pattern)) \in {2, 3, 4}
    BY <2>2, Zenon DEF Tells
  <2>4. \A x, y \in mxHosts : Second(x.pattern) = Second(y.pattern) => x.service = y.service
    BY <2>2 DEF Tells
  <2> QED
    BY <2>3, <2>4 DEF OneName
<1> QED
  BY <1>1, <1>2

\* So the order in which the rows are met does not show.
LEMMA ReportsOnce ==
  ASSUME NEW table, OneName(table), NEW record, NEW hosts,
         NEW x \in Reports(table, record, hosts), NEW y \in Reports(table, record, hosts)
  PROVE  x = y
<1> DEFINE Orders(k) == SetToSeqs(Matching(table, hosts[k].name))
           Indicators(v, k) == [r \in DOMAIN v[k] |->
                                  [service |-> v[k][r].service, record |-> record,
                                   evidence |-> hosts[k].evidence]]
           Visit(v) == \A k \in DOMAIN hosts : v[k] \in Orders(k)
           Of(v) == [k \in DOMAIN hosts |-> Indicators(v, k)]
           List(v) == UniqueBy(FlattenSeq(Of(v)), LAMBDA i : i.service)
<1>1. PICK v : Visit(v) /\ x = List(v)
  BY DEF Reports
<1>2. PICK w : Visit(w) /\ y = List(w)
  BY DEF Reports
<1>3. ASSUME NEW k \in DOMAIN hosts PROVE Indicators(v, k) = Indicators(w, k)
  <2> DEFINE M == Matching(table, hosts[k].name)
             c == 1..Cardinality(M)
  <2>1. v[k] \in [c -> M] /\ w[k] \in [c -> M]
    BY <1>1, <1>2, <1>3 DEF SetToSeqs
  <2>2. \A a, b \in M : a.service = b.service
    <3>1. \A a \in M : a \in table /\ Second(a.pattern) = Second(hosts[k].name)
      BY MatchedAlike DEF Matching, OneName
    <3> HIDE DEF M
    <3> QED
      BY <3>1 DEF OneName
  <2> HIDE DEF M, c
  <2>3. \A r \in c : v[k][r].service = w[k][r].service
    BY <2>1, <2>2
  <2>4. DOMAIN v[k] = c /\ DOMAIN w[k] = c
    BY <2>1
  <2> QED
    BY <2>3, <2>4
<1>4. Of(v) = Of(w)
  <2> HIDE DEF Indicators
  <2> QED
    BY <1>3
<1> HIDE DEF Of
<1> QED
  BY <1>1, <1>2, <1>4

LEMMA ScanOnce ==
  ASSUME NEW txt, NEW mx, NEW x \in Scan(txt, mx), NEW y \in Scan(txt, mx)
  PROVE  x = y
<1> DEFINE A == IF txt = <<>> THEN {<<>>} ELSE parseSPF(txt[1])
           B == IF mx  = <<>> THEN {<<>>} ELSE parseMX(mx[1])
<1>1. \A a, b \in A : a = b
  <2>1. \A a, b \in parseSPF(txt[1]) : a = b
    BY ReportsOnce, TablesNameOnce DEF parseSPF
  <2> QED
    BY <2>1
<1>2. \A a, b \in B : a = b
  <2>1. \A a, b \in parseMX(mx[1]) : a = b
    BY ReportsOnce, TablesNameOnce DEF parseMX
  <2> QED
    BY <2>1
<1> DEFINE Both(a, b) == a \o b
<1>3. Scan(txt, mx) = {Both(a, b) : a \in A, b \in B}
  BY DEF Scan
<1> HIDE DEF A, B, Both
<1>4. PICK a1 \in A, b1 \in B : x = Both(a1, b1)
  BY <1>3
<1>5. PICK a2 \in A, b2 \in B : y = Both(a2, b2)
  BY <1>3
<1>6. a1 = a2 /\ b1 = b2
  BY <1>1, <1>2
<1> QED
  BY <1>4, <1>5, <1>6

IntelInv == intel # NoIntel => intel.list \in Scan(intel.txt[1], intel.mx[1])

LEMMA IntelStep == IntelInv /\ [Next]_vars => IntelInv'
<1> SUFFICES ASSUME IntelInv, [Next]_vars PROVE IntelInv'
  OBVIOUS
<1>1. CASE Phase1d
  <2>1. PICK txt, mx, list : list \in Scan(txt, mx) /\ intel' = [txt |-> <<txt>>, mx |-> <<mx>>, list |-> list]
    BY <1>1 DEF Phase1d
  <2>2. intel'.list = list /\ intel'.txt[1] = txt /\ intel'.mx[1] = mx
    BY <2>1
  <2> QED
    BY <2>1, <2>2 DEF IntelInv
<1>2. CASE ~Phase1d
  <2>1. intel' = intel \/ intel' = NoIntel
    BY <1>2 DEF Next, Execute, RunCLI, HandleScan, Configure, Launch, Phase1a, CollectNames, Phase1bc,
      CollectAssets, EndPhase1, GrabBanner, FetchPage, NextPort, EndPhase2, Phase3, CollectBuckets,
      CancelScan, SourceAnswers, Others, Inspecting, vars, reconVars
  <2>2. NoIntel' = NoIntel
    BY DEF NoIntel
  <2> QED
    BY <2>1, <2>2 DEF IntelInv
<1> QED
  BY <1>1, <1>2

\* The indicators are a function of the records, whatever records there are:
\* no order of iteration over the two maps shows in them
\* (dns_intel.go:157, 192).
THEOREM IntelDetermined == Spec => []IndicatorsDetermined
<1>1. ReconInit => IntelInv
  BY DEF ReconInit, IntelInv
<1>2. IntelInv => IndicatorsDetermined
  BY ScanOnce DEF IntelInv, IndicatorsDetermined
<1> QED
  BY <1>1, <1>2, IntelStep, PTL DEF Spec

----------------------------------------------------------------------------
(* The technologies of a page.                                             *)

\* The names in a list of technologies.
TechNames(s) == {x.name : x \in ToSet(s)}

\* A list is a list of its items.
LEMMA OwnItems ==
  ASSUME NEW n \in Nat, NEW s, s = [i \in 1..n |-> s[i]]
  PROVE  s \in Seq(ToSet(s)) /\ DOMAIN s = 1..n
<1>1. DOMAIN s = 1..n
  OBVIOUS
<1>2. \A i \in 1..n : s[i] \in ToSet(s)
  BY <1>1 DEF ToSet
<1>3. s \in [1..n -> ToSet(s)]
  BY <1>2
<1> QED
  BY <1>1, <1>3, SeqFromFunction

LEMMA SignatureTables ==
  /\ headerRules \in Seq(ToSet(headerRules))
  /\ cookieRules \in Seq(ToSet(cookieRules))
  /\ bodyRules \in Seq(ToSet(bodyRules))
<1>1. headerRules = [i \in 1..10 |-> headerRules[i]]
  BY DEF headerRules
<1>2. cookieRules = [i \in 1..5 |-> cookieRules[i]]
  BY DEF cookieRules
<1>3. bodyRules = [i \in 1..12 |-> bodyRules[i]]
  BY DEF bodyRules
<1> QED
  BY <1>1, <1>2, <1>3, OwnItems

\* Technologies made of the hits of a table.
LEMMA TechsOf ==
  ASSUME NEW T, NEW kept \in Seq(T), NEW Name, NEW techs,
         techs = [k \in DOMAIN kept |-> techs[k]], \A k \in DOMAIN kept : techs[k].name = Name[kept[k]]
  PROVE  techs \in Seq(ToSet(techs)) /\ TechNames(techs) = {Name[x] : x \in ToSet(kept)}
<1>1. DOMAIN kept = 1..Len(kept) /\ Len(kept) \in Nat
  OBVIOUS
<1>2. techs \in Seq(ToSet(techs)) /\ DOMAIN techs = 1..Len(kept)
  <2>1. techs = [k \in 1..Len(kept) |-> techs[k]]
    BY <1>1
  <2> QED
    BY <1>1, <2>1, OwnItems
<1>4. TechNames(techs) = {techs[k].name : k \in DOMAIN kept}
  BY <1>1, <1>2 DEF TechNames, ToSet
<1>5. {Name[x] : x \in ToSet(kept)} = {Name[kept[k]] : k \in DOMAIN kept}
  BY DEF ToSet
<1>6. {techs[k].name : k \in DOMAIN kept} = {Name[kept[k]] : k \in DOMAIN kept}
  OBVIOUS
<1> QED
  BY <1>2, <1>4, <1>5, <1>6

Signs(table, text) == {sign.name : sign \in {x \in ToSet(table) : Has(text, x.pattern)}}

LEMMA HitNames ==
  ASSUME NEW T, NEW table \in Seq(T), NEW text
  PROVE  Hits(table, text) \in Seq(ToSet(Hits(table, text))) /\ TechNames(Hits(table, text)) = Signs(table, text)
<1> DEFINE S == {i \in DOMAIN table : Has(text, table[i].pattern)}
           found == ItemsAt(table, S)
           Name == [x \in ToSet(table) |-> x.name]
           techs == Hits(table, text)
<1>1. found \in Seq(T) /\ ToSet(found) = {table[i] : i \in S}
  BY ItemsAtDomain
<1>2. techs = [k \in DOMAIN found |-> Tech(found[k].name, found[k].category)]
  BY DEF Hits, Select
<1>3. {table[i] : i \in S} = {x \in ToSet(table) : Has(text, x.pattern)}
  BY DEF ToSet
<1> HIDE DEF S, found, techs
<1>4. \A k \in DOMAIN found : found[k] \in ToSet(table)
  <2>1. \A k \in DOMAIN found : found[k] \in ToSet(found)
    BY DEF ToSet
  <2> QED
    BY <1>1, <1>3, <2>1
<1>5. techs = [k \in DOMAIN found |-> techs[k]] /\ \A k \in DOMAIN found : techs[k].name = Name[found[k]]
  BY <1>2, <1>4 DEF Tech
<1>6. techs \in Seq(ToSet(techs)) /\ TechNames(techs) = {Name[x] : x \in ToSet(found)}
  <2> HIDE DEF Name
  <2>1. found \in Seq(T)
    BY <1>1
  <2>2. techs = [k \in DOMAIN found |-> techs[k]]
    BY <1>5
  <2>3. \A k \in DOMAIN found : techs[k].name = Name[found[k]]
    BY <1>5
  <2>4. techs \in Seq(ToSet(techs))
    <3>1. Len(found) \in Nat /\ techs = [k \in 1..Len(found) |-> techs[k]]
      BY <2>1, <2>2
    <3> QED
      BY <3>1, OwnItems
  <2>5. TechNames(techs) = {Name[x] : x \in ToSet(found)}
    BY <2>1, <2>2, <2>3, TechsOf
  <2> QED
    BY <2>4, <2>5
<1>7. {Name[x] : x \in ToSet(found)} = Signs(table, text)
  BY <1>1, <1>3 DEF Signs
<1> QED
  BY <1>6, <1>7 DEF techs

\* The rules that a response's headers meet, and what they name.
Shown(headers) ==
  {rule \in ToSet(headerRules) :
     /\ Values(headers, rule.header) # <<>>
     /\ rule.value = "" \/ Has(Values(headers, rule.header)[1], rule.value)}
Shows(headers) ==
  {IF rule.name = "" THEN Values(headers, rule.header)[1] ELSE rule.name : rule \in Shown(headers)}

LEMMA HeaderNames ==
  ASSUME NEW headers
  PROVE  LET techs == detectHeaderTechs(headers)
         IN  techs \in Seq(ToSet(techs)) /\ TechNames(techs) = Shows(headers)
<1> DEFINE Meets(rule) ==
             /\ Values(headers, rule.header) # <<>>
             /\ rule.value = "" \/ Has(Values(headers, rule.header)[1], rule.value)
           Title(rule) == IF rule.name = "" THEN Values(headers, rule.header)[1] ELSE rule.name
           S == {i \in DOMAIN headerRules : Meets(headerRules[i])}
           kept == ItemsAt(headerRules, S)
           Name == [x \in ToSet(headerRules) |-> Title(x)]
           techs == detectHeaderTechs(headers)
<1>1. kept \in Seq(ToSet(headerRules)) /\ ToSet(kept) = {headerRules[i] : i \in S}
  BY SignatureTables, ItemsAtDomain
<1>2. techs = [k \in DOMAIN kept |-> Tech(Title(kept[k]), kept[k].category)]
  BY DEF detectHeaderTechs, Select
<1>3. {headerRules[i] : i \in S} = Shown(headers)
  BY DEF ToSet, Shown
<1> HIDE DEF Title, S, kept, techs
<1>4. \A k \in DOMAIN kept : kept[k] \in ToSet(headerRules)
  BY <1>1
<1>5. techs = [k \in DOMAIN kept |-> techs[k]] /\ \A k \in DOMAIN kept : techs[k].name = Name[kept[k]]
  BY <1>2, <1>4 DEF Tech
<1>6. techs \in Seq(ToSet(techs)) /\ TechNames(techs) = {Name[x] : x \in ToSet(kept)}
  <2> HIDE DEF Name
  <2> QED
    BY <1>1, <1>5, TechsOf
<1>7. {Name[x] : x \in ToSet(kept)} = {Title(x) : x \in ToSet(kept)}
  <2>1. \A x \in ToSet(kept) : x \in ToSet(headerRules)
    BY <1>1, <1>3 DEF Shown
  <2> QED
    BY <2>1
<1>8. {Title(x) : x \in Shown(headers)} = Shows(headers)
  BY DEF Title, Shows
<1> QED
  BY <1>1, <1>3, <1>6, <1>7, <1>8 DEF techs

\* The values of a header are a list.
Headers(headers) == \A h \in DOMAIN headers : headers[h] \in Seq(STRING)

LEMMA CookieNames ==
  ASSUME NEW headers, Headers(headers)
  PROVE  LET techs == detectCookieTechs(headers)
         IN  /\ techs \in Seq(ToSet(techs))
             /\ TechNames(techs) = UNION {Signs(cookieRules, c) : c \in ToSet(Values(headers, "Set-Cookie"))}
<1> DEFINE cookies == Values(headers, "Set-Cookie")
           lists == [k \in DOMAIN cookies |-> Hits(cookieRules, cookies[k])]
           techs == FlattenSeq(lists)
           T == UNION {ToSet(lists[k]) : k \in DOMAIN cookies}
<1>1. cookies \in Seq(STRING)
  BY EmptySeq DEF Headers, Values
<1>2. \A k \in DOMAIN cookies : /\ lists[k] \in Seq(ToSet(lists[k]))
                                /\ TechNames(lists[k]) = Signs(cookieRules, cookies[k])
  BY SignatureTables, HitNames
<1>3. detectCookieTechs(headers) = techs
  BY DEF detectCookieTechs
<1>4. DOMAIN cookies = 1..Len(cookies) /\ Len(cookies) \in Nat /\ DOMAIN lists = DOMAIN cookies
  BY <1>1
<1> HIDE DEF cookies
<1>5. lists = [k \in 1..Len(cookies) |-> lists[k]]
  BY <1>4
<1> HIDE DEF lists
<1>6. lists \in Seq(Seq(T))
  <2>1. \A k \in DOMAIN cookies : ToSet(lists[k]) \subseteq T
    OBVIOUS
  <2>2. \A k \in DOMAIN cookies : lists[k] \in Seq(T)
    <3> HIDE DEF T
    <3> QED
      BY <1>2, <2>1, SeqMonotonic
  <2> HIDE DEF T
  <2>3. lists \in [1..Len(cookies) -> Seq(T)]
    BY <1>4, <1>5, <2>2
  <2> QED
    BY <1>4, <2>3, SeqFromFunction
<1>7. techs \in Seq(T) /\ ToSet(techs) = UNION {ToSet(lists[k]) : k \in DOMAIN lists}
  <2> HIDE DEF T
  <2> QED
    BY <1>6, FlattenItems
<1>8. ToSet(techs) = T
  BY <1>4, <1>7
<1>9. TechNames(techs) = UNION {TechNames(lists[k]) : k \in DOMAIN cookies}
  <2> HIDE DEF techs
  <2> QED
    BY <1>8 DEF TechNames
<1>10. UNION {Signs(cookieRules, c) : c \in ToSet(cookies)} = UNION {TechNames(lists[k]) : k \in DOMAIN cookies}
  BY <1>2 DEF ToSet
<1> HIDE DEF T, techs
<1> QED
  BY <1>3, <1>7, <1>8, <1>9, <1>10 DEF cookies

\* Of the evidence the first of each name is kept.
LEMMA FirstOfEachName ==
  ASSUME NEW T, NEW s \in Seq(T)
  PROVE  LET u == UniqueBy(s, LAMBDA x : x.name)
         IN  /\ u \in Seq(T) /\ TechNames(u) = TechNames(s)
             /\ IsInjective([k \in DOMAIN u |-> u[k].name])
<1> DEFINE S == {i \in DOMAIN s : \A j \in 1..i-1 : s[j].name # s[i].name}
           u == ItemsAt(s, S)
<1>1. UniqueBy(s, LAMBDA x : x.name) = u
  BY DEF UniqueBy
<1>2. \A i \in S : i \in DOMAIN s
  OBVIOUS
<1>3. \A i, j \in S : s[i].name = s[j].name => i = j
  <2> SUFFICES ASSUME NEW i \in S, NEW j \in S, s[i].name = s[j].name, i < j PROVE FALSE
    OBVIOUS
  <2>1. i \in 1..j-1
    OBVIOUS
  <2> QED
    BY <2>1
<1>4. ASSUME NEW i \in DOMAIN s PROVE \E m \in S : s[m].name = s[i].name
  <2> DEFINE M == {j \in DOMAIN s : s[j].name = s[i].name}
  <2>1. M \in SUBSET Nat /\ M # {}
    OBVIOUS
  <2>2. PICK m \in M : \A j \in M : m <= j
    <3> HIDE DEF M
    <3> QED
      BY <2>1, LeastNat
  <2>3. m \in DOMAIN s /\ s[m].name = s[i].name /\ m \in 1..Len(s)
    OBVIOUS
  <2>4. \A j \in 1..m-1 : s[j].name # s[m].name
    BY <2>2, <2>3
  <2> QED
    BY <2>3, <2>4
<1> HIDE DEF S
<1>5. u \in Seq(T) /\ ToSet(u) = {s[i] : i \in S} /\ IsInjective(u)
  BY <1>2, <1>3, ItemsAtDomain
<1> HIDE DEF u
<1>6. TechNames(u) = TechNames(s)
  <2>1. TechNames(u) = {s[i].name : i \in S}
    BY <1>5 DEF TechNames
  <2>2. TechNames(s) = {s[i].name : i \in DOMAIN s}
    BY DEF TechNames, ToSet
  <2> QED
    BY <1>2, <1>4, <2>1, <2>2
<1>7. ASSUME NEW k \in DOMAIN u, NEW l \in DOMAIN u, u[k].name = u[l].name
      PROVE  k = l
  <2>1. u[k] \in ToSet(u) /\ u[l] \in ToSet(u)
    BY DEF ToSet
  <2>2. PICK i \in S : u[k] = s[i]
    BY <1>5, <2>1
  <2>3. PICK j \in S : u[l] = s[j]
    BY <1>5, <2>1
  <2>4. i = j
    BY <1>3, <1>7, <2>2, <2>3
  <2> QED
    BY <1>5, <2>2, <2>3, <2>4 DEF IsInjective
<1>8. IsInjective([k \in DOMAIN u |-> u[k].name])
  BY <1>7 DEF IsInjective
<1> QED
  BY <1>1, <1>5, <1>6, <1>8

\* What detectTechnologies finds in a response's headers and its body.
LEMMA TechnologyNames ==
  ASSUME NEW headers, Headers(headers), NEW body
  PROVE  LET techs == detectTechnologies(headers, body)
         IN  /\ IsInjective([k \in DOMAIN techs |-> techs[k].name])
             /\ TechNames(techs) =
                  (Shows(headers)
                     \cup (UNION {Signs(cookieRules, c) : c \in ToSet(Values(headers, "Set-Cookie"))})
                     \cup Signs(bodyRules, body)) \ {""}
<1> DEFINE a == detectHeaderTechs(headers)
           b == detectCookieTechs(headers)
           c == detectBodyTechs(body)
           T == ToSet(a) \cup ToSet(b) \cup ToSet(c)
           evidence == a \o b \o c
           named == ItemsAt(evidence, {i \in DOMAIN evidence : evidence[i].name # ""})
           techs == UniqueBy(named, LAMBDA x : x.name)
           Baked == UNION {Signs(cookieRules, k) : k \in ToSet(Values(headers, "Set-Cookie"))}
<1>1. detectTechnologies(headers, body) = techs
  BY DEF detectTechnologies, Select
<1>2. a \in Seq(ToSet(a)) /\ TechNames(a) = Shows(headers)
  BY HeaderNames
<1>3. b \in Seq(ToSet(b)) /\ TechNames(b) = Baked
  BY CookieNames
<1>4. c \in Seq(ToSet(c)) /\ TechNames(c) = Signs(bodyRules, body)
  BY HitNames, SignatureTables DEF detectBodyTechs
<1> HIDE DEF a, b, c, Baked
<1>5. a \in Seq(T) /\ b \in Seq(T) /\ c \in Seq(T)
  <2>1. ToSet(a) \subseteq T /\ ToSet(b) \subseteq T /\ ToSet(c) \subseteq T
    OBVIOUS
  <2> HIDE DEF T
  <2> QED
    BY <1>2, <1>3, <1>4, <2>1, SeqMonotonic
<1>6. evidence \in Seq(T) /\ ToSet(evidence) = ToSet(a) \cup ToSet(b) \cup ToSet(c)
  <2> HIDE DEF T
  <2>1. a \o b \in Seq(T) /\ ToSet(a \o b) = ToSet(a) \cup ToSet(b)
    BY <1>5, ConcatItems, ConcatProperties
  <2> DEFINE ab == a \o b
  <2>2. ab \in Seq(T) /\ ToSet(ab) = ToSet(a) \cup ToSet(b)
    BY <2>1
  <2> HIDE DEF ab
  <2>3. ab \o c \in Seq(T) /\ ToSet(ab \o c) = ToSet(ab) \cup ToSet(c)
    BY <1>5, <2>2, ConcatItems, ConcatProperties
  <2> QED
    BY <2>2, <2>3 DEF ab
<1>7. TechNames(evidence) = TechNames(a) \cup TechNames(b) \cup TechNames(c)
  <2> HIDE DEF evidence
  <2> QED
    BY <1>6 DEF TechNames
<1> HIDE DEF T, evidence
<1>8. named \in Seq(T) /\ TechNames(named) = TechNames(evidence) \ {""}
  <2> DEFINE S == {i \in DOMAIN evidence : evidence[i].name # ""}
  <2>1. \A i \in S : i \in DOMAIN evidence
    OBVIOUS
  <2>2. TechNames(evidence) = {evidence[i].name : i \in DOMAIN evidence}
    BY DEF TechNames, ToSet
  <2>3. {evidence[i].name : i \in S} = TechNames(evidence) \ {""}
    BY <2>2
  <2> HIDE DEF S
  <2>4. ItemsAt(evidence, S) \in Seq(T) /\ ToSet(ItemsAt(evidence, S)) = {evidence[i] : i \in S}
    BY <1>6, <2>1, ItemsAtDomain
  <2>5. TechNames(ItemsAt(evidence, S)) = {evidence[i].name : i \in S}
    BY <2>4 DEF TechNames
  <2> QED
    BY <2>3, <2>4, <2>5 DEF S
<1> HIDE DEF named
<1>9. TechNames(techs) = TechNames(named) /\ IsInjective([k \in DOMAIN techs |-> techs[k].name])
  BY <1>8, FirstOfEachName
<1> HIDE DEF techs
<1>10. TechNames(techs) = (Shows(headers) \cup Baked \cup Signs(bodyRules, body)) \ {""}
  BY <1>2, <1>3, <1>4, <1>7, <1>8, <1>9, Zenon
<1> DEFINE found == detectTechnologies(headers, body)
<1>11. found = techs
  BY <1>1
<1> HIDE DEF found
<1>12. /\ TechNames(found) = (Shows(headers) \cup Baked \cup Signs(bodyRules, body)) \ {""}
       /\ IsInjective([k \in DOMAIN found |-> found[k].name])
  BY <1>9, <1>10, <1>11, Zenon
<1> QED
  BY <1>12, Zenon DEF Baked, found

\* Signed is what a whole response shows.
LEMMA SignedNames ==
  ASSUME NEW r
  PROVE  Signed(r) =
           (Shows(r.headers)
              \cup (UNION {Signs(cookieRules, c) : c \in ToSet(Values(r.headers, "Set-Cookie"))})
              \cup Signs(bodyRules, r.body)) \ {""}
<1> DEFINE Value(rule) == Values(r.headers, rule.header)[1]
           shown == {rule \in ToSet(headerRules) : Values(r.headers, rule.header) # <<>>}
           byRule == {rule.name : rule \in {x \in shown : x.value = "" \/ Has(Value(x), x.value)}}
           byValue == {Value(rule) : rule \in {x \in shown : x.name = ""}}
           Baked == UNION {Signs(cookieRules, c) : c \in ToSet(Values(r.headers, "Set-Cookie"))}
           page == Signs(bodyRules, r.body)
<1>1. Signed(r) = (byRule \cup byValue \cup Baked \cup page) \ {""}
  BY DEF Signed, Signs
<1>2. \A rule \in ToSet(headerRules) : rule.name = "" => rule.value = ""
  <2>1. ToSet(headerRules) = {headerRules[i] : i \in 1..10}
    BY DEF ToSet, headerRules
  <2>2. /\ headerRules[1].name = "PHP" /\ headerRules[2].name = "ASP.NET" /\ headerRules[3].name = "Express.js"
        /\ headerRules[4].name = "Next.js" /\ headerRules[5].value = "" /\ headerRules[6].value = ""
        /\ headerRules[7].value = "" /\ headerRules[8].value = "" /\ headerRules[9].value = ""
        /\ headerRules[10].value = ""
    BY DEF headerRules, HRule
  <2>3. \A i \in 1..10 : i \in {1, 2, 3, 4, 5, 6, 7, 8, 9, 10}
    OBVIOUS
  <2>4. \A i \in 1..10 : headerRules[i].name = "" => headerRules[i].value = ""
    BY <2>2, <2>3
  <2> QED
    BY <2>1, <2>4
<1>3. Shows(r.headers) \ {""} = (byRule \cup byValue) \ {""}
  <2>1. ASSUME NEW n \in Shows(r.headers), n # "" PROVE n \in byRule \cup byValue
    <3>1. PICK rule \in Shown(r.headers) : n = IF rule.name = "" THEN Value(rule) ELSE rule.name
      BY <2>1 DEF Shows
    <3> QED
      BY <3>1 DEF Shown
  <2>2. ASSUME NEW n \in byRule, n # "" PROVE n \in Shows(r.headers)
    BY <2>2 DEF Shows, Shown
  <2>3. ASSUME NEW n \in byValue PROVE n \in Shows(r.headers)
    BY <1>2, <2>3 DEF Shows, Shown
  <2> QED
    BY <2>1, <2>2, <2>3
<1> HIDE DEF byRule, byValue, Baked, page
<1>4. Signed(r) = (Shows(r.headers) \cup Baked \cup page) \ {""}
  BY <1>1, <1>3
<1> QED
  BY <1>4 DEF Baked, page

Response(whole, head, headers, body) ==
  [whole |-> whole, head |-> head, headers |-> headers, body |-> body]

\* What is found in what was read of it.
LEMMA FoundInWhole ==
  ASSUME NEW r, r.whole = TRUE, Headers(r.headers)
  PROVE  LET techs == FingerprintWeb(<<r>>)
         IN  IsInjective([k \in DOMAIN techs |-> techs[k].name]) /\ TechNames(techs) = Signed(r)
<1>1. FingerprintWeb(<<r>>) = detectTechnologies(r.headers, r.body)
  <2>1. <<r>> # <<>> /\ <<r>>[1] = r
    OBVIOUS
  <2>2. parseHTTPResponse(r).headers = r.headers /\ parseHTTPResponse(r).body = r.body
    BY DEF parseHTTPResponse
  <2> QED
    BY <2>1, <2>2 DEF FingerprintWeb
<1> QED
  BY <1>1, TechnologyNames, SignedNames

LEMMA FoundInPart ==
  ASSUME NEW r, r.whole = FALSE
  PROVE  LET techs == FingerprintWeb(<<r>>)
         IN  /\ IsInjective([k \in DOMAIN techs |-> techs[k].name])
             /\ TechNames(techs) \subseteq SignedAsPage(r.head)
<1>1. FingerprintWeb(<<r>>) = detectTechnologies(<<>>, r.head)
  <2>1. <<r>> # <<>> /\ <<r>>[1] = r
    OBVIOUS
  <2>2. parseHTTPResponse(r).headers = <<>> /\ parseHTTPResponse(r).body = r.head
    BY DEF parseHTTPResponse
  <2> QED
    BY <2>1, <2>2 DEF FingerprintWeb
<1>2. Headers(<<>>) /\ \A h : Values(<<>>, h) = <<>>
  BY DEF Headers, Values
<1>3. Shows(<<>>) = {}
  BY <1>2 DEF Shows, Shown
<1>4. UNION {Signs(cookieRules, c) : c \in ToSet(Values(<<>>, "Set-Cookie"))} = {}
  BY <1>2 DEF ToSet
<1>5. Signs(bodyRules, r.head) = SignedAsPage(r.head)
  BY DEF Signs, SignedAsPage
<1> DEFINE techs == detectTechnologies(<<>>, r.head)
<1>6. /\ IsInjective([k \in DOMAIN techs |-> techs[k].name])
      /\ TechNames(techs) =
           (Shows(<<>>) \cup (UNION {Signs(cookieRules, c) : c \in ToSet(Values(<<>>, "Set-Cookie"))})
              \cup Signs(bodyRules, r.head)) \ {""}
  BY <1>2, TechnologyNames, Zenon
<1> HIDE DEF techs
<1>7. TechNames(techs) \subseteq SignedAsPage(r.head)
  BY <1>3, <1>4, <1>5, <1>6
<1> QED
  BY <1>1, <1>6, <1>7, Zenon DEF techs

\* Where a reported port's technologies come from.
FetchedInv ==
  probe.step # "none" =>
    /\ \E r \in Responses : probe.response = <<r>>
    /\ probe.step = "reported" =>
         /\ probe.techs = FingerprintWeb(probe.fetched)
         /\ probe.fetched \in
              IF probe.name \in webServiceNames \/ CanFingerprint(probe.port)
              THEN FetchWeb(probe.server[1], probe.response[1], probe.port) ELSE {<<>>}

LEMMA FetchedStep == ProbeInv /\ FetchedInv /\ [Next]_vars => FetchedInv'
<1> SUFFICES ASSUME ProbeInv, FetchedInv, [Next]_vars PROVE FetchedInv'
  OBVIOUS
<1>1. CASE UNCHANGED probe
  BY <1>1 DEF FetchedInv
<1>2. CASE GrabBanner /\ probe' # probe
  <2>1. probe'.step = "grabbed" /\ \E r \in Responses : probe'.response = <<r>>
    BY <1>2, GrabbedProbe
  <2> QED
    BY <2>1 DEF FetchedInv
<1>3. CASE probe.step = "grabbed" /\ FetchPage
  <2>1. PICK fetched \in
            IF probe.name \in webServiceNames \/ CanFingerprint(probe.port)
            THEN FetchWeb(probe.server[1], probe.response[1], probe.port) ELSE {<<>>} :
           probe' = [step |-> "reported", port |-> probe.port, server |-> probe.server,
                     response |-> probe.response, read |-> probe.read, name |-> probe.name,
                     version |-> probe.version, cves |-> probe.cves,
                     fetched |-> fetched, techs |-> FingerprintWeb(fetched)]
    BY <1>3, FetchedProbe
  <2>2. /\ probe'.port = probe.port /\ probe'.server = probe.server /\ probe'.response = probe.response
        /\ probe'.name = probe.name /\ probe'.fetched = fetched /\ probe'.techs = FingerprintWeb(fetched)
    BY <2>1
  <2>3. \E r \in Responses : probe.response = <<r>>
    BY <1>3 DEF FetchedInv
  <2> QED
    BY <2>1, <2>2, <2>3 DEF FetchedInv
<1>4. CASE probe' = NoProbe
  BY <1>4, NoProbeShape DEF FetchedInv
<1> QED
  BY <1>1, <1>2, <1>3, <1>4, ProbeSteps

LEMMA FetchedInvariant == Spec => []FetchedInv
<1>1. ReconInit => FetchedInv
  BY NoProbeShape DEF ReconInit, FetchedInv
<1> QED
  BY <1>1, FetchedStep, ProbeInvariant, PTL DEF Spec

\* What is left of a text shows no more of a page than the text, and no text nothing.
LEMMA CutShowsLess ==
  /\ \A text : \A part \in Cut(text) : Signs(bodyRules, part) \subseteq Signs(bodyRules, text)
  /\ \A text : Signs(bodyRules, "") \subseteq Signs(bodyRules, text)
<1>1. ASSUME NEW text, NEW part \in Cut(text)
      PROVE  Signs(bodyRules, part) \subseteq Signs(bodyRules, text)
  <2>1. \A pattern : Has(part, pattern) => Has(text, pattern)
    BY CutHolds
  <2> QED
    BY <2>1 DEF Signs
<1>2. \A text : "" \in Cut(text)
  BY DEF Cut
<1> QED
  BY <1>1, <1>2

\* What a response yields, no more than it gives away.
Finds(r, fetched) ==
  LET techs == FingerprintWeb(fetched)
  IN  /\ IsInjective([k \in DOMAIN techs |-> techs[k].name])
      /\ fetched # <<>> =>
           TechNames(techs) \subseteq IF fetched[1].whole THEN Signed(r) ELSE SignedAsPage(r.head)
      /\ fetched = <<r>> => TechNames(techs) = Signed(r)

\* A response cut in its body, and one cut in its headers.
LEMMA BodyCut ==
  ASSUME NEW r, r = Response(TRUE, r.head, r.headers, r.body), NEW x, NEW y, y = [r EXCEPT !.body = x]
  PROVE  y = Response(TRUE, r.head, r.headers, x)
<1>1. DOMAIN r = {"whole", "head", "headers", "body"} /\ r.whole = TRUE
  BY DEF Response
<1>2. DOMAIN y = {"whole", "head", "headers", "body"} /\ y = [f \in DOMAIN y |-> y[f]]
  BY <1>1
<1>3. y["whole"] = TRUE /\ y["head"] = r.head /\ y["headers"] = r.headers /\ y["body"] = x
  BY <1>1
<1> QED
  BY <1>2, <1>3 DEF Response

LEMMA HeaderCut ==
  ASSUME NEW r, r = Response(TRUE, r.head, r.headers, r.body), NEW x, NEW y,
         y = [r EXCEPT !.whole = FALSE, !.head = x]
  PROVE  y = Response(FALSE, x, r.headers, r.body)
<1>1. DOMAIN r = {"whole", "head", "headers", "body"}
  BY DEF Response
<1>2. DOMAIN y = {"whole", "head", "headers", "body"} /\ y = [f \in DOMAIN y |-> y[f]]
  BY <1>1
<1>3. y["whole"] = FALSE /\ y["head"] = x /\ y["headers"] = r.headers /\ y["body"] = r.body
  BY <1>1
<1> QED
  BY <1>2, <1>3 DEF Response

\* What any fetch of a response finds.
LEMMA FetchFinds ==
  ASSUME NEW r, r = Response(TRUE, r.head, r.headers, r.body), Headers(r.headers),
         NEW server, NEW port, NEW fetched \in FetchWeb(server, r, port) \cup {<<>>}
  PROVE  Finds(r, fetched)
<1> DEFINE short(b) == Response(TRUE, r.head, r.headers, b)
           part(h, hs, b) == Response(FALSE, h, hs, b)
           techs == FingerprintWeb(fetched)
<1>1. r.whole = TRUE
  BY DEF Response
<1>2. \/ fetched = <<>>
      \/ fetched = <<r>>
      \/ \E b \in Cut(r.body) : fetched = <<short(b)>>
      \/ \E h \in {"", r.head} \cup Cut(r.head) : \E hs, b : fetched = <<part(h, hs, b)>>
  <2>1. \/ fetched = <<>>
        \/ fetched = <<part("", <<>>, "")>>
        \/ \E x \in Received(r) : fetched = <<x>>
    BY Zenon DEF FetchWeb, Response
  <2>2. \A x \in Received(r) :
          \/ x = r
          \/ \E b \in Cut(r.body) : x = [r EXCEPT !.body = b]
          \/ \E h \in {r.head} \cup Cut(r.head) : x = [r EXCEPT !.whole = FALSE, !.head = h]
    BY Zenon DEF Received
  <2> HIDE DEF short, part
  <2>3. \A x \in Received(r) :
          \/ x = r
          \/ \E b \in Cut(r.body) : x = short(b)
          \/ \E h \in {r.head} \cup Cut(r.head) : x = part(h, r.headers, r.body)
    <3> SUFFICES ASSUME NEW x \in Received(r)
                 PROVE  \/ x = r
                        \/ \E b \in Cut(r.body) : x = short(b)
                        \/ \E h \in {r.head} \cup Cut(r.head) : x = part(h, r.headers, r.body)
      OBVIOUS
    <3>1. CASE x = r
      BY <3>1
    <3>2. ASSUME NEW b \in Cut(r.body), x = [r EXCEPT !.body = b]
          PROVE  x = short(b)
      BY <3>2, BodyCut, Zenon DEF short
    <3>3. ASSUME NEW h \in {r.head} \cup Cut(r.head), x = [r EXCEPT !.whole = FALSE, !.head = h]
          PROVE  x = part(h, r.headers, r.body)
      BY <3>3, HeaderCut, Zenon DEF part
    <3> QED
      BY <2>2, <3>1, <3>2, <3>3, Zenon
  <2>4. CASE fetched = <<part("", <<>>, "")>>
    BY <2>4
  <2>5. ASSUME NEW x \in Received(r), fetched = <<x>>
        PROVE  \/ fetched = <<r>>
               \/ \E b \in Cut(r.body) : fetched = <<short(b)>>
               \/ \E h \in {"", r.head} \cup Cut(r.head) : \E hs, b : fetched = <<part(h, hs, b)>>
    <3>1. CASE x = r
      BY <2>5, <3>1
    <3>2. CASE \E b \in Cut(r.body) : x = short(b)
      BY <2>5, <3>2
    <3>3. ASSUME NEW h \in {r.head} \cup Cut(r.head), x = part(h, r.headers, r.body)
          PROVE  \E k \in {"", r.head} \cup Cut(r.head) : \E hs, b : fetched = <<part(k, hs, b)>>
      BY <2>5, <3>3
    <3> QED
      BY <2>3, <3>1, <3>2, <3>3, Zenon
  <2> QED
    BY <2>1, <2>4, <2>5, Zenon
<1>3. CASE fetched = <<>>
  <2>1. techs = <<>>
    BY <1>3 DEF FingerprintWeb
  <2>2. DOMAIN <<>> = {} /\ <<r>> # <<>>
    OBVIOUS
  <2> HIDE DEF techs
  <2>3. IsInjective([k \in DOMAIN techs |-> techs[k].name])
    BY <2>1, <2>2 DEF IsInjective
  <2>4. fetched # <<r>>
    BY <1>3, <2>2
  <2> QED
    BY <1>3, <2>3, <2>4, Zenon DEF Finds, techs
<1>4. CASE fetched = <<r>>
  <2>1. IsInjective([k \in DOMAIN techs |-> techs[k].name]) /\ TechNames(techs) = Signed(r)
    BY <1>1, <1>4, FoundInWhole, Zenon
  <2>2. fetched[1] = r
    BY <1>4
  <2> HIDE DEF techs
  <2>3. TechNames(techs) \subseteq IF fetched[1].whole THEN Signed(r) ELSE SignedAsPage(r.head)
    BY <1>1, <2>1, <2>2
  <2> QED
    BY <2>1, <2>3, Zenon DEF Finds, techs
<1>5. ASSUME NEW b \in Cut(r.body), fetched = <<short(b)>>
      PROVE  Finds(r, fetched)
  <2> DEFINE s == short(b)
  <2>1. s.whole = TRUE /\ s.headers = r.headers /\ s.body = b
    BY DEF Response
  <2>2. Signs(bodyRules, b) \subseteq Signs(bodyRules, r.body)
    BY CutShowsLess
  <2>3. fetched = <<s>>
    BY <1>5
  <2> HIDE DEF s
  <2>4. fetched[1] = s
    BY <2>3
  <2>5. IsInjective([k \in DOMAIN techs |-> techs[k].name]) /\ TechNames(techs) = Signed(s)
    <3>1. LET t == FingerprintWeb(<<s>>)
          IN  IsInjective([k \in DOMAIN t |-> t[k].name]) /\ TechNames(t) = Signed(s)
      BY <2>1, FoundInWhole
    <3> QED
      BY <2>3, <3>1, Zenon
  <2>6. Signed(s) \subseteq Signed(r)
    <3>1. Signed(s) =
            (Shows(r.headers)
               \cup (UNION {Signs(cookieRules, c) : c \in ToSet(Values(r.headers, "Set-Cookie"))})
               \cup Signs(bodyRules, b)) \ {""}
      BY <2>1, SignedNames
    <3> QED
      BY <2>2, <3>1, SignedNames
  <2> HIDE DEF techs
  <2>7. TechNames(techs) \subseteq IF fetched[1].whole THEN Signed(r) ELSE SignedAsPage(r.head)
    BY <2>1, <2>4, <2>5, <2>6
  <2>8. fetched = <<r>> => TechNames(techs) = Signed(r)
    BY <2>4, <2>5
  <2> QED
    BY <2>5, <2>7, <2>8, Zenon DEF Finds, techs
<1>6. ASSUME NEW h \in {"", r.head} \cup Cut(r.head), NEW hs, NEW b, fetched = <<part(h, hs, b)>>
      PROVE  Finds(r, fetched)
  <2> DEFINE p == part(h, hs, b)
  <2>1. p.whole = FALSE /\ p.head = h
    BY DEF Response
  <2>2. fetched = <<p>>
    BY <1>6
  <2> HIDE DEF p
  <2>3. fetched[1] = p /\ fetched # <<r>>
    BY <1>1, <2>1, <2>2
  <2>4. IsInjective([k \in DOMAIN techs |-> techs[k].name]) /\ TechNames(techs) \subseteq SignedAsPage(h)
    <3>1. LET t == FingerprintWeb(<<p>>)
          IN  /\ IsInjective([k \in DOMAIN t |-> t[k].name])
              /\ TechNames(t) \subseteq SignedAsPage(p.head)
      BY <2>1, FoundInPart
    <3> QED
      BY <2>1, <2>2, <3>1, Zenon
  <2>5. SignedAsPage(h) \subseteq SignedAsPage(r.head)
    <3>1. \A text : SignedAsPage(text) = Signs(bodyRules, text)
      BY DEF SignedAsPage, Signs
    <3> QED
      BY <3>1, CutShowsLess
  <2> HIDE DEF techs
  <2>6. TechNames(techs) \subseteq IF fetched[1].whole THEN Signed(r) ELSE SignedAsPage(r.head)
    BY <2>1, <2>3, <2>4, <2>5
  <2> QED
    BY <2>3, <2>4, <2>6, Zenon DEF Finds, techs
<1> HIDE DEF short, part
<1> QED
  BY <1>2, <1>3, <1>4, <1>5, <1>6

\* Whatever servers answer and wherever a read ends: each technology is
\* reported once, a whole response yields all it gives away, one cut in its body
\* nothing more, one cut in its headers no more than a page of their text
\* would, and only web ports and web servers have any
\* (web_stack_fingerprinter.go:141-230, 276).
THEOREM TechnologiesFound == Spec => []TechnologiesBySignature
<1>1. FetchedInv => TechnologiesBySignature
  <2> SUFFICES ASSUME FetchedInv, probe.step = "reported"
               PROVE  LET names == [k \in DOMAIN probe.techs |-> probe.techs[k].name]
                          response == probe.response[1]
                      IN  /\ IsInjective(names)
                          /\ probe.fetched # <<>> =>
                               ToSet(names) \subseteq IF probe.fetched[1].whole THEN Signed(response)
                                                     ELSE SignedAsPage(response.head)
                          /\ probe.fetched = probe.response => ToSet(names) = Signed(response)
                          /\ names # <<>> => CanFingerprint(probe.port) \/ probe.name \in webServiceNames
    BY DEF TechnologiesBySignature
  <2> DEFINE techs == probe.techs
             names == [k \in DOMAIN techs |-> techs[k].name]
             mayAsk == CanFingerprint(probe.port) \/ probe.name \in webServiceNames
  <2>1. PICK r \in Responses : probe.response = <<r>>
    BY DEF FetchedInv
  <2>2. probe.response[1] = r /\ r = Response(TRUE, r.head, r.headers, r.body) /\ Headers(r.headers)
    BY <2>1, ResponsesAssumption DEF Response, Headers
  <2>3. techs = FingerprintWeb(probe.fetched)
    BY DEF FetchedInv
  <2>4. probe.fetched \in FetchWeb(probe.server[1], r, probe.port) \cup {<<>>}
        /\ (~mayAsk => probe.fetched = <<>>)
    BY <2>2 DEF FetchedInv
  <2>5. /\ IsInjective(names)
        /\ probe.fetched # <<>> =>
             TechNames(techs) \subseteq IF probe.fetched[1].whole THEN Signed(r) ELSE SignedAsPage(r.head)
        /\ probe.fetched = <<r>> => TechNames(techs) = Signed(r)
    <3>1. PICK server, port, fetched :
            server = probe.server[1] /\ port = probe.port /\ fetched = probe.fetched
      OBVIOUS
    <3>2. fetched \in FetchWeb(server, r, port) \cup {<<>>}
      BY <2>4, <3>1, Zenon
    <3>3. Finds(r, fetched)
      BY <2>2, <3>2, FetchFinds
    <3>4. techs = FingerprintWeb(fetched)
      BY <2>3, <3>1, Zenon
    <3> HIDE DEF techs
    <3> QED
      BY <3>1, <3>3, <3>4, Zenon DEF Finds
  <2>6. ToSet(names) = TechNames(techs)
    BY DEF ToSet, TechNames
  <2>7. ~mayAsk => names = <<>>
    <3>1. ~mayAsk => techs = <<>>
      BY <2>3, <2>4 DEF FingerprintWeb
    <3>2. DOMAIN <<>> = {} /\ <<>> = [k \in {} |-> <<>>[k].name]
      OBVIOUS
    <3> HIDE DEF mayAsk, techs
    <3> QED
      BY <3>1, <3>2
  <2> HIDE DEF names
  <2> QED
    BY <2>1, <2>2, <2>5, <2>6, <2>7 DEF names
<1> QED
  BY <1>1, FetchedInvariant, PTL
===============================================================================
