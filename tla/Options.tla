------------------------------- MODULE Options -------------------------------
(***************************************************************************)
(* The two entry points of a scan: the flags of cmd/asm and the query      *)
(* parameters of /scan, and what the scanner and the fingerprinters make   *)
(* of the pipeline.Config they build.                                      *)
(*                                                                         *)
(* An option is None, Bad (text that is no number) or Num(n); times are in *)
(* seconds.  A port list is the sequence of its tokens, each an integer,   *)
(* with 0 for a token that is no integer: 0 is out of range as well.       *)
(***************************************************************************)
EXTENDS Names

None == [kind |-> "none", n |-> 0]
Bad == [kind |-> "bad", n |-> 0]
Num(n) == [kind |-> "num", n |-> n]

DefaultPorts ==
  <<21, 22, 23, 25, 53, 80, 110, 143, 443, 445,
    993, 995, 1433, 3306, 3389, 5432, 6379, 8080, 8443, 8888, 27017>>

ValidPort(n) == 1 <= n /\ n <= 65535

Config(domain, ports, workers, timeout, rate) ==
  [domain |-> domain, ports |-> ports, workers |-> workers, timeout |-> timeout,
   rate |-> rate, local |-> IsLocalTarget(domain)]

\* --- cmd/asm/main.go ------------------------------------------------------
\* A flag that is no number, an empty target or one bad port ends the program.

Flag(o, default) == IF o.kind = "none" THEN default ELSE o.n

CLIPorts(tokens) == IF tokens = <<>> THEN DefaultPorts ELSE Unique(tokens)

CLIAccepts(r) ==
  /\ \A o \in {r.workers, r.timeout, r.rate} : o.kind # "bad"
  /\ NormalizeDomain(r.target) # <<>>
  /\ \A k \in DOMAIN r.ports : ValidPort(r.ports[k])

CLIConfig(r) ==
  Config(NormalizeDomain(r.target), CLIPorts(r.ports),
         Flag(r.workers, 100), Flag(r.timeout, 2), Flag(r.rate, 0))

\* --- internal/web/server.go -----------------------------------------------
\* Bad values are replaced, bad ports skipped.

parseInt(o, default) == IF o.kind = "num" /\ o.n >= 0 THEN o.n ELSE default
parseDuration(o, default) == IF o.kind = "num" THEN o.n ELSE default

maxWorkers == 500
maxScanTimeout == 30

ServerPortsBelow(tokens) ==   \* mutant: the highest port is out of range
  LET good == Unique(Select(tokens, LAMBDA n : 1 <= n /\ n < 65535))
  IN  IF good = <<>> THEN DefaultPorts ELSE good

ServerPorts(tokens) ==
  LET good == Unique(Select(tokens, ValidPort))
  IN  IF good = <<>> THEN DefaultPorts ELSE good

ServerAccepts(r) == r.target # <<>>

buildConfig(r) ==
  LET asked   == parseInt(r.workers, 100)
      workers == IF asked < 1 THEN 1 ELSE IF asked > maxWorkers THEN maxWorkers ELSE asked
      wanted  == parseDuration(r.timeout, 2)
      timeout == IF wanted > maxScanTimeout THEN maxScanTimeout ELSE wanted
  IN  Config(NormalizeDomain(r.target), ServerPorts(r.ports), workers, timeout, parseInt(r.rate, 0))

\* --- what the components make of a Config ---------------------------------

\* NewTCPScanner.
ScannerSettings(cfg) ==
  [timeout |-> IF cfg.timeout <= 0 THEN 2 ELSE cfg.timeout,
   workers |-> IF cfg.workers <= 0 THEN 100 ELSE cfg.workers,
   rate    |-> IF cfg.rate < 0 THEN 0 ELSE cfg.rate]

\* NewRunner gives the fingerprinters one second more, they default to three.
FingerprintTimeout(cfg) == IF cfg.timeout + 1 <= 0 THEN 3 ELSE cfg.timeout + 1
==============================================================================
