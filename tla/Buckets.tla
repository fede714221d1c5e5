------------------------------- MODULE Buckets -------------------------------
(***************************************************************************)
(* Phase 3: the bucket names a domain suggests are probed one URL after    *)
(* another (cloudscan/bucket_hunter.go).                                   *)
(*                                                                         *)
(* A bucket name is the sequence of the words a "-" joins: "acme-backup"   *)
(* is <<"acme", "backup">>, and the slug of acme.dev is <<"acme", "dev">>. *)
(* A URL is its bucket's name and one of the five patterns.  What the      *)
(* clouds hold is a set of [name, pattern, status]; every other URL is     *)
(* answered 404 or not at all.                                             *)
(***************************************************************************)
EXTENDS Names, Context

CONSTANT Clouds     \* what the clouds may hold

VARIABLES
  bpc,      \* where Scan is
  hunted,   \* the domain
  urls,     \* the URLs it suggests, in the order they are probed
  cloud,    \* what the clouds hold during this scan
  at,       \* index of the URL to probe
  hits      \* the results

bucketVars == <<bpc, hunted, urls, cloud, at, hits>>

suffixes ==
  << <<>>, <<"backup">>, <<"dev">>, <<"staging">>, <<"prod">>,
     <<"data">>, <<"logs">>, <<"assets">>, <<"uploads">>, <<"static">> >>

candidatesAndSlug(domain) ==   \* mutant: the slug is dropped for dotless domains only
  LET base == SubSeq(Lower(domain), 1, 1)
  IN  [k \in DOMAIN suffixes |-> base \o suffixes[k]]
      \o IF Len(domain) > 1 THEN <<Lower(domain)>> ELSE <<>>

\* The leftmost label with each suffix, then the slug of the whole domain.
candidatesFromDomain(domain) ==
  LET base == SubSeq(Lower(domain), 1, 1)
      slug == Lower(domain)
  IN  Unique([k \in DOMAIN suffixes |-> base \o suffixes[k]] \o <<slug>>)

patterns == <<"s3-host", "s3-path", "azure-container", "gcs-path", "gcs-host">>

\* A URL that answers has one answer.
ASSUME CloudsAssumption ==
  \A held \in Clouds : \A b, c \in held :
    /\ b.name \in Seq(STRING) /\ b.pattern \in ToSet(patterns)
    /\ b.name = c.name /\ b.pattern = c.pattern => b.status = c.status

buildURLs(candidates) ==
  FlattenSeq([k \in DOMAIN candidates |->
    [p \in DOMAIN patterns |-> [name |-> candidates[k], pattern |-> patterns[p]]]])

StatusOf(url) ==
  LET held == {b \in cloud : b.name = url.name /\ b.pattern = url.pattern}
  IN  IF held = {} THEN 404 ELSE (CHOOSE b \in held : TRUE).status

BucketsInit ==
  /\ bpc = "idle"
  /\ hunted = <<>> /\ urls = <<>> /\ cloud = {} /\ at = 1 /\ hits = <<>>

\* An empty domain has no candidates.
BeginHunt(domain) ==
  /\ bpc = "idle"
  /\ bpc' = IF domain = <<>> THEN "done" ELSE "loop"
  /\ hunted' = domain
  /\ urls' = IF domain = <<>> THEN <<>> ELSE buildURLs(candidatesFromDomain(domain))
  /\ cloud' \in Clouds
  /\ UNCHANGED <<at, hits, cancelled>>

\* The context is looked at before each probe.
Probe ==
  /\ bpc = "loop" /\ at <= Len(urls) /\ ~cancelled
  /\ bpc' = "flight"
  /\ UNCHANGED <<hunted, urls, cloud, at, hits, cancelled>>

\* 200 is a public bucket, 403 a private one, anything else none.
Respond ==
  /\ bpc = "flight"
  /\ bpc' = "loop"
  /\ LET status == StatusOf(urls[at])
     IN  hits' = IF status \notin {200, 403} THEN hits
                 ELSE Append(hits, [url |-> urls[at], accessible |-> status = 200])
  /\ at' = at + 1
  /\ UNCHANGED <<hunted, urls, cloud, cancelled>>

\* The request under way fails with its context.
Abort ==
  /\ bpc = "flight" /\ cancelled
  /\ bpc' = "loop"
  /\ at' = at + 1
  /\ UNCHANGED <<hunted, urls, cloud, hits, cancelled>>

EndHunt ==
  /\ bpc = "loop"
  /\ at > Len(urls) \/ cancelled
  /\ bpc' = "done"
  /\ UNCHANGED <<hunted, urls, cloud, at, hits, cancelled>>

TakeBuckets ==
  /\ bpc = "done"
  /\ bpc' = "idle" /\ hunted' = <<>> /\ urls' = <<>> /\ cloud' = {} /\ at' = 1 /\ hits' = <<>>
  /\ UNCHANGED cancelled

HuntNext == Probe \/ Respond \/ Abort \/ EndHunt

----------------------------------------------------------------------------
\* The names bucket_hunter.go:167-179 promises to try.
Suggested(domain) ==
  {domain, <<domain[1]>>} \cup
  {<<domain[1], word>> : word \in {"backup", "dev", "staging", "prod", "data",
                                   "logs", "assets", "uploads", "static"}}

Present(domain) == {b \in cloud : b.name \in Suggested(domain) /\ b.status \in {200, 403}}

\* A hunt nobody cancels reports every public or private bucket of a suggested
\* name exactly once and with its right status, though some URLs fail; a
\* cancelled one reports some of them, and it too none twice.
BucketsFound ==
  LET Report(b) == [url |-> [name |-> b.name, pattern |-> b.pattern], accessible |-> b.status = 200]
  IN  /\ IsInjective(hits)
      /\ hunted # <<>> => ToSet(hits) \subseteq {Report(b) : b \in Present(hunted)}
      /\ bpc = "done" /\ ~cancelled /\ hunted # <<>> =>
           ToSet(hits) = {Report(b) : b \in Present(hunted)}
==============================================================================
