------------------------------- MODULE DNSIntel -------------------------------
(***************************************************************************)
(* Third-party services read off TXT and MX records (dns_intel.go).        *)
(*                                                                         *)
(* The tables are Go maps, so a host that several patterns match meets     *)
(* them in an order the program does not fix: parseSPF and parseMX are     *)
(* sets here, of the lists they may return.  A TXT record is               *)
(* [spf, includes]: whether it starts with v=spf1, and its include:        *)
(* targets.                                                                *)
(***************************************************************************)
EXTENDS Names

Row(pattern, service) == [pattern |-> pattern, service |-> service]

spfIncludes == {
  Row(<<"mailgun", "org">>, "Mailgun"),
  Row(<<"_spf", "google", "com">>, "Google Workspace"),
  Row(<<"google", "com">>, "Google Workspace"),
  Row(<<"spf", "protection", "outlook", "com">>, "Microsoft 365"),
  Row(<<"outlook", "com">>, "Microsoft 365"),
  Row(<<"sendgrid", "net">>, "SendGrid"),
  Row(<<"amazonses", "com">>, "Amazon SES"),
  Row(<<"mandrillapp", "com">>, "Mandrill (Mailchimp)"),
  Row(<<"zendesk", "com">>, "Zendesk"),
  Row(<<"salesforce", "com">>, "Salesforce"),
  Row(<<"_spf", "salesforce", "com">>, "Salesforce"),
  Row(<<"mailchimp", "com">>, "Mailchimp"),
  Row(<<"postmarkapp", "com">>, "Postmark"),
  Row(<<"sparkpostmail", "com">>, "SparkPost") }

mxHostsRenamed == {   \* mutant: a product name for one of two nested patterns
  Row(<<"google", "com">>, "Google Workspace"),
  Row(<<"outlook", "com">>, "Microsoft 365"),
  Row(<<"protection", "outlook", "com">>, "Exchange Online Protection") }

mxHosts == {
  Row(<<"google", "com">>, "Google Workspace"),
  Row(<<"googlemail", "com">>, "Google Workspace"),
  Row(<<"outlook", "com">>, "Microsoft 365"),
  Row(<<"protection", "outlook", "com">>, "Microsoft 365"),
  Row(<<"mailgun", "org">>, "Mailgun"),
  Row(<<"amazonses", "com">>, "Amazon SES"),
  Row(<<"zoho", "com">>, "Zoho Mail"),
  Row(<<"zohomail", "com">>, "Zoho Mail"),
  Row(<<"protonmail", "ch">>, "ProtonMail"),
  Row(<<"sendgrid", "net">>, "SendGrid"),
  Row(<<"messagingengine", "com">>, "FastMail"),
  Row(<<"mxrecord", "io">>, "Mailchimp") }

Matching(table, host) == {row \in table : InScope(host, row.pattern)}

\* hosts are [name, evidence].  The rows a host matches, in any order, host
\* after host; each service is reported once, at the first host that matches it.
Reports(table, record, hosts) ==
  LET Orders(k) == SetToSeqs(Matching(table, hosts[k].name))
      visits == {v \in [DOMAIN hosts -> UNION {Orders(k) : k \in DOMAIN hosts}] :
                   \A k \in DOMAIN hosts : v[k] \in Orders(k)}
      Indicators(v, k) == [r \in DOMAIN v[k] |->
                             [service |-> v[k][r].service, record |-> record,
                              evidence |-> hosts[k].evidence]]
  IN  {UniqueBy(FlattenSeq([k \in DOMAIN hosts |-> Indicators(v, k)]), LAMBDA x : x.service) : v \in visits}

\* The evidence is the whole TXT record.
parseSPF(txts) ==
  LET policies == Select(txts, LAMBDA txt : txt.spf)
      Targets(txt) == [k \in DOMAIN txt.includes |-> [name |-> Lower(txt.includes[k]), evidence |-> txt]]
  IN  Reports(spfIncludes, "TXT", FlattenSeq([k \in DOMAIN policies |-> Targets(policies[k])]))

parseMX(mxs) ==
  Reports(mxHosts, "MX",
          [k \in DOMAIN mxs |-> [name |-> Lower(TrimDots(mxs[k])), evidence |-> mxs[k]]])

\* <<>> stands for a lookup that failed, <<records>> for its answer: neither
\* lookup depends on the other's.
Scan(txt, mx) ==
  {a \o b : a \in IF txt = <<>> THEN {<<>>} ELSE parseSPF(txt[1]),
            b \in IF mx  = <<>> THEN {<<>>} ELSE parseMX(mx[1])}
===============================================================================
