-------------------------------- MODULE VulnDB --------------------------------
(***************************************************************************)
(* The built-in CVE rules and the comparison of versions (vulndb.go).      *)
(*                                                                         *)
(* A version is the sequence of its components, split at "." and at the    *)
(* "p" of OpenSSH: "9.7p1" is <<9, 7, 1>> and no version <<>>.  A          *)
(* component that is not a number is written -(n + 1), n the number it     *)
(* begins with: "1-debian1" is -2.                                         *)
(***************************************************************************)
EXTENDS Integers, Lists

\* splitVersion: a component that is not a number counts as zero.
Number(c) == IF c < 0 THEN 0 ELSE c

\* The shorter of two versions is padded with zeros.
Part(v, i) == IF i \in DOMAIN v THEN Number(v[i]) ELSE 0

Less(a, b) ==
  \E i \in DOMAIN a \cup DOMAIN b :
    /\ Part(a, i) < Part(b, i)
    /\ \A j \in 1..i-1 : Part(a, j) = Part(b, j)

compareVersions(a, b) == IF Less(a, b) THEN -1 ELSE IF Less(b, a) THEN 1 ELSE 0

Rule(service, min, max, cve) == [service |-> service, min |-> min, max |-> max, cve |-> cve]

\* The rules, each service's in the order load adds them; an empty max is a
\* note that fires for every version.
rules == <<
  Rule("openssh", <<8, 5, 1>>,  <<9, 7, 1>>,  "CVE-2024-6387"),
  Rule("openssh", <<>>,         <<7, 6>>,     "CVE-2018-15473"),
  Rule("apache",  <<2, 4, 49>>, <<2, 4, 50>>, "CVE-2021-41773"),
  Rule("apache",  <<>>,         <<2, 4, 51>>, "CVE-2021-44790"),
  Rule("nginx",   <<>>,         <<1, 20, 0>>, "CVE-2021-23017"),
  Rule("smtp",    <<>>,         <<3, 5, 22>>, "CVE-2023-51764"),
  Rule("ftp",     <<>>,         <<1, 3, 7>>,  "CVE-2023-48795"),
  Rule("imap",    <<>>,         <<>>,         "CVE-2024-23184"),
  Rule("pop3",    <<>>,         <<>>,         "CVE-2024-23184"),
  Rule("http",    <<>>,         <<>>,         "plain HTTP") >>

FiresBelow(rule, version) ==   \* mutant: the last affected version taken for the first fixed one
  \/ rule.max = <<>>
  \/ /\ version # <<>>
     /\ compareVersions(version, rule.max) < 0
     /\ rule.min = <<>> \/ compareVersions(version, rule.min) >= 0

Fires(rule, version) ==
  \/ rule.max = <<>>
  \/ /\ version # <<>>
     /\ compareVersions(version, rule.max) <= 0
     /\ rule.min = <<>> \/ compareVersions(version, rule.min) >= 0

Check(name, version) ==
  LET hits == Select(rules, LAMBDA rule : rule.service = name /\ Fires(rule, version))
  IN  [k \in DOMAIN hits |-> hits[k].cve]
===============================================================================
