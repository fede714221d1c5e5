-------------------------------- MODULE Names --------------------------------
(***************************************************************************)
(* Host names as the discovery packages treat them: runner.go's            *)
(* NormalizeDomain and IsLocalTarget, discovery/scope.go and               *)
(* models.Subdomain.                                                       *)
(*                                                                         *)
(* A name is the sequence of its labels, so that "api.example.com" is      *)
(* <<"api", "example", "com">>, a trailing dot is a last label "" and the  *)
(* blank name is <<>>.                                                     *)
(***************************************************************************)
EXTENDS Lists

CONSTANT LowerCase   \* label |-> its lower-case form, for the labels that have upper-case letters

ASSUME LowerCaseAssumption ==
  \A l \in DOMAIN LowerCase : LowerCase[l] \in STRING /\ LowerCase[l] \notin DOMAIN LowerCase

Lower(name) ==
  [i \in DOMAIN name |-> IF name[i] \in DOMAIN LowerCase THEN LowerCase[name[i]] ELSE name[i]]

\* strings.TrimRight(name, ".")
TrimDots(name) ==
  LET kept == {i \in DOMAIN name : name[i] # ""}
  IN  IF kept = {} THEN <<>> ELSE SubSeq(name, 1, Max(kept))

\* name = target or name ends in "." + target.
InScope(name, target) == IsSuffix(target, name)

\* "*.example.com" is evidence of a certificate, not a host.
IsWildcard(name) == Len(name) > 1 /\ name[1] = "*"

NormalizeDomain(target) == Lower(TrimDots(target))

\* A name without a dot; IP addresses, local too, are not names here.
IsLocalTarget(domain) == Len(domain) <= 1
==============================================================================
