------------------------------- MODULE WebStack -------------------------------
(***************************************************************************)
(* The web technology fingerprinter (web_stack_fingerprinter.go).          *)
(*                                                                         *)
(* A response is [whole, head, headers, body]: whether the blank line      *)
(* after the headers was read, the text of the bytes before it, the values *)
(* of each header and the text of the body.  Set-Cookie values are the     *)
(* cookie names.                                                           *)
(***************************************************************************)
EXTENDS Names, Banner

HRule(header, value, name, category) ==
  [header |-> header, value |-> value, name |-> name, category |-> category]
Sign(pattern, name, category) == [pattern |-> pattern, name |-> name, category |-> category]

headerRules == <<
  HRule("X-Powered-By", "php", "PHP", "Language"),
  HRule("X-Powered-By", "asp.net", "ASP.NET", "Framework"),
  HRule("X-Powered-By", "express", "Express.js", "Framework"),
  HRule("X-Powered-By", "next.js", "Next.js", "Framework"),
  HRule("X-Powered-By", "", "", "Platform"),
  HRule("X-Aspnet-Version", "", "ASP.NET", "Framework"),
  HRule("X-Aspnetmvc-Version", "", "ASP.NET MVC", "Framework"),
  HRule("X-Generator", "", "", "CMS"),
  HRule("X-Drupal-Cache", "", "Drupal", "CMS"),
  HRule("X-Drupal-Dynamic-Cache", "", "Drupal", "CMS") >>

cookieRules == <<
  Sign("phpsessid", "PHP", "Language"),
  Sign("jsessionid", "Java/Tomcat", "Platform"),
  Sign("asp.net_sessionid", "ASP.NET", "Framework"),
  Sign("laravel_session", "Laravel", "Framework"),
  Sign("_session_id", "Ruby on Rails", "Framework") >>

bodyRules == <<
  Sign("wp-content/", "WordPress", "CMS"),
  Sign("wp-includes/", "WordPress", "CMS"),
  Sign("sites/default/files", "Drupal", "CMS"),
  Sign("data-drupal-selector", "Drupal", "CMS"),
  Sign("/components/com_content", "Joomla", "CMS"),
  Sign("__next_data__", "Next.js", "Framework"),
  Sign("__vue_app__", "Vue.js", "Framework"),
  Sign("data-v-app", "Vue.js", "Framework"),
  Sign("ng-version=", "Angular", "Framework"),
  Sign("data-reactroot", "React", "Framework"),
  Sign("gatsby-announcer", "Gatsby", "Framework"),
  Sign("__svelte", "Svelte", "Framework") >>

\* webReadLimit and the read deadline cut a response anywhere: in its body, or
\* in its headers, of which the whole text or a beginning is left.
Received(r) ==
  {r} \cup {[r EXCEPT !.body = b] : b \in Cut(r.body)}
      \cup {[r EXCEPT !.whole = FALSE, !.head = h] : h \in {r.head} \cup Cut(r.head)}

\* TLS is chosen by the port number; an answer in the other protocol is an
\* error or bytes without a header boundary.
FetchWeb(server, response, port) ==
  LET good == {<<r>> : r \in Received(response)}
      junk == [whole |-> FALSE, head |-> "", headers |-> <<>>, body |-> ""]
  IN  {<<>>} \cup IF port \in defaultHTTPSPorts THEN IF server.tls THEN good ELSE {}
                  ELSE IF server.tls THEN {<<junk>>} ELSE good

CanFingerprint(port) == port \in defaultHTTPPorts \/ port \in defaultHTTPSPorts

webServiceNames == {"http", "https", "nginx", "apache", "iis"}

\* No boundary: everything read is the body, and there are no headers.
parseHTTPResponse(r) ==
  IF r.whole THEN [headers |-> r.headers, body |-> r.body]
  ELSE [headers |-> <<>>, body |-> r.head]

Values(headers, name) == IF name \in DOMAIN headers THEN headers[name] ELSE <<>>
Tech(name, category) == [name |-> name, category |-> category]

\* A rule without a value fires on the header alone; one without a name takes
\* the header's value for it.
detectHeaderTechs(headers) ==
  LET Hit(rule) == LET vals == Values(headers, rule.header)
                   IN  vals # <<>> /\ (rule.value = "" \/ Has(vals[1], rule.value))
      hits == Select(headerRules, Hit)
      Name(rule) == IF rule.name = "" THEN Values(headers, rule.header)[1] ELSE rule.name
  IN  [k \in DOMAIN hits |-> Tech(Name(hits[k]), hits[k].category)]

Hits(table, text) ==
  LET hits == Select(table, LAMBDA sign : Has(text, sign.pattern))
  IN  [k \in DOMAIN hits |-> Tech(hits[k].name, hits[k].category)]

detectCookieTechs(headers) ==
  LET cookies == Values(headers, "Set-Cookie")
  IN  FlattenSeq([k \in DOMAIN cookies |-> Hits(cookieRules, cookies[k])])

detectBodyTechs(body) == Hits(bodyRules, body)

detectRepeatedly(headers, body) ==   \* mutant: each kind of evidence reports for itself
  detectHeaderTechs(headers) \o detectCookieTechs(headers) \o detectBodyTechs(body)

\* A technology is reported once, from the first evidence of it.
detectTechnologies(headers, body) ==
  LET evidence == detectHeaderTechs(headers) \o detectCookieTechs(headers) \o detectBodyTechs(body)
  IN  UniqueBy(Select(evidence, LAMBDA tech : tech.name # ""), LAMBDA tech : tech.name)

\* What the caller has of one fetch: an error leaves the list empty.
FingerprintWeb(fetched) ==
  IF fetched = <<>> THEN <<>>
  ELSE LET parsed == parseHTTPResponse(fetched[1]) IN detectTechnologies(parsed.headers, parsed.body)
===============================================================================
