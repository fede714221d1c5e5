------------------------------- MODULE MCRecon -------------------------------
(***************************************************************************)
(* A small instance of Recon: the target acme.dev, whose slug is one of    *)
(* the names its suffixes give, a dotless local target, and the target "." *)
(* that the server takes for a host.                                       *)
(***************************************************************************)
EXTENDS Recon

\* Select is the SelectSeq of module Sequences.
ASSUME SelectAssumption ==
  LET Odd(n) == n % 2 = 1
  IN  \A n \in 0..4 : \A s \in [1..n -> 1..4] : Select(s, Odd) = SelectSeq(s, Odd)

Acme == <<"acme", "dev">>
Api == <<"api", "acme", "dev">>
APIUpper == <<"API", "acme", "dev">>
Star == <<"*", "acme", "dev">>
Other == <<"other", "org">>
Near == <<"myacme", "dev">>

MCLowerCase == [l \in {"API"} |-> "api"]
MCHost == {Acme, Api, Star, Near, Other}

Answers(status, broken, body) == [status |-> status, broken |-> broken, body |-> body]
CTs == {Answers(0, FALSE, <<>>),
        Answers(200, FALSE, << <<Star, Acme>>, <<APIUpper, Other, <<>>, Api>> >>)}
Line(comma, host) == [comma |-> comma, host |-> host]
HTs == {Answers(429, FALSE, <<>>), Answers(200, TRUE, <<Line(TRUE, Api)>>),
        Answers(200, FALSE, <<Line(FALSE, Acme), Line(TRUE, Near), Line(TRUE, Api), Line(TRUE, Api)>>)}
WBs == {Answers(503, FALSE, <<>>),
        Answers(200, FALSE, << << <<>> >>, <<>>, <<Other>>, <<Api>>, <<Acme>> >>)}
MCOutcomes == SourceOutcomes(CTs, HTs, WBs, Acme)

MCAddresses == {<<>>, <<"ip1", "ip1">>, <<"ip2", "ip1">>}
MCPointers == {<<>>, << <<"API", "acme", "dev", "">>, <<"rev", "other", "org", "">>, <<"", "">> >>,
               << <<"rev", "other", "org", "">>, <<"*", "acme", "dev", "">> >>}

Held(name, pattern, status) == [name |-> name, pattern |-> pattern, status |-> status]
MCClouds == {
  {},
  {Held(<<"acme", "dev">>, "s3-path", 200), Held(<<"acme">>, "s3-host", 403),
   Held(<<"acme", "static">>, "gcs-host", 403), Held(<<"acme", "logs">>, "azure-container", 500),
   Held(<<"other">>, "s3-path", 200)} }

Req(front, target, ports, workers, timeout, rate) ==
  [front |-> front, target |-> target, ports |-> ports, workers |-> workers,
   timeout |-> timeout, rate |-> rate]
MCRequests ==
  {Req(front, target, <<443>>, None, None, None) :
     front \in {"cli", "server"}, target \in {Acme, <<"acme">>, <<"", "">>, <<"ACME", "">>, <<>>}}
  \cup {Req(front, <<"acme">>, ports, workers, timeout, rate) :
          front \in {"cli", "server"}, ports \in {<<>>, <<0>>, <<65535, 1, 65535>>, <<80, 65536, 80>>},
          workers \in {None, Bad, Num(-1), Num(0), Num(501)},
          timeout \in {None, Bad, Num(-2), Num(-1), Num(0), Num(31)}, rate \in {None, Num(-1), Num(9)}}

TXT(spf, includes) == [spf |-> spf, includes |-> includes]
MCTXTs == {<<>>, << <<TXT(FALSE, <<>>), TXT(TRUE, << <<"_spf", "google", "com">>, <<"eu", "mailgun", "org">>,
                                                  <<"google", "com">>, <<"notmailgun", "org">> >>)>> >>}
MCMXs == {<<>>, << << <<"acme", "mail", "protection", "outlook", "com", "">>,
                      <<"aspmx", "l", "google", "com", "">>, <<"mx", "acme", "dev", "">> >> >>}

MCOpenPorts == {<<>>, <<22>>, <<80, 443>>}

Banner(proto, soft, version, words) ==
  [proto |-> proto, soft |-> soft, version |-> version, words |-> words]
Server(tls, greets, banner) == [tls |-> tls, greets |-> greets, banner |-> banner]
MCServers ==
  {Server(FALSE, TRUE, Banner("SSH", <<"openssh">>, v, <<>>)) :
     v \in {<<7, 6, 1>>, <<8, 4, 1>>, <<8, 5, 1>>, <<9, 7, 1>>, <<9, 8, 1>>, <<9, 10>>}}
  \cup {Server(tls, FALSE, Banner("HTTP", <<"apache">>, v, <<>>)) :
          tls \in BOOLEAN,
          v \in {<<2, 2, 34>>, <<2, 4, 48>>, <<2, 4, 49>>, <<2, 4, 50>>, <<2, 4, 51>>, <<2, 4, 52>>}}
  \cup {Server(FALSE, FALSE, Banner("HTTP", <<"nginx">>, v, <<>>)) :
          v \in {<<1, 20>>, <<1, 20, 1>>, <<1, 20, -2>>, <<1, 9, 15>>}}
  \cup {Server(FALSE, FALSE, Banner("HTTP", soft, <<>>, <<>>)) : soft \in {<<>>, <<"">>, <<"apache-coyote">>}}
  \cup {Server(FALSE, TRUE, Banner("220", <<>>, <<>>, words)) :
          words \in {<<>>, <<"ftp-relay", "esmtp">>, <<"smtp-gw", "proftpd">>}}
  \cup {Server(FALSE, TRUE, Banner(proto, <<>>, <<>>, <<>>)) : proto \in {"+OK", "* OK", ""}}

\* Of "apache-coyote" a cut may leave the name of other software.
MCFragments == [t \in {"openssh", "nginx", "apache", "apache-coyote", "ftp-relay", "esmtp", "proftpd",
                       "page", "links"} |->
                  CASE t = "openssh" -> {"open"} [] t = "nginx" -> {"ngi"} [] t = "apache" -> {"ap"}
                    [] t = "apache-coyote" -> {"apache"} [] t = "ftp-relay" -> {"ftp-"}
                    [] t = "esmtp" -> {"esmt"} [] t = "proftpd" -> {"pro", "proftp"}
                    [] t = "page" -> {"half a page"} [] t = "links" -> {"a link"}]
MCHolds == [t \in {"PHP/8.1", "PHPSESSID", "page", "half a page", "links", "a link", "ftp-relay", "ftp-",
                   "esmtp", "proftpd", "proftp"} |->
              CASE t = "PHP/8.1" -> {"php"} [] t = "PHPSESSID" -> {"phpsessid"}
                [] t = "page" -> {"wp-content/", "wp-includes/", "data-reactroot"}
                [] t = "half a page" -> {"wp-content/"}
                [] t = "links" -> {"wp-content/", "__next_data__"} [] t = "a link" -> {"wp-content/"}
                [] t \in {"ftp-relay", "ftp-", "proftp"} -> {"ftp"} [] t = "esmtp" -> {"esmtp"}
                [] t = "proftpd" -> {"proftpd", "ftp"}]

\* The second links to pages of another site in its headers.
MCResponses ==
  { [whole |-> TRUE, head |-> "", body |-> "page",
     headers |-> [h \in {"X-Powered-By", "Set-Cookie", "X-Drupal-Cache", "X-Generator"} |->
                    CASE h = "X-Powered-By" -> <<"PHP/8.1">> [] h = "Set-Cookie" -> <<"PHPSESSID", "lang">>
                      [] h = "X-Drupal-Cache" -> <<"HIT">> [] h = "X-Generator" -> <<"">>]],
    [whole |-> TRUE, head |-> "links", body |-> "", headers |-> [h \in {"Link"} |-> <<"links">>]] }
==============================================================================
