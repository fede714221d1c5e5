-------------------------------- MODULE Banner --------------------------------
(***************************************************************************)
(* The banner fingerprinter (banner_fingerprinter.go, ports.go): how a     *)
(* port is probed, what the probe reads, and what is made of it.           *)
(*                                                                         *)
(* Texts - software names, words, header values, pages - are opaque, in     *)
(* lower case.  A server is [tls, greets, banner]: whether it speaks TLS,  *)
(* whether it talks before the client does, and what it says.  A banner is *)
(* [proto, soft, version, words]: its leading bytes ("SSH", "HTTP", "220", *)
(* "+OK", "* OK", "" for anything else or nothing); <<>> or <<the software *)
(* it names>>, <<"">> for a place without a name in it; the components of  *)
(* its version; and the words of a 220 greeting.                           *)
(***************************************************************************)
EXTENDS Integers, Sequences

CONSTANTS
  Holds,        \* Holds[text]: the patterns the text contains
  Fragments     \* Fragments[text]: the beginnings of it that a read may end with

\* The beginning of a text contains no more than the text.
ASSUME TextsAssumption ==
  /\ "" \notin DOMAIN Holds
  /\ \A text \in DOMAIN Fragments : \A part \in Fragments[text] :
       /\ part \in STRING /\ part # ""
       /\ part \in DOMAIN Holds =>
            text \in DOMAIN Holds /\ Holds[part] \subseteq Holds[text]

Has(text, pattern) == text \in DOMAIN Holds /\ pattern \in Holds[text]

defaultHTTPPorts == {80, 8080, 8888}
defaultHTTPSPorts == {443, 8443}

Nothing == [proto |-> "", soft |-> <<>>, version |-> <<>>, words |-> <<>>]

\* What is left of a text, of a number (of up to five digits) and of a
\* component "n-..." that is not a number, when a read ends inside it.
Cut(text) == {""} \cup IF text \in DOMAIN Fragments THEN Fragments[text] ELSE {}
CutDigits(n) == {n \div d : d \in {10, 100, 1000, 10000}} \ {0}
CutNumber(c) == IF c >= 0 THEN CutDigits(c) ELSE {c, -(c + 1)} \cup CutDigits(-(c + 1))

\* The beginnings of a sequence: its first items, the last one whole or cut.
Beginnings(s, Piece(_)) ==
  {SubSeq(s, 1, k) : k \in 0..Len(s)}
  \cup UNION {{Append(SubSeq(s, 1, k - 1), x) : x \in Piece(s[k])} : k \in DOMAIN s}

\* readBanner keeps what arrived before the deadline, the limit or a reset: a
\* read may end at any byte, inside the leading bytes, the name, the version or
\* a word.
Prefixed(b) ==
  {Nothing}
  \cup {[b EXCEPT !.soft = s, !.version = <<>>, !.words = <<>>] : s \in Beginnings(b.soft, Cut)}
  \cup {[b EXCEPT !.version = v] : v \in Beginnings(b.version, CutNumber)}
  \cup {[b EXCEPT !.words = w] : w \in Beginnings(b.words, Cut)}

NoBanner == <<>>

grabHTTPSBanner(server) ==
  {NoBanner} \cup IF server.tls THEN {<<b>> : b \in Prefixed(server.banner)} ELSE {}

\* Plain text sent to a TLS server is answered with an alert, at most.
grabHTTPBanner(server) ==
  {NoBanner} \cup IF server.tls THEN {<<Nothing>>} ELSE {<<b>> : b \in Prefixed(server.banner)}

\* Nothing is sent: a server that waits for its client stays silent.
grabRawBanner(server) ==
  {NoBanner} \cup IF server.greets /\ ~server.tls THEN {<<b>> : b \in Prefixed(server.banner)}
                  ELSE {<<Nothing>>}

\* What the probe of a port may read: <<>> for an error, <<banner>> if it connected.
Grabs(server, port) ==
  IF port \in defaultHTTPSPorts THEN grabHTTPSBanner(server)
  ELSE IF port \in defaultHTTPPorts THEN grabHTTPBanner(server)
  ELSE grabRawBanner(server)

Service(name, version) == [name |-> name, version |-> version]

\* Whatever stands before the "_" or the "/" is the name, whole or not.
parseSSHBanner(b) ==
  IF b.soft \in {<<>>, <<"">>} THEN Service("ssh", <<>>) ELSE Service(b.soft[1], b.version)

parseHTTPBannerZero(b) ==   \* mutant: a missing version counts as version zero
  IF b.soft = <<>> THEN Service("http", <<>>)
  ELSE Service(b.soft[1], IF b.version = <<>> THEN <<0>> ELSE b.version)

parseHTTPBanner(b) ==
  IF b.soft = <<>> THEN Service("http", <<>>) ELSE Service(b.soft[1], b.version)

smtpKeywords == {"postfix", "sendmail", "esmtp"}
ftpKeywords == {"proftpd", "vsftpd", "pure-ftpd", "ftp"}
Says(b, keywords) == \E k \in DOMAIN b.words : \E w \in keywords : Has(b.words[k], w)

parseFTPFirst(b) ==   \* mutant: the FTP keywords are tried first
  IF Says(b, ftpKeywords) THEN Service("ftp", <<>>)
  ELSE IF Says(b, smtpKeywords) THEN Service("smtp", <<>>) ELSE Service("", <<>>)

\* SMTP first: "ftp" may be part of a mail server's host name.
parseFTPSMTPBanner(b) ==
  IF Says(b, smtpKeywords) THEN Service("smtp", <<>>)
  ELSE IF Says(b, ftpKeywords) THEN Service("ftp", <<>>) ELSE Service("", <<>>)

parsePOP3Banner(b) == Service("pop3", <<>>)
parseIMAPBanner(b) == Service("imap", <<>>)

parseServiceBanner(b) ==
  CASE b.proto = "SSH"  -> parseSSHBanner(b)
    [] b.proto = "HTTP" -> parseHTTPBanner(b)
    [] b.proto = "220"  -> parseFTPSMTPBanner(b)
    [] b.proto = "+OK"  -> parsePOP3Banner(b)
    [] b.proto = "* OK" -> parseIMAPBanner(b)
    [] OTHER            -> Service("", <<>>)
===============================================================================
