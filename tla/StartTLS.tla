------------------------------ MODULE StartTLS ------------------------------
(***************************************************************************)
(* startTLS and socks5Connect: the plaintext conversation that comes       *)
(* before TLS on ports where TLS has to be asked for, and with a proxy.    *)
(* The client follows a script of reads and writes; the server answers as  *)
(* its protocol allows, or refuses, or stops, or never comes to the end of *)
(* a reply.                                                                *)
(*                                                                         *)
(* What travels is a sequence of tokens: a line, an element, a packet, cut *)
(* only where a reader decides something.  A token waits on the wire until *)
(* the client's bufio.Reader fills from the socket and takes all that has  *)
(* arrived, so every division of a reply into segments is a behaviour.     *)
(***************************************************************************)
EXTENDS Framing, SequencesExt

CONSTANTS Protocols,  \* of StartTLSProtocols, and SOCKS5: those to talk
          LineLimit,  \* lines expectFTP reads after the first: 100
          SeenLimit,  \* what readUntil reads at most: 16384 bytes, here tokens
          Banner,     \* extra tokens a server with something to say puts in
          Talk        \* and how many one that never ends does, for TLC

StartTLSProtocols ==
  {"smtp", "imap", "postgres", "mysql", "ftp", "nntp", "ldap", "xmpp"}

Proxied == {"socks5", "socks5-unnameable"}

ASSUME BoundsAssumption ==
  /\ Protocols \subseteq StartTLSProtocols \cup Proxied
  /\ LineLimit \in Nat \ {0} /\ SeenLimit \in Nat \ {0}
  /\ Banner \in Nat /\ Talk \in Nat

\* What an orderly server has to say ends before the client gives up on it,
\* with the three lines and the four elements of the replies below.
ASSUME BannerAssumption == Banner + 1 < LineLimit /\ Banner + 3 < SeenLimit

VARIABLES
  proto,   \* the protocol of this conversation
  pc,      \* the client's: talking, upgraded or failed
  step,    \* where it is in its script
  got,     \* what the read in progress has consumed
  br,      \* what its bufio.Reader holds
  wire,    \* what the server has sent and the client has not read
  asked,   \* messages the client has written
  heard,   \* messages the server has read
  told,    \* replies the server has begun
  say,     \* what is left to send of the one it is on
  chat,    \* tokens it has added of its own
  manner,  \* what sort of server it is
  refused, \* it has said no
  late     \* the deadline on the socket has passed

client == <<pc, step, got, br, asked>>
server == <<heard, told, say, chat, manner, refused>>
vars == <<proto, client, wire, server, late>>

Line(text, sep) == [text |-> text, sep |-> sep]
Word(text) == Line(text, "none")

----------------------------------------------------------------------------
(* The readers: what a read makes of the tokens it has consumed.  Each is  *)
(* asked again after every token and says more, ok or fail.                *)

expectSMTP(code, s) ==
  IF Last(s).text # code THEN "fail"
  ELSE IF Last(s).sep = "space" THEN "ok"
  ELSE "more"

\* Mutant: every line has to carry the code, as SMTP's do.
expectFTPStrictly(code, s) == expectSMTP(code, s)

\* Mutant: the first line is the reply.
expectFTPLine(code, s) == IF Last(s).text = code THEN "ok" ELSE "fail"

\* The lines after a dash carry anything, up to one with the code and a space.
expectFTP(code, s) ==
  IF Head(s).text # code \/ Head(s).sep \notin {"space", "dash"} THEN "fail"
  ELSE IF Last(s) = Line(code, "space") THEN "ok"
  ELSE IF Len(s) = 1 + LineLimit THEN "fail"
  ELSE "more"

oneOf(texts, s) == IF Last(s).text \in texts THEN "ok" ELSE "fail"

\* Mutant: waits for the yes, whatever else is said.
imapTaggedOK(s) == IF Last(s).text = "a1-OK" THEN "ok" ELSE "more"

\* Untagged lines may come before the tagged answer.
imapTagged(s) ==
  CASE Last(s).text = "a1-OK" -> "ok"
    [] Last(s).text = "a1-NO" -> "fail"
    [] OTHER                  -> "more"

readUntil(markers, s) ==
  IF Last(s).text \in markers THEN "ok"
  ELSE IF Len(s) = SeenLimit THEN "fail"
  ELSE "more"

\* What a read up to a marker must have seen for the conversation to go on.
seenIn(must, verdict, s) ==
  IF verdict = "ok" /\ \A i \in DOMAIN s : s[i].text # must THEN "fail"
  ELSE verdict

features(s) ==
  seenIn("<starttls",
         readUntil({"</stream:features>", "<stream:error", "</stream:stream>"}, s), s)

proceed(s) ==
  seenIn("<proceed", readUntil({"<proceed", "<failure", "</stream:stream>"}, s), s)

\* The next >, whatever it ends: every token that has one at its end.
elementEnd(s) ==
  readUntil({"/>", ">", "<stream:stream>", "<mechanism>", "</proceed>",
             "</stream:features>", "</stream:stream>"}, s)

ldapBody ==
  [text \in {"yes", "yes-long", "no", "no-long", "cut"} |->
     CASE text = "yes" ->
            <<2, 1, 1, 120, 7, 10, 1, 0, 4, 0, 4, 0>>
       [] text = "yes-long" ->
            <<2, 129, 1, 1, 120, 130, 0, 7, 10, 1, 0, 4, 0, 4, 0>>
       [] text = "no" ->
            <<2, 1, 1, 120, 7, 10, 1, 53, 4, 0, 4, 0>>
       [] text = "no-long" ->
            <<2, 1, 1, 120, 129, 7, 10, 1, 2, 4, 0, 4, 0>>
       [] text = "cut" -> <<2, 1, 1, 120, 7, 10>>]

mysqlPayload ==
  [text \in {"with-TLS", "without-TLS", "ERR", "cut"} |->
     CASE text = "with-TLS" ->
            <<10, 56, 0, 1, 2, 3, 4, 9, 9, 9, 9, 9, 9, 9, 9, 0, 255, 255>>
       [] text = "without-TLS" ->
            <<10, 56, 0, 1, 2, 3, 4, 9, 9, 9, 9, 9, 9, 9, 9, 0, 255, 247>>
       [] text = "ERR" -> <<255, 105, 4, 72>>
       [] text = "cut" -> <<10, 56, 0, 1, 2>>]

\* A SEQUENCE: its tag, a length of its own if its form is long, its contents.
berValue(s) ==
  IF s[1].text # "0x30" \/ s[1].sep = "bad" THEN "fail"
  ELSE IF Len(s) = 1 THEN "more"
  ELSE IF s[2].text = "length" /\ s[2].sep = "huge" THEN "fail"
  ELSE IF s[2].text = "length" /\ Len(s) = 2 THEN "more"
  ELSE IF ldapAccepts(ldapBody[Last(s).text]) THEN "ok"
  ELSE "fail"

\* A header, then the payload it counts.
mysqlPacket(s) ==
  IF s[1].sep \in {"empty", "huge"} THEN "fail"
  ELSE IF Len(s) = 1 THEN "more"
  ELSE IF mysqlOffersTLS(mysqlPayload[Last(s).text]) THEN "ok"
  ELSE "fail"

\* The version and the method are both read before either is looked at.
socks5Method(s) ==
  CASE Len(s) = 1                          -> "more"
    [] s = <<Word("5"), Word("no-auth")>> -> "ok"
    [] OTHER                               -> "fail"

\* The bound address is as long as its type says, and a port comes after it.
socks5Reply(s) ==
  IF s[1].text # "granted" \/ s[1].sep \notin {"IPv4", "name", "IPv6"} THEN "fail"
  ELSE IF Len(s) = (IF s[1].sep = "name" THEN 4 ELSE 3) THEN "ok"
  ELSE "more"

----------------------------------------------------------------------------
(* The client's side of each conversation.                                 *)

Read(how, code) == [do |-> "read", how |-> how, code |-> code]
Write == [do |-> "write", how |-> "none", code |-> "none"]

smtp == <<Read("smtp", "220"), Write, Read("smtp", "250"), Write,
          Read("smtp", "220")>>

imap == <<Read("greeting", "*OK"), Write, Read("tagged", "none")>>

ftp == <<Read("ftp", "220"), Write, Read("ftp", "234")>>

nntp == <<Read("news", "none"), Write, Read("smtp", "382")>>

startTLSLDAP == <<Write, Read("ldap", "none")>>

\* Mutant: stops at the start of the <proceed/> element.
xmppHalfAnElement == <<Write, Read("features", "none"), Write, Read("proceed", "none")>>

startTLSXMPP == <<Write, Read("features", "none"), Write, Read("proceed", "none"),
                  Read("end", "none")>>

startTLSMySQL == <<Read("mysql", "none"), Write>>

postgres == <<Write, Read("byte", "S")>>

socks5Connect == <<Write, Read("method", "none"), Write, Read("connect", "none")>>

\* Of a host longer than a byte counts, or a port that is no number, the
\* request is never written.
socks5Unnameable == <<Write, Read("method", "none"), [Write EXCEPT !.do = "give-up"]>>

Script(p) ==
  CASE p = "smtp"  -> smtp
    [] p = "imap"  -> imap
    [] p = "ftp"   -> ftp
    [] p = "nntp"  -> nntp
    [] p = "ldap"  -> startTLSLDAP
    [] p = "xmpp"  -> startTLSXMPP
    [] p = "mysql" -> startTLSMySQL
    [] p = "postgres" -> postgres
    [] p = "socks5" -> socks5Connect
    [] p = "socks5-unnameable" -> socks5Unnameable

\* What the read r makes of s.
Reads(r, s) ==
  CASE r.how = "smtp"     -> expectSMTP(r.code, s)
    [] r.how = "ftp"      -> expectFTP(r.code, s)
    [] r.how = "greeting" -> oneOf({r.code}, s)
    [] r.how = "byte"     -> oneOf({r.code}, s)
    [] r.how = "news"     -> oneOf({"200", "201"}, s)
    [] r.how = "tagged"   -> imapTagged(s)
    [] r.how = "features" -> features(s)
    [] r.how = "proceed"  -> proceed(s)
    [] r.how = "end"      -> elementEnd(s)
    [] r.how = "ldap"     -> berValue(s)
    [] r.how = "mysql"    -> mysqlPacket(s)
    [] r.how = "method"   -> socks5Method(s)
    [] r.how = "connect"  -> socks5Reply(s)

Now == Script(proto)[step]
Reading == pc = "talking" /\ Now.do = "read"

\* The next step of the script, or TLS if there is none.
Advance ==
  /\ step' = step + 1
  /\ pc' = IF step = Len(Script(proto)) THEN "upgraded" ELSE "talking"

Send ==
  /\ pc = "talking"
  /\ Now.do = "write"
  /\ ~late
  /\ asked' = asked + 1
  /\ Advance
  /\ UNCHANGED <<proto, got, br, wire, server, late>>

SendFails ==
  /\ pc = "talking"
  /\ Now.do = "write"
  /\ manner = "closed" \/ late
  /\ pc' = "failed"
  /\ UNCHANGED <<proto, step, got, br, asked, wire, server, late>>

GiveUp ==
  /\ pc = "talking"
  /\ Now.do = "give-up"
  /\ pc' = "failed"
  /\ UNCHANGED <<proto, step, got, br, asked, wire, server, late>>

\* The buffer is empty: one Read from the socket takes what has arrived.  The
\* proxy's replies are read without a buffer, to their last byte.
Fill ==
  /\ Reading
  /\ br = << >> /\ wire # << >>
  /\ ~late
  /\ LET n == IF proto \in Proxied THEN 1 ELSE Len(wire)
     IN br' = SubSeq(wire, 1, n) /\ wire' = SubSeq(wire, n + 1, Len(wire))
  /\ UNCHANGED <<proto, pc, step, got, asked, server, late>>

Consume ==
  /\ Reading
  /\ br # << >>
  /\ br' = Tail(br)
  /\ LET s == Append(got, Head(br))
         verdict == Reads(Now, s)
     IN /\ got' = IF verdict = "more" THEN s ELSE << >>
        /\ CASE verdict = "ok"   -> Advance
             [] verdict = "fail" -> pc' = "failed" /\ UNCHANGED step
             [] OTHER            -> UNCHANGED <<pc, step>>
  /\ UNCHANGED <<proto, asked, wire, server, late>>

\* Nothing buffered, and the socket has an error instead of bytes.
ReadFails ==
  /\ Reading
  /\ br = << >>
  /\ late \/ (manner = "closed" /\ wire = << >>)
  /\ pc' = "failed"
  /\ UNCHANGED <<proto, step, got, br, asked, wire, server, late>>

----------------------------------------------------------------------------
(* The server.                                                             *)

SpeaksFirst == {"smtp", "imap", "ftp", "nntp", "mysql"}

\* The replies it owes by now.
Due == heard + IF proto \in SpeaksFirst THEN 1 ELSE 0

\* A reply of one line, or of two around a banner.
Lines(code, rest) ==
  {<<Line(code, "space")>>, <<Line(code, "dash"), rest, Line(code, "space")>>}

\* The replies that carry on with the upgrade, in the order they are due.
Yes(p) ==
  CASE p = "smtp" -> <<Lines("220", Line("220", "dash")), Lines("250", Line("250", "dash")),
                       Lines("220", Line("220", "dash"))>>
    [] p = "imap" -> <<{<<Word("*OK")>>},
                       {<<Word("a1-OK")>>, <<Word("*CAPABILITY"), Word("a1-OK")>>}>>
    [] p = "ftp"  -> <<Lines("220", Word("terms")), Lines("234", Word("so-be-it"))>>
    [] p = "nntp" -> <<{<<Line("200", "space")>>, <<Line("201", "space")>>}, {<<Line("382", "space")>>}>>
    [] p = "ldap" -> <<{<<Line("0x30", "short"), Word("yes")>>,
                        <<Line("0x30", "long"), Line("length", "none"), Word("yes-long")>>}>>
    [] p = "xmpp" -> <<{<<Word("<stream:stream>"), Word("<starttls"), Word("/>"),
                          Word("</stream:features>")>>},
                       {<<Word("<proceed"), Word("/>")>>,
                        <<Word("<proceed"), Word(">"), Word("</proceed>")>>}>>
    [] p = "mysql" -> <<{<<Line("header", "none"), Word("with-TLS")>>}>>
    [] p = "postgres" -> <<{<<Word("S")>>}>>
    [] p \in Proxied -> <<{<<Word("5"), Word("no-auth")>>},
                          {<<Line("granted", type), Word("address"), Word("port")>> : type \in {"IPv4", "IPv6"}}
                          \cup {<<Line("granted", "name"), Word("length"), Word("address"), Word("port")>>}>>

\* The ones that say no, or that are of another protocol.
No(p) ==
  CASE p = "smtp" -> <<{<<Line("554", "space")>>}, {<<Line("502", "space")>>}, {<<Line("454", "space")>>}>>
    [] p = "imap" -> <<{<<Word("*BYE")>>}, {<<Word("a1-NO")>>, <<Word("*ALERT"), Word("a1-NO")>>}>>
    [] p = "ftp"  -> <<{<<Line("421", "space")>>}, {<<Line("534", "space")>>, <<Line("502", "dash"), Word("no"), Line("502", "space")>>}>>
    [] p = "nntp" -> <<{<<Line("400", "space")>>}, {<<Line("580", "space")>>}>>
    [] p = "ldap" -> <<{<<Line("0x30", "short"), Word("no")>>,
                        <<Line("0x30", "long"), Line("length", "none"), Word("no-long")>>,
                        <<Line("0x30", "long"), Line("length", "huge")>>,
                        <<Line("0x30", "bad")>>, <<Line("HTTP", "none")>>,
                        <<Line("0x30", "short"), Word("cut")>>}>>
    [] p = "xmpp" -> <<{<<Word("<stream:stream>"), Word("</stream:features>")>>,
                        <<Word("<stream:stream>"), Word("<stream:error"), Word("</stream:stream>")>>},
                       {<<Word("<failure"), Word("/>"), Word("</stream:stream>")>>}>>
    [] p = "mysql" -> <<{<<Line("header", "none"), Word(t)>> : t \in {"without-TLS", "ERR", "cut"}}
                        \cup {<<Line("header", "empty")>>, <<Line("header", "huge")>>}>>
    [] p = "postgres" -> <<{<<Word("N")>>, <<Word("E")>>}>>
    [] p \in Proxied -> <<{<<Word("5"), Word("password")>>, <<Word("HTTP"), Word("/1.1")>>},
                          {<<Line("denied", "IPv4"), Word("address"), Word("port")>>,
                           <<Line("granted", "unknown")>>}>>

\* It has a reply to begin.
Owes == told < Due /\ told < Len(Yes(proto)) /\ ~refused

\* What may stand between the name of a tag and its end.
InsideTag == {"attribute", "/>", ">"}

\* One more token of the kind that may stand before what is next: a line, an
\* element, or in a tag an attribute.
Filler ==
  CASE proto = "smtp" -> Line(Head(say).text, "dash")
    [] proto = "ftp"  -> Word("terms")
    [] proto = "imap" -> Word("*CAPABILITY")
    [] OTHER          -> Word(IF Head(say).text \in InsideTag THEN "attribute"
                              ELSE "<mechanism>")

BeginReply ==
  /\ manner \in {"orderly", "endless"}
  /\ Owes /\ say = << >>
  /\ \E no \in BOOLEAN :
       \E r \in (IF no THEN No(proto) ELSE Yes(proto))[told + 1] :
          /\ wire' = Append(wire, Head(r))
          /\ say' = Tail(r)
          /\ refused' = no
  /\ told' = told + 1
  /\ UNCHANGED <<proto, client, heard, chat, manner, late>>

Continue ==
  /\ manner = "orderly"
  /\ say # << >>
  /\ wire' = Append(wire, Head(say))
  /\ say' = Tail(say)
  /\ UNCHANGED <<proto, client, heard, told, chat, manner, refused, late>>

\* A longer banner, more untagged lines, more features or attributes.  There is
\* nothing in a <proceed> of two tags.
Chatter ==
  /\ proto \in {"smtp", "ftp", "imap", "xmpp"}
  /\ say # << >> /\ Head(say) # Word("</proceed>")
  /\ chat < (IF manner = "endless" THEN Talk ELSE Banner)
  /\ manner \in {"orderly", "endless"}
  /\ chat' = chat + 1
  /\ wire' = Append(wire, Filler)
  /\ UNCHANGED <<proto, client, heard, told, say, manner, refused, late>>

Hear ==
  /\ manner \in {"orderly", "endless"}
  /\ heard < asked
  /\ say = << >>
  /\ heard' = heard + 1
  /\ UNCHANGED <<proto, client, wire, told, say, chat, manner, refused, late>>

\* It goes away, with or without closing the connection.
Leave ==
  /\ manner = "orderly"
  /\ manner' \in {"closed", "silent"}
  /\ UNCHANGED <<proto, client, wire, heard, told, say, chat, refused, late>>

DeadlinePasses ==
  /\ pc = "talking"
  /\ ~late
  /\ late' = TRUE
  /\ UNCHANGED <<proto, client, wire, server>>

Init ==
  /\ proto \in Protocols
  /\ pc = "talking"
  /\ step = 1
  /\ got = << >> /\ br = << >> /\ wire = << >> /\ say = << >>
  /\ asked = 0 /\ heard = 0 /\ told = 0 /\ chat = 0
  /\ manner \in {"orderly", "endless"}
  /\ refused = FALSE
  /\ late = FALSE

Client == Send \/ SendFails \/ GiveUp \/ Fill \/ Consume \/ ReadFails

Server == BeginReply \/ Continue \/ Chatter \/ Hear \/ Leave

Over == pc # "talking" /\ UNCHANGED vars

Next == Client \/ Server \/ DeadlinePasses \/ Over

Spec == Init /\ [][Next]_vars

----------------------------------------------------------------------------
(* Properties.                                                             *)

TypeOK ==
  /\ proto \in Protocols
  /\ pc \in {"talking", "upgraded", "failed"}
  /\ step \in 1..(Len(Script(proto)) + 1)
  /\ heard <= asked /\ asked <= 2
  /\ told <= Len(Yes(proto))
  /\ manner \in {"orderly", "endless", "closed", "silent"}
  /\ refused \in BOOLEAN /\ late \in BOOLEAN

\* TLS starts on a clean line: of the reply that ended the conversation, the
\* server has nothing left to send and the socket nothing left to read, in
\* whatever segments it came.  A tail left behind is a record that is not
\* TLS, an abrupt kind, and a wall in the verdict.  It is what startTLSXMPP
\* says of its last read, and not so: that one stops at the first >, and a
\* <proceed> written in two tags has another one coming.
NothingLeftForTLS == pc = "upgraded" => wire = << >> /\ say = << >>

\* TLS starts on a line as clean as the last read leaves it: of every other
\* reply, in whatever segments it came, nothing is left, and of a <proceed> in
\* two tags the second one at the most.
OnlyAnEndTagIsLeft ==
  pc = "upgraded" => \/ wire = << >> /\ say = << >>
                     \/ proto = "xmpp" /\ wire \o say = <<Word("</proceed>")>>

\* TLS starts only where the server, in the end, said yes.
UpgradeIsAgreed == pc = "upgraded" => ~refused /\ told = Len(Yes(proto))

\* A server that keeps to its protocol, and has not refused, is never taken
\* for one that did: only the clock can end the conversation with it, or a
\* name that cannot be asked for.
YesIsUnderstood ==
  pc = "failed" /\ manner = "orderly" => refused \/ late \/ Now.do = "give-up"

\* Client and server never wait for each other: if the client is out of bytes
\* in the middle of a read, the server still has something to say, or has
\* something of the client's to hear first.  Two replies a server may give are
\* not among Yes and No, and would leave both waiting: an SMTP reply of the
\* bare code, without the space, and a <stream:features/> with nothing in it.
NotBothWaiting ==
  Reading /\ br = << >> /\ wire = << >> /\ manner = "orderly" =>
     say # << >> \/ heard < asked \/ Owes

\* The client does not talk over the server: what it has sent and the server
\* has not read was sent when the last reply had been read to its end.
SpeaksInTurn == heard < asked => say = << >> /\ wire = << >> /\ br = << >>

\* An FTP banner or an XMPP stream without an end is given up on by count, long
\* before the clock.  An SMTP banner and IMAP's untagged lines are not counted:
\* the clock alone ends them.
BannersAreBounded ==
  /\ proto = "ftp"  => Len(got) <= LineLimit
  /\ proto = "xmpp" => Len(got) < SeenLimit

\* The state is well formed, and the conversation stays one: in turns, each
\* of them with an end.
TalkInv == TypeOK /\ SpeaksInTurn /\ BannersAreBounded
=============================================================================
