---------------------------- MODULE StartTLSProofs ----------------------------
(***************************************************************************)
(* The conversation before TLS: that it is had in turns, that the upgrade  *)
(* is agreed on and leaves nothing of the server's behind, for any length  *)
(* of banner and any limit, and every way of cutting replies into          *)
(* segments.  And what berField promises the code that slices with its     *)
(* answer, for every message and every offset.                             *)
(***************************************************************************)
EXTENDS StartTLS, SequenceTheorems, TLAPS

----------------------------------------------------------------------------
(* berField.                                                               *)

\* What is in a message is a byte.
LEMMA ByteAt ==
  ASSUME NEW b \in Seq(Byte), NEW i \in 1..Len(b)
  PROVE  b[i] \in Nat /\ b[i] <= 255
<1>1. b[i] \in Byte
  OBVIOUS
<1>2. \A x \in Byte : x \in Nat /\ x <= 255
  BY DEF Byte
<1> QED
  BY <1>1, <1>2

\* The lengths berField adds up are numbers, of one, two or three bytes.
LEMMA BigEndianIsNat ==
  ASSUME NEW b \in Seq(Byte), NEW at \in Nat, NEW count \in 1..3,
         at + count <= Len(b)
  PROVE  BigEndian(b, at, count) \in Nat
<1>1. CASE count = 1
  <2>1. at + 1 \in 1..Len(b)
    BY <1>1
  <2>2. b[at + 1] \in Nat
    BY <2>1, ByteAt
  <2>3. BigEndian(b, at, count) = b[at + 1]
    BY <1>1 DEF BigEndian
  <2> QED
    BY <2>2, <2>3
<1>2. CASE count = 2
  <2>1. at + 1 \in 1..Len(b) /\ at + 2 \in 1..Len(b)
    BY <1>2
  <2>2. b[at + 1] \in Nat /\ b[at + 2] \in Nat
    BY <2>1, ByteAt
  <2>3. BigEndian(b, at, count) = 256 * b[at + 1] + b[at + 2]
    BY <1>2 DEF BigEndian
  <2> QED
    BY <2>2, <2>3
<1>3. CASE count = 3
  <2>1. at + 1 \in 1..Len(b) /\ at + 2 \in 1..Len(b) /\ at + 3 \in 1..Len(b)
    BY <1>3
  <2>2. b[at + 1] \in Nat /\ b[at + 2] \in Nat /\ b[at + 3] \in Nat
    BY <2>1, ByteAt
  <2>3. BigEndian(b, at, count) = 256 * (256 * b[at + 1] + b[at + 2]) + b[at + 3]
    BY <1>3 DEF BigEndian
  <2>4. \A x, y, z \in Nat : 256 * (256 * x + y) + z \in Nat
    OBVIOUS
  <2>5. 256 * (256 * b[at + 1] + b[at + 2]) + b[at + 3] \in Nat
    BY <2>2, <2>4, SMTT(30)
  <2> QED
    BY <2>3, <2>5
<1> QED
  BY <1>1, <1>2, <1>3

\* Contents of n bytes are taken only where the message has them.
LEMMA ContentsInside ==
  ASSUME NEW b \in Seq(Byte), NEW start \in Nat, NEW n \in Nat,
         Contents(b, start, n).ok
  PROVE  /\ Contents(b, start, n).start = start
         /\ Contents(b, start, n).next \in start..Len(b)
<1>1. CASE start + n > Len(b)
  BY <1>1 DEF Contents, NoField
<1>2. CASE ~(start + n > Len(b))
  BY <1>2 DEF Contents
<1> QED
  BY <1>1, <1>2

\* Whatever bytes a peer sends and wherever a field is looked for, berField
\* fails or answers with a piece of the message: the slice the code takes is
\* never out of range, and the next offset is past the header just read.
THEOREM FieldIsInside ==
  ASSUME NEW b \in Seq(Byte), NEW off \in Nat, berField(b, off).ok
  PROVE  /\ off + 2 <= berField(b, off).start
         /\ berField(b, off).start <= berField(b, off).next
         /\ berField(b, off).next <= Len(b)
<1> DEFINE start == off + 2
           count == b[start] - 128
<1>1. start \in 1..Len(b)
  BY DEF berField, NoField
<1>2. b[start] \in Nat
  BY <1>1, ByteAt
<1>3. CASE b[start] < 128
  <2>1. berField(b, off) = Contents(b, start, b[start])
    BY <1>1, <1>3 DEF berField
  <2> QED
    BY <2>1, <1>1, <1>2, ContentsInside
<1>4. CASE ~(b[start] < 128)
  <2>1. count \in 1..3 /\ start + count <= Len(b)
    BY <1>1, <1>2, <1>4 DEF berField, NoField
  <2>2. berField(b, off) = Contents(b, start + count, BigEndian(b, start, count))
    BY <1>1, <1>2, <1>4, <2>1 DEF berField
  <2>3. BigEndian(b, start, count) \in Nat
    BY <2>1, <1>1, BigEndianIsNat
  <2> QED
    BY <2>1, <2>2, <2>3, <1>1, ContentsInside, SMTT(30)
<1> QED
  BY <1>3, <1>4
----------------------------------------------------------------------------
(* The inductive invariant.                                                *)

Texts ==
  {"220", "250", "554", "502", "454", "234", "421", "534", "terms", "so-be-it",
   "200", "201", "382", "400", "580",
   "*OK", "a1-OK", "*CAPABILITY", "*BYE", "a1-NO", "*ALERT",
   "0x30", "length", "yes", "yes-long", "no", "no-long", "cut", "HTTP",
   "<stream:stream>", "<starttls", "/>", "</stream:features>", "<proceed",
   "<stream:error", "</stream:stream>", "<failure", "<mechanism>",
   "attribute", ">", "</proceed>",
   "header", "with-TLS", "without-TLS", "ERR", "S", "N", "E",
   "5", "no-auth", "password", "/1.1", "granted", "denied", "address", "port"}

Token ==
  [text : Texts,
   sep : {"none", "space", "dash", "short", "long", "bad", "huge", "empty",
          "IPv4", "IPv6", "name", "unknown"}]

\* What the client has of the server's, or is still to get, since the last
\* reply it read to the end; and the part of it that has been sent.
Sent == got \o br \o wire
Whole == Sent \o say

\* The messages a client has written when it comes to step st.
AskedBy(p, st) ==
  IF p \in SpeaksFirst THEN (st - 1) \div 2
  ELSE IF p = "xmpp" /\ st >= 5 THEN 2 ELSE st \div 2

First(p) == IF p \in SpeaksFirst THEN 1 ELSE 0

\* The reply that step st is about.
Nth(p, st) == AskedBy(p, st) + First(p)

\* A reply that ends in a token of ends, and has only mids before it.
EndsIn(s, mids, ends) ==
  /\ s # << >>
  /\ s[Len(s)] \in ends
  /\ \A i \in 1..Len(s) - 1 : s[i] \in mids

\* The second tag of a <proceed> that has two.
EndTag == <<Word("</proceed>")>>

\* The end of an element of one tag, or of two with nothing in between.
RestOfElement(s, n) ==
  \/ EndsIn(s, {Word("attribute")}, {Word("/>")}) /\ Len(s) <= 1 + n
  \/ /\ Len(s) \in 2..2 + n /\ s[Len(s)] = Word("</proceed>") /\ s[Len(s) - 1] = Word(">")
     /\ \A i \in 1..Len(s) - 2 : s[i] = Word("attribute")

\* FTP's replies end with the code they began with.
FTPReply(s, code, n) ==
  /\ s # << >>
  /\ s[1] \in {Line(code, "dash"), Line(code, "space")}
  /\ s[Len(s)] = Line(code, "space")
  /\ \A i \in 1..Len(s) - 1 : s[i] # Line(code, "space")
  /\ Len(s) <= 3 + n

Tagged(s, no) ==
  EndsIn(s, {Word("*CAPABILITY"), Word("*ALERT")}, {Word(IF no THEN "a1-NO" ELSE "a1-OK")})

\* Features with the upgrade among them, and without.
Offer(s, n) ==
  /\ EndsIn(s, {Word("<stream:stream>"), Word("<starttls"), Word("/>"),
                Word("<mechanism>"), Word("attribute")},
               {Word("</stream:features>")})
  /\ \E i \in 1..Len(s) : s[i] = Word("<starttls")
  /\ Len(s) <= 4 + n

NoOffer(s) ==
  /\ s # << >>
  /\ s[Len(s)] \in {Word("</stream:features>"), Word("</stream:stream>")}
  /\ \A i \in 1..Len(s) : s[i].text # "<starttls"

\* s is what is left of a reply to the read at step st, with n tokens more in
\* it than it needs, and says no.
Fits(p, st, s, no, n) ==
  LET code == Script(p)[st].code
  IN CASE p = "smtp" /\ ~no -> EndsIn(s, {Line(code, "dash")}, {Line(code, "space")})
       [] p = "ftp" /\ ~no -> FTPReply(s, code, n)
       [] p = "ftp" /\ no -> s # << >> /\ s[1].text # code
       [] p = "imap" /\ st = 3 -> Tagged(s, no)
       [] p = "xmpp" /\ st = 2 -> IF no THEN NoOffer(s) ELSE Offer(s, n)
       [] p = "xmpp" /\ st = 4 /\ ~no ->
            s # << >> /\ s[1] = Word("<proceed") /\ RestOfElement(Tail(s), n)
       [] p = "xmpp" /\ st = 4 /\ no -> s # << >> /\ s[1] = Word("<failure")
       [] p = "xmpp" /\ st = 5 -> ~no /\ RestOfElement(s, n)
       [] OTHER -> s \in (IF no THEN No(p) ELSE Yes(p))[Nth(p, st)]

Typed ==
  /\ proto \in Protocols
  /\ pc \in {"talking", "upgraded", "failed"}
  /\ step \in 1..(Len(Script(proto)) + 1)
  /\ pc = "talking" => step <= Len(Script(proto))
  /\ got \in Seq(Token) /\ br \in Seq(Token) /\ wire \in Seq(Token) /\ say \in Seq(Token)
  /\ asked \in Nat /\ heard \in Nat /\ told \in Nat /\ chat \in Nat
  /\ manner \in {"orderly", "endless", "closed", "silent"}
  /\ refused \in BOOLEAN /\ late \in BOOLEAN
  /\ told <= Len(Yes(proto))

\* Nothing of the server's is anywhere.
Quiet == got = << >> /\ br = << >> /\ wire = << >> /\ say = << >>

\* Messages and replies alternate.
InTurn ==
  /\ asked = AskedBy(proto, step)
  /\ heard <= asked /\ asked <= heard + 1
  /\ told <= Due
  /\ heard < asked => told = Due /\ br = << >> /\ wire = << >> /\ say = << >>

\* The client is at the first read of a reply that has not begun.
Waiting == Quiet /\ ~refused /\ told + 1 = Nth(proto, step) /\ ~(proto = "xmpp" /\ step = 5)

\* It is reading one that has.
InReply ==
  /\ told = Nth(proto, step)
  /\ Fits(proto, step, Whole, refused, chat)
  /\ Sent # << >> \/ (proto = "xmpp" /\ step = 5)
  /\ got # << >> => Reads(Now, got) = "more"
  /\ proto = "xmpp" /\ step = 4 => got = << >>

Settled == Quiet /\ ~refused /\ told = Nth(proto, step)

Conversing ==
  pc = "talking" => IF Now.do = "read" THEN Waiting \/ InReply ELSE Settled

\* TLS comes next, and of the last reply at most that tag is still somewhere.
Upgraded ==
  pc = "upgraded" =>
     /\ got = << >> /\ ~refused /\ told = Len(Yes(proto))
     /\ Whole = << >> \/ (proto = "xmpp" /\ Whole = EndTag)

IInv ==
  /\ Typed /\ InTurn /\ Conversing /\ Upgraded
  /\ manner = "orderly" => chat <= Banner
  /\ YesIsUnderstood /\ BannersAreBounded

----------------------------------------------------------------------------
(* The scripts.                                                            *)

\* What the scripts have in common.  A message is written when the reply before
\* it has been read, and a reply is read in one go, but for the last of XMPP's;
\* at the end of a script, of so many steps, all the replies have been.
Regular(p, st, steps, replies) ==
  LET do == Script(p)[st].do
  IN /\ do \in {"read", "write", "give-up"}
     /\ Nth(p, st) \in 0..replies /\ AskedBy(p, st) \in 0..2
     /\ do = "read" => Nth(p, st) # 0 /\ AskedBy(p, st + 1) = AskedBy(p, st)
     /\ do = "write" => AskedBy(p, st + 1) = AskedBy(p, st) + 1 /\ AskedBy(p, st) < 2
     /\ st = steps /\ do # "give-up" => Nth(p, st) = replies
     /\ st # steps /\ do = "write" => Script(p)[st + 1].do = "read"
     /\ st # steps /\ do = "read" =>
          Script(p)[st + 1].do # "read" \/ (p = "xmpp" /\ st = 4)
     /\ p = "xmpp" /\ st \in {4, 5} => do = "read"

LEMMA Scripts ==
  ASSUME NEW p \in StartTLSProtocols \cup Proxied
  PROVE  /\ Len(Script(p)) \in 2..5
         /\ \A st \in 1..Len(Script(p)) : Regular(p, st, Len(Script(p)), Len(Yes(p)))
<1>1. CASE p = "smtp"
  <2>0. Script(p) = smtp
    BY <1>1 DEF Script, Proxied
  <2>1. Len(smtp) = 5 /\ Len(Yes(p)) = 3
    BY <1>1 DEF smtp, Yes, Proxied
  <2>2. /\ smtp[1].do = "read" /\ smtp[2].do = "write"
        /\ smtp[3].do = "read" /\ smtp[4].do = "write"
        /\ smtp[5].do = "read"
    BY DEF smtp, Read, Write
  <2>3. /\ AskedBy(p, 1) = 0 /\ AskedBy(p, 2) = 0 /\ AskedBy(p, 3) = 1
        /\ AskedBy(p, 4) = 1 /\ AskedBy(p, 5) = 2 /\ AskedBy(p, 6) = 2
        /\ First(p) = 1
    BY <1>1 DEF AskedBy, First, SpeaksFirst
  <2>4. \A st \in 1..5 : Regular(p, st, 5, 3)
    BY <1>1, <2>0, <2>2, <2>3 DEF Regular, Nth
  <2> QED
    BY <2>0, <2>1, <2>4
<1>2. CASE p = "imap"
  <2>0. Script(p) = imap
    BY <1>2 DEF Script, Proxied
  <2>1. Len(imap) = 3 /\ Len(Yes(p)) = 2
    BY <1>2 DEF imap, Yes, Proxied
  <2>2. /\ imap[1].do = "read" /\ imap[2].do = "write"
        /\ imap[3].do = "read"
    BY DEF imap, Read, Write
  <2>3. /\ AskedBy(p, 1) = 0 /\ AskedBy(p, 2) = 0 /\ AskedBy(p, 3) = 1
        /\ AskedBy(p, 4) = 1
        /\ First(p) = 1
    BY <1>2 DEF AskedBy, First, SpeaksFirst
  <2>4. \A st \in 1..3 : Regular(p, st, 3, 2)
    BY <1>2, <2>0, <2>2, <2>3 DEF Regular, Nth
  <2> QED
    BY <2>0, <2>1, <2>4
<1>3. CASE p = "ftp"
  <2>0. Script(p) = ftp
    BY <1>3 DEF Script, Proxied
  <2>1. Len(ftp) = 3 /\ Len(Yes(p)) = 2
    BY <1>3 DEF ftp, Yes, Proxied
  <2>2. /\ ftp[1].do = "read" /\ ftp[2].do = "write"
        /\ ftp[3].do = "read"
    BY DEF ftp, Read, Write
  <2>3. /\ AskedBy(p, 1) = 0 /\ AskedBy(p, 2) = 0 /\ AskedBy(p, 3) = 1
        /\ AskedBy(p, 4) = 1
        /\ First(p) = 1
    BY <1>3 DEF AskedBy, First, SpeaksFirst
  <2>4. \A st \in 1..3 : Regular(p, st, 3, 2)
    BY <1>3, <2>0, <2>2, <2>3 DEF Regular, Nth
  <2> QED
    BY <2>0, <2>1, <2>4
<1>4. CASE p = "nntp"
  <2>0. Script(p) = nntp
    BY <1>4 DEF Script, Proxied
  <2>1. Len(nntp) = 3 /\ Len(Yes(p)) = 2
    BY <1>4 DEF nntp, Yes, Proxied
  <2>2. /\ nntp[1].do = "read" /\ nntp[2].do = "write"
        /\ nntp[3].do = "read"
    BY DEF nntp, Read, Write
  <2>3. /\ AskedBy(p, 1) = 0 /\ AskedBy(p, 2) = 0 /\ AskedBy(p, 3) = 1
        /\ AskedBy(p, 4) = 1
        /\ First(p) = 1
    BY <1>4 DEF AskedBy, First, SpeaksFirst
  <2>4. \A st \in 1..3 : Regular(p, st, 3, 2)
    BY <1>4, <2>0, <2>2, <2>3 DEF Regular, Nth
  <2> QED
    BY <2>0, <2>1, <2>4
<1>5. CASE p = "ldap"
  <2>0. Script(p) = startTLSLDAP
    BY <1>5 DEF Script, Proxied
  <2>1. Len(startTLSLDAP) = 2 /\ Len(Yes(p)) = 1
    BY <1>5 DEF startTLSLDAP, Yes, Proxied
  <2>2. /\ startTLSLDAP[1].do = "write" /\ startTLSLDAP[2].do = "read"
    BY DEF startTLSLDAP, Read, Write
  <2>3. /\ AskedBy(p, 1) = 0 /\ AskedBy(p, 2) = 1 /\ AskedBy(p, 3) = 1
        /\ First(p) = 0
    BY <1>5 DEF AskedBy, First, SpeaksFirst
  <2>4. \A st \in 1..2 : Regular(p, st, 2, 1)
    BY <1>5, <2>0, <2>2, <2>3 DEF Regular, Nth
  <2> QED
    BY <2>0, <2>1, <2>4
<1>6. CASE p = "xmpp"
  <2>0. Script(p) = startTLSXMPP
    BY <1>6 DEF Script, Proxied
  <2>1. Len(startTLSXMPP) = 5 /\ Len(Yes(p)) = 2
    BY <1>6 DEF startTLSXMPP, Yes, Proxied
  <2>2. /\ startTLSXMPP[1].do = "write" /\ startTLSXMPP[2].do = "read"
        /\ startTLSXMPP[3].do = "write" /\ startTLSXMPP[4].do = "read"
        /\ startTLSXMPP[5].do = "read"
    BY DEF startTLSXMPP, Read, Write
  <2>3. /\ AskedBy(p, 1) = 0 /\ AskedBy(p, 2) = 1 /\ AskedBy(p, 3) = 1
        /\ AskedBy(p, 4) = 2 /\ AskedBy(p, 5) = 2 /\ AskedBy(p, 6) = 2
        /\ First(p) = 0
    BY <1>6 DEF AskedBy, First, SpeaksFirst
  <2>4. \A st \in 1..5 : Regular(p, st, 5, 2)
    BY <1>6, <2>0, <2>2, <2>3 DEF Regular, Nth
  <2> QED
    BY <2>0, <2>1, <2>4
<1>7. CASE p = "mysql"
  <2>0. Script(p) = startTLSMySQL
    BY <1>7 DEF Script, Proxied
  <2>1. Len(startTLSMySQL) = 2 /\ Len(Yes(p)) = 1
    BY <1>7 DEF startTLSMySQL, Yes, Proxied
  <2>2. /\ startTLSMySQL[1].do = "read" /\ startTLSMySQL[2].do = "write"
    BY DEF startTLSMySQL, Read, Write
  <2>3. /\ AskedBy(p, 1) = 0 /\ AskedBy(p, 2) = 0 /\ AskedBy(p, 3) = 1
        /\ First(p) = 1
    BY <1>7 DEF AskedBy, First, SpeaksFirst
  <2>4. \A st \in 1..2 : Regular(p, st, 2, 1)
    BY <1>7, <2>0, <2>2, <2>3 DEF Regular, Nth
  <2> QED
    BY <2>0, <2>1, <2>4
<1>8. CASE p = "postgres"
  <2>0. Script(p) = postgres
    BY <1>8 DEF Script, Proxied
  <2>1. Len(postgres) = 2 /\ Len(Yes(p)) = 1
    BY <1>8 DEF postgres, Yes, Proxied
  <2>2. /\ postgres[1].do = "write" /\ postgres[2].do = "read"
    BY DEF postgres, Read, Write
  <2>3. /\ AskedBy(p, 1) = 0 /\ AskedBy(p, 2) = 1 /\ AskedBy(p, 3) = 1
        /\ First(p) = 0
    BY <1>8 DEF AskedBy, First, SpeaksFirst
  <2>4. \A st \in 1..2 : Regular(p, st, 2, 1)
    BY <1>8, <2>0, <2>2, <2>3 DEF Regular, Nth
  <2> QED
    BY <2>0, <2>1, <2>4
<1>9. CASE p = "socks5"
  <2>0. Script(p) = socks5Connect
    BY <1>9 DEF Script, Proxied
  <2>1. Len(socks5Connect) = 4 /\ Len(Yes(p)) = 2
    BY <1>9 DEF socks5Connect, Yes, Proxied
  <2>2. /\ socks5Connect[1].do = "write" /\ socks5Connect[2].do = "read"
        /\ socks5Connect[3].do = "write" /\ socks5Connect[4].do = "read"
    BY DEF socks5Connect, Read, Write
  <2>3. /\ AskedBy(p, 1) = 0 /\ AskedBy(p, 2) = 1 /\ AskedBy(p, 3) = 1
        /\ AskedBy(p, 4) = 2 /\ AskedBy(p, 5) = 2
        /\ First(p) = 0
    BY <1>9 DEF AskedBy, First, SpeaksFirst
  <2>4. \A st \in 1..4 : Regular(p, st, 4, 2)
    BY <1>9, <2>0, <2>2, <2>3 DEF Regular, Nth
  <2> QED
    BY <2>0, <2>1, <2>4
<1>10. CASE p = "socks5-unnameable"
  <2>0. Script(p) = socks5Unnameable
    BY <1>10 DEF Script, Proxied
  <2>1. Len(socks5Unnameable) = 3 /\ Len(Yes(p)) = 2
    BY <1>10 DEF socks5Unnameable, Yes, Proxied
  <2>2. /\ socks5Unnameable[1].do = "write" /\ socks5Unnameable[2].do = "read"
        /\ socks5Unnameable[3].do = "give-up"
    BY DEF socks5Unnameable, Read, Write
  <2>3. /\ AskedBy(p, 1) = 0 /\ AskedBy(p, 2) = 1 /\ AskedBy(p, 3) = 1
        /\ AskedBy(p, 4) = 2
        /\ First(p) = 0
    BY <1>10 DEF AskedBy, First, SpeaksFirst
  <2>4. \A st \in 1..3 : Regular(p, st, 3, 2)
    BY <1>10, <2>0, <2>2, <2>3 DEF Regular, Nth
  <2> QED
    BY <2>0, <2>1, <2>4
<1> QED
  BY <1>1, <1>2, <1>3, <1>4, <1>5, <1>6, <1>7, <1>8, <1>9, <1>10 DEF StartTLSProtocols, Proxied

----------------------------------------------------------------------------
(* What the binary replies come to.                                        *)

\* An element at the start of a message, with a length of one byte, and room.
LEMMA FirstField ==
  ASSUME NEW b, NEW len \in Nat, Len(b) = len, NEW n \in 0..127, b[2] = n, 2 + n <= len
  PROVE  berField(b, 0) = [ok |-> TRUE, start |-> 2, next |-> 2 + n]
<1>1. berField(b, 0) = Contents(b, 2, n)
  BY DEF berField
<1> QED
  BY <1>1 DEF Contents

\* The response of resp, whose contents are these bytes, is decided by the third.
LEMMA CodeDecides ==
  ASSUME NEW body, NEW from \in Nat, NEW to \in Nat, NEW at \in Nat, NEW code,
         berField(body, 0) = [ok |-> TRUE, start |-> at - 1, next |-> at],
         berField(body, at) = [ok |-> TRUE, start |-> from, next |-> to],
         from + 3 <= to, body[from + 2] = 1, body[from + 3] = code
  PROVE  ldapAccepts(body) <=> code = 0
<1>1. PICK in : in = SubSeq(body, from + 1, to)
  OBVIOUS
<1>2. PICK len \in Nat : len = to - from
  OBVIOUS
<1>3. Len(in) = len /\ 3 <= len /\ in[2] = 1 /\ in[3] = code
  BY <1>1, <1>2
<1>4. berField(in, 0) = [ok |-> TRUE, start |-> 2, next |-> 3]
  BY <1>3, FirstField
<1> QED
  BY <1>1, <1>3, <1>4 DEF ldapAccepts

LEMMA LDAPAnswers ==
  /\ ldapAccepts(ldapBody["yes"]) /\ ldapAccepts(ldapBody["yes-long"])
  /\ ~ldapAccepts(ldapBody["no"]) /\ ~ldapAccepts(ldapBody["no-long"])
  /\ ~ldapAccepts(ldapBody["cut"])
<1>1. ldapAccepts(ldapBody["yes"])
  <2>1. PICK b : b = <<2, 1, 1, 120, 7, 10, 1, 0, 4, 0, 4, 0>>
    OBVIOUS
  <2>2. ldapBody["yes"] = b
    BY <2>1 DEF ldapBody
  <2>3. b[7] = 1 /\ b[8] = 0
    BY <2>1
  <2>4. berField(b, 0) = Contents(b, 2, 1)
    BY <2>1 DEF berField
  <2>5. berField(b, 3) = Contents(b, 5, 7)
    BY <2>1 DEF berField
  <2>6. Contents(b, 2, 1) = [ok |-> TRUE, start |-> 2, next |-> 3]
    BY <2>1 DEF Contents
  <2>7. Contents(b, 5, 7) = [ok |-> TRUE, start |-> 5, next |-> 12]
    BY <2>1 DEF Contents
  <2> QED
    BY <2>2, <2>3, <2>4, <2>5, <2>6, <2>7, CodeDecides
<1>2. ldapAccepts(ldapBody["yes-long"])
  <2>1. PICK b : b = <<2, 129, 1, 1, 120, 130, 0, 7, 10, 1, 0, 4, 0, 4, 0>>
    OBVIOUS
  <2>2. ldapBody["yes-long"] = b
    BY <2>1 DEF ldapBody
  <2>3. BigEndian(b, 2, 1) = 1 /\ BigEndian(b, 6, 2) = 7 /\ b[10] = 1 /\ b[11] = 0
    BY <2>1 DEF BigEndian
  <2>4. berField(b, 0) = Contents(b, 3, 1)
    BY <2>1, <2>3, 129 - 128 = 1, 130 - 128 = 2 DEF berField
  <2>5. berField(b, 4) = Contents(b, 8, 7)
    BY <2>1, <2>3, 129 - 128 = 1, 130 - 128 = 2 DEF berField
  <2>6. Contents(b, 3, 1) = [ok |-> TRUE, start |-> 3, next |-> 4]
    BY <2>1 DEF Contents
  <2>7. Contents(b, 8, 7) = [ok |-> TRUE, start |-> 8, next |-> 15]
    BY <2>1 DEF Contents
  <2> QED
    BY <2>2, <2>3, <2>4, <2>5, <2>6, <2>7, CodeDecides
<1>3. ~ldapAccepts(ldapBody["no"])
  <2>1. PICK b : b = <<2, 1, 1, 120, 7, 10, 1, 53, 4, 0, 4, 0>>
    OBVIOUS
  <2>2. ldapBody["no"] = b
    BY <2>1 DEF ldapBody
  <2>3. b[7] = 1 /\ b[8] = 53
    BY <2>1
  <2>4. berField(b, 0) = Contents(b, 2, 1)
    BY <2>1 DEF berField
  <2>5. berField(b, 3) = Contents(b, 5, 7)
    BY <2>1 DEF berField
  <2>6. Contents(b, 2, 1) = [ok |-> TRUE, start |-> 2, next |-> 3]
    BY <2>1 DEF Contents
  <2>7. Contents(b, 5, 7) = [ok |-> TRUE, start |-> 5, next |-> 12]
    BY <2>1 DEF Contents
  <2> QED
    BY <2>2, <2>3, <2>4, <2>5, <2>6, <2>7, CodeDecides
<1>4. ~ldapAccepts(ldapBody["no-long"])
  <2>1. PICK b : b = <<2, 1, 1, 120, 129, 7, 10, 1, 2, 4, 0, 4, 0>>
    OBVIOUS
  <2>2. ldapBody["no-long"] = b
    BY <2>1 DEF ldapBody
  <2>3. BigEndian(b, 5, 1) = 7 /\ b[8] = 1 /\ b[9] = 2
    BY <2>1 DEF BigEndian
  <2>4. berField(b, 0) = Contents(b, 2, 1)
    BY <2>1, <2>3, 129 - 128 = 1 DEF berField
  <2>5. berField(b, 3) = Contents(b, 6, 7)
    BY <2>1, <2>3, 129 - 128 = 1 DEF berField
  <2>6. Contents(b, 2, 1) = [ok |-> TRUE, start |-> 2, next |-> 3]
    BY <2>1 DEF Contents
  <2>7. Contents(b, 6, 7) = [ok |-> TRUE, start |-> 6, next |-> 13]
    BY <2>1 DEF Contents
  <2> QED
    BY <2>2, <2>3, <2>4, <2>5, <2>6, <2>7, CodeDecides
<1>5. ~ldapAccepts(ldapBody["cut"])
  <2>1. PICK b : b = <<2, 1, 1, 120, 7, 10>>
    OBVIOUS
  <2>2. ldapBody["cut"] = b
    BY <2>1 DEF ldapBody
  <2>3. berField(b, 0).next = 3 /\ ~berField(b, 3).ok
    BY <2>1 DEF berField, Contents, NoField
  <2> QED
    BY <2>2, <2>3 DEF ldapAccepts
<1> QED
  BY <1>1, <1>2, <1>3, <1>4, <1>5

\* Where the flags of a greeting with its terminator in third place are.
LEMMA CapsAt16 ==
  ASSUME NEW p, Len(p) \in Nat, 3 <= Len(p), p[2] # 0, p[3] = 0
  PROVE  capsOffset(p) = 16
<1> DEFINE zeros == {j \in 1..(Len(p) - 1) : p[j + 1] = 0}
<1>1. 2 \in zeros /\ 1 \notin zeros /\ \A j \in zeros : j \in Int
  OBVIOUS
<1>2. \A j \in zeros : 2 <= j
  BY <1>1
<1>3. Min(zeros) = 2
  BY <1>1, <1>2 DEF Min
<1> QED
  BY <1>1, <1>3 DEF capsOffset

LEMMA MySQLGreetings ==
  /\ mysqlOffersTLS(mysqlPayload["with-TLS"])
  /\ ~mysqlOffersTLS(mysqlPayload["without-TLS"])
  /\ ~mysqlOffersTLS(mysqlPayload["ERR"]) /\ ~mysqlOffersTLS(mysqlPayload["cut"])
<1>1. mysqlOffersTLS(mysqlPayload["with-TLS"])
  <2>1. PICK p : p = <<10, 56, 0, 1, 2, 3, 4, 9, 9, 9, 9, 9, 9, 9, 9, 0, 255, 255>>
    OBVIOUS
  <2>2. mysqlPayload["with-TLS"] = p
    BY <2>1 DEF mysqlPayload
  <2>3. Len(p) = 18 /\ p[1] = 10 /\ p[2] = 56 /\ p[3] = 0 /\ p[18] = 255
    BY <2>1
  <2>4. capsOffset(p) = 16
    BY <2>3, CapsAt16
  <2>5. (p[18] \div 8) % 2 = 1
    BY <2>3
  <2>6. (p[capsOffset(p) + 2] \div 8) % 2 = 1
    BY <2>4, <2>5
  <2>7. p # << >>
    BY <2>1
  <2> QED
    BY <2>2, <2>3, <2>4, <2>6, <2>7 DEF mysqlOffersTLS
<1>2. ~mysqlOffersTLS(mysqlPayload["without-TLS"])
  <2>1. PICK p : p = <<10, 56, 0, 1, 2, 3, 4, 9, 9, 9, 9, 9, 9, 9, 9, 0, 255, 247>>
    OBVIOUS
  <2>2. mysqlPayload["without-TLS"] = p
    BY <2>1 DEF mysqlPayload
  <2>3. Len(p) = 18 /\ p[1] = 10 /\ p[2] = 56 /\ p[3] = 0 /\ p[18] = 247
    BY <2>1
  <2>4. capsOffset(p) = 16
    BY <2>3, CapsAt16
  <2>5. (p[18] \div 8) % 2 = 0
    BY <2>3
  <2>6. (p[capsOffset(p) + 2] \div 8) % 2 = 0
    BY <2>4, <2>5
  <2>7. p # << >>
    BY <2>1
  <2> QED
    BY <2>2, <2>3, <2>4, <2>6, <2>7 DEF mysqlOffersTLS
<1>3. ~mysqlOffersTLS(mysqlPayload["ERR"])
  BY DEF mysqlOffersTLS, mysqlPayload
<1>4. ~mysqlOffersTLS(mysqlPayload["cut"])
  <2>1. PICK p : p = <<10, 56, 0, 1, 2>>
    OBVIOUS
  <2>2. mysqlPayload["cut"] = p
    BY <2>1 DEF mysqlPayload
  <2>3. Len(p) = 5 /\ p[2] = 56 /\ p[3] = 0
    BY <2>1
  <2>4. capsOffset(p) = 16
    BY <2>3, CapsAt16
  <2> QED
    BY <2>2, <2>3, <2>4 DEF mysqlOffersTLS
<1> QED
  BY <1>1, <1>2, <1>3, <1>4

----------------------------------------------------------------------------
(* What a read makes of a reply, when it has g of it and rest is to come.  *)

LEMMA Readers ==
  ASSUME NEW code, NEW g
  PROVE  /\ Reads(Read("smtp", code), g) = expectSMTP(code, g)
         /\ Reads(Read("ftp", code), g) = expectFTP(code, g)
         /\ Reads(Read("greeting", code), g) = oneOf({code}, g)
         /\ Reads(Read("byte", code), g) = oneOf({code}, g)
         /\ Reads(Read("news", code), g) = oneOf({"200", "201"}, g)
         /\ Reads(Read("tagged", code), g) = imapTagged(g)
         /\ Reads(Read("features", code), g) = features(g)
         /\ Reads(Read("proceed", code), g) = proceed(g)
         /\ Reads(Read("end", code), g) = elementEnd(g)
         /\ Reads(Read("ldap", code), g) = berValue(g)
         /\ Reads(Read("mysql", code), g) = mysqlPacket(g)
         /\ Reads(Read("method", code), g) = socks5Method(g)
         /\ Reads(Read("connect", code), g) = socks5Reply(g)
  BY DEF Reads, Read

LEMMA Until ==
  ASSUME NEW markers, NEW g
  PROVE  /\ Last(g).text \in markers => readUntil(markers, g) = "ok"
         /\ Last(g).text \notin markers =>
              readUntil(markers, g) = IF Len(g) = SeenLimit THEN "fail" ELSE "more"
  BY DEF readUntil

\* g is the beginning of the whole.
LEMMA Prefix ==
  ASSUME NEW g \in Seq(Token), NEW rest \in Seq(Token), g # << >>
  PROVE  LET s == g \o rest
         IN /\ s \in Seq(Token) /\ Len(g) \in 1..Len(s)
            /\ \A i \in 1..Len(g) : g[i] = s[i]
            /\ Head(g) = s[1] /\ Last(g) = s[Len(g)]
            /\ rest = << >> <=> Len(g) = Len(s)
  BY DEF Last

\* A verdict that is a yes is on a whole reply, and one that says it; with a
\* whole reply there is one; and a yes is not refused for its length.
Sound(v, rest, no, n) ==
  /\ v \in {"ok", "more", "fail"}
  /\ v = "ok" => rest = << >> /\ ~no
  /\ rest = << >> => v # "more"
  /\ ~no /\ n <= Banner => v # "fail"

\* The two parts of what there is of a reply.
LEMMA Joined ==
  ASSUME NEW a \in Seq(Token), NEW b \in Seq(Token)
  PROVE  /\ \A n \in Nat : Len(a \o b) = Len(a) + n => Len(b) = n
         /\ Len(a) \in Nat /\ Len(b) \in Nat
         /\ Len(a \o b) = Len(a) + Len(b)
         /\ Len(b) = 1 => b[1] = (a \o b)[Len(a \o b)]
<1>1. PICK k, m : k = Len(a) /\ m = Len(b)
  OBVIOUS
<1>2. k \in Nat /\ m \in Nat
  BY <1>1
<1>3. Len(a \o b) = k + m
  BY <1>1, ConcatProperties
<1>4. \A n \in Nat : k + m = k + n => m = n
  BY <1>2
<1>5. ASSUME m = 1
      PROVE  b[1] = (a \o b)[Len(a \o b)]
  <2>1. k + 1 \in 1..k + m /\ ~(k + 1 <= k) /\ (k + 1) - k = 1
    BY <1>2, <1>5
  <2>2. (a \o b)[k + 1] = b[(k + 1) - k]
    BY <1>1, <2>1, ConcatProperties
  <2> QED
    BY <1>3, <1>5, <2>1, <2>2
<1> QED
  BY <1>1, <1>2, <1>3, <1>4, <1>5

LEMMA SMTPReads ==
  ASSUME NEW g \in Seq(Token), NEW rest \in Seq(Token), g # << >>, NEW code, NEW n,
         EndsIn(g \o rest, {Line(code, "dash")}, {Line(code, "space")})
  PROVE  Sound(expectSMTP(code, g), rest, FALSE, n)
<1> DEFINE s == g \o rest
<1>1. Len(g) \in 1..Len(s) /\ Last(g) = s[Len(g)] /\ (rest = << >> <=> Len(g) = Len(s))
  BY Prefix
<1>2. CASE Len(g) = Len(s)
  BY <1>1, <1>2 DEF EndsIn, Line, expectSMTP, Sound
<1>3. CASE Len(g) # Len(s)
  <2>1. Last(g) = Line(code, "dash")
    BY <1>1, <1>3 DEF EndsIn
  <2> QED
    BY <1>1, <1>3, <2>1 DEF Line, expectSMTP, Sound
<1> QED
  BY <1>2, <1>3

LEMMA FTPReads ==
  ASSUME NEW g \in Seq(Token), NEW rest \in Seq(Token), g # << >>,
         NEW code, NEW n \in Nat, FTPReply(g \o rest, code, n)
  PROVE  Sound(expectFTP(code, g), rest, FALSE, n)
<1> DEFINE s == g \o rest
<1>1. /\ Len(g) \in 1..Len(s) /\ Last(g) = s[Len(g)] /\ (rest = << >> <=> Len(g) = Len(s))
      /\ Head(g) = s[1]
  BY Prefix
<1>2. Head(g).text = code /\ Head(g).sep \in {"space", "dash"}
  BY <1>1 DEF FTPReply, Line
<1>3. CASE Len(g) = Len(s)
  <2>1. Last(g) = Line(code, "space")
    BY <1>1, <1>3 DEF FTPReply
  <2>2. expectFTP(code, g) = "ok"
    BY <1>2, <2>1 DEF expectFTP
  <2> QED
    BY <1>1, <1>3, <2>2 DEF Sound
<1>4. CASE Len(g) # Len(s)
  <2>1. Last(g) # Line(code, "space") /\ Len(g) <= 2 + n
    BY <1>1, <1>4 DEF FTPReply
  <2>2. n <= Banner => Len(g) # 1 + LineLimit
    BY <1>1, <2>1, BoundsAssumption, BannerAssumption
  <2>3. expectFTP(code, g) = IF Len(g) = 1 + LineLimit THEN "fail" ELSE "more"
    BY <1>2, <2>1 DEF expectFTP
  <2> QED
    BY <1>1, <1>4, <2>2, <2>3 DEF Sound
<1> QED
  BY <1>3, <1>4

\* A reply to FTP that begins with another code is not read on.
LEMMA FTPRefuses ==
  ASSUME NEW g \in Seq(Token), NEW rest \in Seq(Token), g # << >>,
         NEW code, NEW n, (g \o rest)[1].text # code
  PROVE  Sound(expectFTP(code, g), rest, TRUE, n)
<1>1. Head(g).text # code
  BY Prefix
<1>2. expectFTP(code, g) = "fail"
  BY <1>1 DEF expectFTP
<1> QED
  BY <1>2 DEF Sound

LEMMA IMAPReads ==
  ASSUME NEW g \in Seq(Token), NEW rest \in Seq(Token), g # << >>,
         NEW no \in BOOLEAN, NEW n, Tagged(g \o rest, no)
  PROVE  Sound(imapTagged(g), rest, no, n)
<1> DEFINE s == g \o rest
<1>1. Len(g) \in 1..Len(s) /\ Last(g) = s[Len(g)] /\ (rest = << >> <=> Len(g) = Len(s))
  BY Prefix
<1>2. CASE Len(g) = Len(s)
  <2>1. Last(g).text = IF no THEN "a1-NO" ELSE "a1-OK"
    BY <1>1, <1>2 DEF Tagged, EndsIn, Word, Line
  <2> QED
    BY <1>1, <1>2, <2>1 DEF imapTagged, Sound
<1>3. CASE Len(g) # Len(s)
  <2>1. Last(g).text \in {"*CAPABILITY", "*ALERT"}
    BY <1>1, <1>3 DEF Tagged, EndsIn, Word, Line
  <2> QED
    BY <1>1, <1>3, <2>1 DEF imapTagged, Sound
<1> QED
  BY <1>2, <1>3

\* The features of a server that offers the upgrade are read to their end.
LEMMA OfferRead ==
  ASSUME NEW g \in Seq(Token), NEW rest \in Seq(Token), g # << >>,
         NEW n \in Nat, Offer(g \o rest, n)
  PROVE  Sound(features(g), rest, FALSE, n)
<1> DEFINE s == g \o rest
           u == readUntil({"</stream:features>", "<stream:error", "</stream:stream>"}, g)
<1>1. Len(g) \in 1..Len(s) /\ Last(g) = s[Len(g)] /\ (rest = << >> <=> Len(g) = Len(s))
  BY Prefix
<1>2. CASE Len(g) = Len(s)
  <2>1. Last(g).text = "</stream:features>"
    BY <1>1, <1>2 DEF Offer, EndsIn, Word, Line
  <2>2. u = "ok"
    BY <2>1, Until
  <2>3. PICK i \in 1..Len(g) : g[i].text = "<starttls"
    BY <1>1, <1>2, Prefix DEF Offer, Word, Line
  <2>4. i \in DOMAIN g
    OBVIOUS
  <2>5. features(g) = "ok"
    BY <2>2, <2>3, <2>4 DEF features, seenIn
  <2> QED
    BY <1>1, <1>2, <2>5 DEF Sound
<1>3. CASE Len(g) # Len(s)
  <2>1. Last(g) \in {Word("<stream:stream>"), Word("<starttls"), Word("/>"),
                      Word("<mechanism>"), Word("attribute")}
    BY <1>1, <1>3 DEF Offer, EndsIn
  <2>2. Last(g).text \in {"<stream:stream>", "<starttls", "/>", "<mechanism>", "attribute"}
    BY <2>1 DEF Word, Line
  <2>3. u = IF Len(g) = SeenLimit THEN "fail" ELSE "more"
    BY <2>2, Until
  <2>4. n <= Banner => Len(g) # SeenLimit
    BY <1>1, <1>3, BoundsAssumption, BannerAssumption DEF Offer
  <2>5. features(g) = u
    BY <2>3 DEF features, seenIn
  <2> QED
    BY <1>1, <1>3, <2>3, <2>4, <2>5 DEF Sound
<1> QED
  BY <1>2, <1>3

\* Those of one that does not are never a yes.
LEMMA NoOfferRead ==
  ASSUME NEW g \in Seq(Token), NEW rest \in Seq(Token), g # << >>, NEW n,
         NoOffer(g \o rest)
  PROVE  Sound(features(g), rest, TRUE, n)
<1> DEFINE s == g \o rest
           u == readUntil({"</stream:features>", "<stream:error", "</stream:stream>"}, g)
<1>1. Len(g) \in 1..Len(s) /\ Last(g) = s[Len(g)] /\ (rest = << >> <=> Len(g) = Len(s))
  BY Prefix
<1>2. \A i \in DOMAIN g : g[i].text # "<starttls"
  BY <1>1, Prefix DEF NoOffer
<1>3. features(g) = IF u = "ok" THEN "fail" ELSE u
  BY <1>2 DEF features, seenIn
<1>4. u \in {"ok", "fail", "more"}
  BY Until
<1>5. rest = << >> => u = "ok"
  BY <1>1, Until DEF NoOffer, Word, Line
<1> QED
  BY <1>3, <1>4, <1>5 DEF Sound

\* Sound, but for the tag that a read up to a > may leave.
Settles(v, p, st, rest, no, n) ==
  /\ v \in {"ok", "more", "fail"}
  /\ v = "ok" => ~no /\ (rest = << >> \/ (p = "xmpp" /\ st = 5 /\ rest = EndTag))
  /\ rest = << >> => v # "more"
  /\ ~no /\ n <= Banner => v # "fail"

LEMMA EndRead ==
  ASSUME NEW g \in Seq(Token), NEW rest \in Seq(Token), g # << >>, NEW n \in Nat,
         RestOfElement(g \o rest, n)
  PROVE  Settles(elementEnd(g), "xmpp", 5, rest, FALSE, n)
<1> DEFINE s == g \o rest
<1>1. Len(g) \in 1..Len(s) /\ Last(g) = s[Len(g)] /\ (rest = << >> <=> Len(g) = Len(s))
  BY Prefix
<1>2. \/ EndsIn(s, {Word("attribute")}, {Word("/>")}) /\ Len(s) <= 1 + n
      \/ /\ Len(s) \in 2..2 + n /\ s[Len(s)] = Word("</proceed>") /\ s[Len(s) - 1] = Word(">")
         /\ \A i \in 1..Len(s) - 2 : s[i] = Word("attribute")
  BY DEF RestOfElement
<1>3. CASE Len(g) = Len(s)
  <2>1. Last(g).text \in {"/>", "</proceed>"}
    BY <1>1, <1>2, <1>3 DEF EndsIn, Word, Line
  <2>2. elementEnd(g) = "ok"
    BY <2>1, Until DEF elementEnd
  <2> QED
    BY <1>1, <1>3, <2>2 DEF Settles
<1>4. CASE Len(g) = Len(s) - 1 /\ Last(g) = Word(">")
  <2>1. Last(g).text = ">"
    BY <1>4 DEF Word, Line
  <2>2. elementEnd(g) = "ok"
    BY <2>1, Until DEF elementEnd
  <2>3. s[Len(s)] = Word("</proceed>")
    BY <1>1, <1>2, <1>4 DEF EndsIn, Word, Line
  <2>4. Len(rest) = 1 /\ rest[1] = s[Len(s)]
    <3>1. PICK k, l, m : k = Len(g) /\ l = Len(rest) /\ m = Len(s)
      OBVIOUS
    <3>2. m = k + l /\ k \in Nat /\ l \in Nat /\ k = m - 1
      BY <1>1, <1>4, <3>1, Joined
    <3>3. l = 1
      BY <3>2
    <3> QED
      BY <3>1, <3>3, Joined
  <2>5. rest = EndTag
    BY <2>3, <2>4 DEF EndTag
  <2> QED
    BY <2>2, <2>5 DEF Settles, EndTag
<1>5. CASE Len(g) # Len(s) /\ ~(Len(g) = Len(s) - 1 /\ Last(g) = Word(">"))
  <2>1. Last(g) = Word("attribute") /\ Len(g) <= n
    <3>1. PICK k, m : k = Len(g) /\ m = Len(s)
      OBVIOUS
    <3>2. k \in 1..m /\ k # m /\ m \in Nat /\ Last(g) = s[k]
      BY <1>1, <1>5, <3>1
    <3>3. CASE EndsIn(s, {Word("attribute")}, {Word("/>")}) /\ m <= 1 + n
      <4>1. k \in 1..m - 1 /\ k <= n
        BY <3>2, <3>3
      <4>2. \A i \in 1..m - 1 : s[i] = Word("attribute")
        BY <3>1, <3>3 DEF EndsIn
      <4> QED
        BY <3>1, <3>2, <4>1, <4>2
    <3>4. CASE /\ m \in 2..2 + n /\ s[m - 1] = Word(">")
               /\ \A i \in 1..m - 2 : s[i] = Word("attribute")
      <4>1. k # m - 1
        BY <1>5, <3>1, <3>2, <3>4
      <4>2. k \in 1..m - 2 /\ k <= n
        BY <3>2, <3>4, <4>1
      <4> QED
        BY <3>1, <3>2, <3>4, <4>2
    <3> QED
      BY <1>2, <3>1, <3>3, <3>4
  <2>2. Last(g).text = "attribute"
    BY <2>1 DEF Word, Line
  <2>3. n <= Banner => Len(g) # SeenLimit
    BY <1>1, <2>1, BoundsAssumption, BannerAssumption
  <2>4. elementEnd(g) = IF Len(g) = SeenLimit THEN "fail" ELSE "more"
    BY <2>2, Until DEF elementEnd
  <2> QED
    BY <1>1, <1>5, <2>3, <2>4 DEF Settles
<1> QED
  BY <1>3, <1>4, <1>5

\* The start of the element that says to go on, or that says no: the first
\* read of XMPP's last reply is over at its first token.
LEMMA ProceedRead ==
  ASSUME NEW g \in Seq(Token), Len(g) = 1, NEW no \in BOOLEAN,
         g[1] = Word(IF no THEN "<failure" ELSE "<proceed")
  PROVE  proceed(g) = IF no THEN "fail" ELSE "ok"
<1>1. Last(g).text = IF no THEN "<failure" ELSE "<proceed"
  BY DEF Last, Word, Line
<1>2. readUntil({"<proceed", "<failure", "</stream:stream>"}, g) = "ok"
  BY <1>1, Until
<1>3. DOMAIN g = {1} /\ g[1].text = IF no THEN "<failure" ELSE "<proceed"
  BY DEF Word, Line
<1> QED
  BY <1>2, <1>3 DEF proceed, seenIn

\* What there is of a reply of one token, of two, three and four.
LEMMA OfOne ==
  ASSUME NEW g \in Seq(Token), NEW rest \in Seq(Token), g # << >>, NEW a,
         g \o rest = <<a>>
  PROVE  rest = << >> /\ Len(g) = 1 /\ g[1] = a /\ Last(g) = a
<1>1. PICK s : s = g \o rest
  OBVIOUS
<1>2. Len(s) = 1 /\ s[1] = a
  BY <1>1
<1>3. /\ Len(g) \in 1..Len(s) /\ Last(g) = s[Len(g)] /\ (rest = << >> <=> Len(g) = Len(s))
      /\ \A i \in 1..Len(g) : g[i] = s[i]
  BY <1>1, Prefix
<1> QED
  BY <1>2, <1>3

LEMMA OfTwo ==
  ASSUME NEW g \in Seq(Token), NEW rest \in Seq(Token), g # << >>, NEW a, NEW b,
         g \o rest = <<a, b>>
  PROVE  /\ g[1] = a
         /\ \/ Len(g) = 1 /\ Last(g) = a /\ rest # << >>
            \/ Len(g) = 2 /\ g[2] = b /\ Last(g) = b /\ rest = << >>
<1>1. PICK s : s = g \o rest
  OBVIOUS
<1>2. Len(s) = 2 /\ s[1] = a /\ s[2] = b
  BY <1>1
<1>3. /\ Len(g) \in 1..Len(s) /\ Last(g) = s[Len(g)] /\ (rest = << >> <=> Len(g) = Len(s))
      /\ \A i \in 1..Len(g) : g[i] = s[i]
  BY <1>1, Prefix
<1> QED
  BY <1>2, <1>3

LEMMA OfThree ==
  ASSUME NEW g \in Seq(Token), NEW rest \in Seq(Token), g # << >>,
         NEW a, NEW b, NEW c, g \o rest = <<a, b, c>>
  PROVE  /\ g[1] = a
         /\ \/ Len(g) = 1 /\ Last(g) = a /\ rest # << >>
            \/ Len(g) = 2 /\ g[2] = b /\ Last(g) = b /\ rest # << >>
            \/ Len(g) = 3 /\ g[2] = b /\ Last(g) = c /\ rest = << >>
<1>1. PICK s : s = g \o rest
  OBVIOUS
<1>2. Len(s) = 3 /\ s[1] = a /\ s[2] = b /\ s[3] = c
  BY <1>1
<1>3. /\ Len(g) \in 1..Len(s) /\ Last(g) = s[Len(g)] /\ (rest = << >> <=> Len(g) = Len(s))
      /\ \A i \in 1..Len(g) : g[i] = s[i]
  BY <1>1, Prefix
<1>4. g[1] = a /\ (Len(g) # 1 => g[2] = b)
  BY <1>2, <1>3
<1>5. Len(g) \in 1..3 /\ (rest = << >> <=> Len(g) = 3)
  BY <1>2, <1>3
<1>6. CASE Len(g) = 1
  BY <1>2, <1>3, <1>4, <1>5, <1>6
<1>7. CASE Len(g) = 2
  BY <1>2, <1>3, <1>4, <1>5, <1>7
<1>8. CASE Len(g) = 3
  BY <1>2, <1>3, <1>4, <1>5, <1>8
<1> QED
  BY <1>5, <1>6, <1>7, <1>8

LEMMA OfFour ==
  ASSUME NEW g \in Seq(Token), NEW rest \in Seq(Token), g # << >>,
         NEW a, NEW b, NEW c, NEW d, g \o rest = <<a, b, c, d>>
  PROVE  /\ g[1] = a
         /\ \/ Len(g) = 4 /\ rest = << >>
            \/ (Len(g) = 1 \/ Len(g) = 2 \/ Len(g) = 3) /\ rest # << >>
<1>1. PICK s : s = g \o rest
  OBVIOUS
<1>2. Len(s) = 4 /\ s[1] = a
  BY <1>1
<1>3. /\ Len(g) \in 1..Len(s) /\ (rest = << >> <=> Len(g) = Len(s))
      /\ \A i \in 1..Len(g) : g[i] = s[i]
  BY <1>1, Prefix
<1>4. g[1] = a
  BY <1>2, <1>3
<1>5. Len(g) \in 1..4 /\ (rest = << >> <=> Len(g) = 4)
  BY <1>2, <1>3
<1> QED
  BY <1>4, <1>5

\* An LDAP answer is decided on when its contents are in, or cannot be.
LEMMA LDAPReads ==
  ASSUME NEW g \in Seq(Token), NEW rest \in Seq(Token), g # << >>, NEW n,
         NEW no \in BOOLEAN, g \o rest \in (IF no THEN No("ldap") ELSE Yes("ldap"))[1]
  PROVE  Sound(berValue(g), rest, no, n)
<1>1. ASSUME NEW text, text \in {"yes", "no", "cut"}, no <=> text # "yes",
             g \o rest = <<Line("0x30", "short"), Word(text)>>
      PROVE  Sound(berValue(g), rest, no, n)
  <2>0. PICK a, b : a = Line("0x30", "short") /\ b = Word(text)
    OBVIOUS
  <2>1. g \o rest = <<a, b>>
    BY <1>1, <2>0
  <2>2. /\ g[1] = a
        /\ \/ Len(g) = 1 /\ rest # << >>
           \/ Len(g) = 2 /\ g[2] = b /\ Last(g) = b /\ rest = << >>
    BY <2>1, OfTwo
  <2>3. Len(g) = 1 => berValue(g) = "more"
    BY <2>0, <2>2 DEF berValue, Line
  <2>4. Len(g) = 2 => berValue(g) = IF text = "yes" THEN "ok" ELSE "fail"
    BY <1>1, <2>0, <2>2, LDAPAnswers DEF berValue, Line, Word
  <2> QED
    BY <1>1, <2>2, <2>3, <2>4 DEF Sound
<1>2. ASSUME NEW text, text \in {"yes-long", "no-long"}, no <=> text = "no-long",
             g \o rest = <<Line("0x30", "long"), Line("length", "none"), Word(text)>>
      PROVE  Sound(berValue(g), rest, no, n)
  <2>0. PICK a, b, c : /\ a = Line("0x30", "long") /\ b = Line("length", "none")
                       /\ c = Word(text)
    OBVIOUS
  <2>1. g \o rest = <<a, b, c>>
    BY <1>2, <2>0
  <2>2. /\ g[1] = a
        /\ \/ Len(g) = 1 /\ rest # << >>
           \/ Len(g) = 2 /\ g[2] = b /\ rest # << >>
           \/ Len(g) = 3 /\ g[2] = b /\ Last(g) = c /\ rest = << >>
    BY <2>1, OfThree
  <2>3. Len(g) # 3 => berValue(g) = "more"
    BY <2>0, <2>2 DEF berValue, Line
  <2>4. Len(g) = 3 => berValue(g) = IF text = "yes-long" THEN "ok" ELSE "fail"
    BY <1>2, <2>0, <2>2, LDAPAnswers DEF berValue, Line, Word
  <2>5. CASE Len(g) = 3
    BY <1>2, <2>2, <2>4, <2>5 DEF Sound
  <2>6. CASE Len(g) # 3
    BY <2>2, <2>3, <2>6 DEF Sound
  <2> QED
    BY <2>5, <2>6
<1>3. ASSUME no, g \o rest = <<Line("0x30", "long"), Line("length", "huge")>>
      PROVE  Sound(berValue(g), rest, no, n)
  <2>0. PICK a, b : a = Line("0x30", "long") /\ b = Line("length", "huge")
    OBVIOUS
  <2>1. g \o rest = <<a, b>>
    BY <1>3, <2>0
  <2>2. /\ g[1] = a
        /\ \/ Len(g) = 1 /\ rest # << >>
           \/ Len(g) = 2 /\ g[2] = b /\ rest = << >>
    BY <2>1, OfTwo
  <2>3. berValue(g) = IF Len(g) = 1 THEN "more" ELSE "fail"
    BY <2>0, <2>2 DEF berValue, Line
  <2> QED
    BY <1>3, <2>2, <2>3 DEF Sound
<1>4. ASSUME no, NEW first, first \in {Line("0x30", "bad"), Line("HTTP", "none")},
             g \o rest = <<first>>
      PROVE  Sound(berValue(g), rest, no, n)
  <2>1. rest = << >> /\ g[1] = first
    BY <1>4, OfOne
  <2>2. berValue(g) = "fail"
    BY <1>4, <2>1 DEF berValue, Line
  <2> QED
    BY <1>4, <2>1, <2>2 DEF Sound
<1>5. CASE ~no
  <2>1. g \o rest \in {<<Line("0x30", "short"), Word("yes")>>,
                       <<Line("0x30", "long"), Line("length", "none"), Word("yes-long")>>}
    BY <1>5 DEF Yes, Proxied
  <2> QED
    BY <1>1, <1>2, <1>5, <2>1
<1>6. CASE no
  <2>1. g \o rest \in {<<Line("0x30", "short"), Word("no")>>,
                       <<Line("0x30", "long"), Line("length", "none"), Word("no-long")>>,
                       <<Line("0x30", "long"), Line("length", "huge")>>,
                       <<Line("0x30", "bad")>>, <<Line("HTTP", "none")>>,
                       <<Line("0x30", "short"), Word("cut")>>}
    BY <1>6 DEF No, Proxied
  <2> QED
    BY <1>1, <1>2, <1>3, <1>4, <1>6, <2>1
<1> QED
  BY <1>5, <1>6

\* So is a greeting of MySQL's.
LEMMA MySQLReads ==
  ASSUME NEW g \in Seq(Token), NEW rest \in Seq(Token), g # << >>, NEW n,
         NEW no \in BOOLEAN, g \o rest \in (IF no THEN No("mysql") ELSE Yes("mysql"))[1]
  PROVE  Sound(mysqlPacket(g), rest, no, n)
<1>1. ASSUME NEW text, text \in {"with-TLS", "without-TLS", "ERR", "cut"},
             no <=> text # "with-TLS",
             g \o rest = <<Line("header", "none"), Word(text)>>
      PROVE  Sound(mysqlPacket(g), rest, no, n)
  <2>1. PICK a, b : a = Line("header", "none") /\ b = Word(text)
    OBVIOUS
  <2>2. g \o rest = <<a, b>>
    BY <1>1, <2>1
  <2>3. /\ g[1] = a
        /\ \/ Len(g) = 1 /\ rest # << >>
           \/ Len(g) = 2 /\ Last(g) = b /\ rest = << >>
    BY <2>2, OfTwo
  <2>4. Len(g) = 1 => mysqlPacket(g) = "more"
    BY <2>1, <2>3 DEF mysqlPacket, Line
  <2>5. Len(g) = 2 => mysqlPacket(g) = IF text = "with-TLS" THEN "ok" ELSE "fail"
    BY <1>1, <2>1, <2>3, MySQLGreetings DEF mysqlPacket, Line, Word
  <2> QED
    BY <1>1, <2>3, <2>4, <2>5 DEF Sound
<1>2. ASSUME no, NEW size, size \in {"empty", "huge"}, g \o rest = <<Line("header", size)>>
      PROVE  Sound(mysqlPacket(g), rest, no, n)
  <2>1. rest = << >> /\ g[1] = Line("header", size)
    BY <1>2, OfOne
  <2>2. mysqlPacket(g) = "fail"
    BY <1>2, <2>1 DEF mysqlPacket, Line
  <2> QED
    BY <1>2, <2>1, <2>2 DEF Sound
<1>3. CASE ~no
  <2>1. g \o rest \in {<<Line("header", "none"), Word("with-TLS")>>}
    BY <1>3 DEF Yes, Proxied
  <2> QED
    BY <1>1, <1>3, <2>1
<1>4. CASE no
  <2>1. No("mysql")[1] = {<<Line("header", "none"), Word(text)>> : text \in {"without-TLS", "ERR", "cut"}}
                         \cup {<<Line("header", "empty")>>, <<Line("header", "huge")>>}
    BY DEF No, Proxied
  <2>2. \/ \E text \in {"without-TLS", "ERR", "cut"} :
              g \o rest = <<Line("header", "none"), Word(text)>>
        \/ \E size \in {"empty", "huge"} : g \o rest = <<Line("header", size)>>
    BY <1>4, <2>1
  <2> QED
    BY <1>1, <1>2, <1>4, <2>2
<1> QED
  BY <1>3, <1>4

\* The proxy's method is two bytes, read before they are looked at.
LEMMA MethodRead ==
  ASSUME NEW g \in Seq(Token), NEW rest \in Seq(Token), g # << >>, NEW n,
         NEW no \in BOOLEAN, g \o rest \in (IF no THEN No("socks5") ELSE Yes("socks5"))[1]
  PROVE  Sound(socks5Method(g), rest, no, n)
<1>1. ASSUME NEW a, NEW b, a \in Token, b \in Token, g \o rest = <<a, b>>,
             no <=> <<a, b>> # <<Word("5"), Word("no-auth")>>
      PROVE  Sound(socks5Method(g), rest, no, n)
  <2>1. /\ g[1] = a
        /\ \/ Len(g) = 1 /\ rest # << >>
           \/ Len(g) = 2 /\ g[2] = b /\ rest = << >>
    BY <1>1, OfTwo
  <2>2. Len(g) = 1 => socks5Method(g) = "more"
    BY <2>1 DEF socks5Method
  <2>3. Len(g) = 2 => g = <<a, b>>
    BY <1>1, <2>1
  <2>4. Len(g) = 2 => socks5Method(g) = IF no THEN "fail" ELSE "ok"
    BY <1>1, <2>3 DEF socks5Method
  <2> QED
    BY <2>1, <2>2, <2>4 DEF Sound
<1>2. Word("5") \in Token /\ Word("no-auth") \in Token /\ Word("password") \in Token
      /\ Word("HTTP") \in Token /\ Word("/1.1") \in Token
  BY DEF Word, Line, Token, Texts
<1>3. <<Word("5"), Word("password")>> # <<Word("5"), Word("no-auth")>>
      /\ <<Word("HTTP"), Word("/1.1")>> # <<Word("5"), Word("no-auth")>>
  BY DEF Word, Line
<1>4. CASE ~no
  <2>1. g \o rest = <<Word("5"), Word("no-auth")>>
    BY <1>4 DEF Yes, Proxied
  <2> QED
    BY <1>1, <1>2, <1>4, <2>1
<1>5. CASE no
  <2>1. g \o rest \in {<<Word("5"), Word("password")>>, <<Word("HTTP"), Word("/1.1")>>}
    BY <1>5 DEF No, Proxied
  <2> QED
    BY <1>1, <1>2, <1>3, <1>5, <2>1
<1> QED
  BY <1>4, <1>5

\* Its last reply is read to the end of the address it is bound to.
LEMMA ConnectRead ==
  ASSUME NEW g \in Seq(Token), NEW rest \in Seq(Token), g # << >>, NEW n,
         NEW no \in BOOLEAN, g \o rest \in (IF no THEN No("socks5") ELSE Yes("socks5"))[2]
  PROVE  Sound(socks5Reply(g), rest, no, n)
<1>1. ASSUME ~no, NEW type, type \in {"IPv4", "IPv6"},
             g \o rest = <<Line("granted", type), Word("address"), Word("port")>>
      PROVE  Sound(socks5Reply(g), rest, no, n)
  <2>1. PICK a, b, c : a = Line("granted", type) /\ b = Word("address") /\ c = Word("port")
    OBVIOUS
  <2>2. g \o rest = <<a, b, c>>
    BY <1>1, <2>1
  <2>3. /\ g[1] = a
        /\ \/ Len(g) = 1 /\ rest # << >>
           \/ Len(g) = 2 /\ rest # << >>
           \/ Len(g) = 3 /\ rest = << >>
    BY <2>2, OfThree
  <2>4. socks5Reply(g) = IF Len(g) = 3 THEN "ok" ELSE "more"
    BY <1>1, <2>1, <2>3 DEF socks5Reply, Line
  <2>5. CASE Len(g) = 3
    BY <1>1, <2>3, <2>4, <2>5 DEF Sound
  <2>6. CASE Len(g) # 3
    BY <2>3, <2>4, <2>6 DEF Sound
  <2> QED
    BY <2>5, <2>6
<1>2. ASSUME ~no, g \o rest = <<Line("granted", "name"), Word("length"), Word("address"), Word("port")>>
      PROVE  Sound(socks5Reply(g), rest, no, n)
  <2>1. PICK a, b, c, d : /\ a = Line("granted", "name") /\ b = Word("length")
                          /\ c = Word("address") /\ d = Word("port")
    OBVIOUS
  <2>2. g \o rest = <<a, b, c, d>>
    BY <1>2, <2>1
  <2>3. /\ g[1] = a
        /\ \/ Len(g) = 4 /\ rest = << >>
           \/ (Len(g) = 1 \/ Len(g) = 2 \/ Len(g) = 3) /\ rest # << >>
    BY <2>2, OfFour
  <2>4. socks5Reply(g) = IF Len(g) = 4 THEN "ok" ELSE "more"
    BY <2>1, <2>3 DEF socks5Reply, Line
  <2>5. CASE Len(g) = 4
    BY <1>2, <2>3, <2>4, <2>5 DEF Sound
  <2>6. CASE Len(g) # 4
    BY <2>3, <2>4, <2>6 DEF Sound
  <2> QED
    BY <2>5, <2>6
<1>3. ASSUME no, NEW first, first \in {Line("denied", "IPv4"), Line("granted", "unknown")},
             g[1] = first
      PROVE  Sound(socks5Reply(g), rest, no, n)
  <2>1. socks5Reply(g) = "fail"
    BY <1>3 DEF socks5Reply, Line
  <2> QED
    BY <1>3, <2>1 DEF Sound
<1>4. CASE ~no
  <2>1. Yes("socks5")[2] =
          {<<Line("granted", type), Word("address"), Word("port")>> : type \in {"IPv4", "IPv6"}}
          \cup {<<Line("granted", "name"), Word("length"), Word("address"), Word("port")>>}
    BY DEF Yes, Proxied
  <2> QED
    BY <1>1, <1>2, <1>4, <2>1
<1>5. CASE no
  <2>1. g \o rest \in {<<Line("denied", "IPv4"), Word("address"), Word("port")>>,
                       <<Line("granted", "unknown")>>}
    BY <1>5 DEF No, Proxied
  <2>2. CASE g \o rest = <<Line("denied", "IPv4"), Word("address"), Word("port")>>
    <3>1. PICK a, b, c : a = Line("denied", "IPv4") /\ b = Word("address") /\ c = Word("port")
      OBVIOUS
    <3>2. g \o rest = <<a, b, c>>
      BY <2>2, <3>1
    <3>3. g[1] = a
      BY <3>2, OfThree
    <3> QED
      BY <1>3, <1>5, <3>1, <3>3
  <2>3. CASE g \o rest = <<Line("granted", "unknown")>>
    <3>1. g[1] = Line("granted", "unknown")
      BY <2>3, OfOne
    <3> QED
      BY <1>3, <1>5, <3>1
  <2> QED
    BY <2>1, <2>2, <2>3
<1> QED
  BY <1>4, <1>5

\* A reply of one token, and what the reads that want one make of it.
LEMMA OneTokenRead ==
  ASSUME NEW g \in Seq(Token), NEW rest \in Seq(Token), g # << >>, NEW n,
         NEW no \in BOOLEAN, NEW text, NEW sep, NEW texts,
         g \o rest = <<Line(text, sep)>>, no <=> text \notin texts
  PROVE  Sound(oneOf(texts, g), rest, no, n)
<1>1. rest = << >> /\ Last(g) = Line(text, sep)
  BY OfOne
<1>2. Last(g).text = text
  BY <1>1 DEF Line
<1> QED
  BY <1>1, <1>2 DEF oneOf, Sound

LEMMA OneLineRead ==
  ASSUME NEW g \in Seq(Token), NEW rest \in Seq(Token), g # << >>, NEW n,
         NEW no \in BOOLEAN, NEW code, NEW text,
         g \o rest = <<Line(text, "space")>>, no <=> text # code
  PROVE  Sound(expectSMTP(code, g), rest, no, n)
<1>1. rest = << >> /\ Last(g) = Line(text, "space")
  BY OfOne
<1>2. Last(g).text = text /\ Last(g).sep = "space"
  BY <1>1 DEF Line
<1> QED
  BY <1>1, <1>2 DEF expectSMTP, Sound

\* Every read of every script that takes the whole of a reply: XMPP's fourth
\* stops in the middle of one, and its fifth may.
LEMMA WholeVerdict ==
  ASSUME NEW p \in StartTLSProtocols \cup Proxied, NEW st \in 1..Len(Script(p)),
         Script(p)[st].do = "read", ~(p = "xmpp" /\ st \in {4, 5}),
         NEW g \in Seq(Token), NEW rest \in Seq(Token), g # << >>,
         NEW no \in BOOLEAN, NEW n \in Nat, Fits(p, st, g \o rest, no, n)
  PROVE  Sound(Reads(Script(p)[st], g), rest, no, n)
<1>1. CASE p = "smtp"
  <2>1. Script(p) = smtp
    BY <1>1 DEF Script, Proxied
  <2>2. st \in {1, 3, 5}
    BY <2>1 DEF smtp, Read, Write
  <2>3. PICK code : code = IF st = 3 THEN "250" ELSE "220"
    OBVIOUS
  <2>4. Script(p)[st] = Read("smtp", code)
    BY <2>1, <2>2, <2>3 DEF smtp
  <2>5. Script(p)[st].code = code
    BY <2>4 DEF Read
  <2>6. Reads(Script(p)[st], g) = expectSMTP(code, g)
    BY <2>4, Readers
  <2>7. CASE ~no
    <3>1. EndsIn(g \o rest, {Line(code, "dash")}, {Line(code, "space")})
      BY <1>1, <2>5, <2>7 DEF Fits
    <3>2. Sound(expectSMTP(code, g), rest, FALSE, n)
      BY <3>1, SMTPReads
    <3> QED
      BY <2>6, <2>7, <3>2
  <2>8. CASE no
    <3>1. Nth(p, st) = (st + 1) \div 2
      BY <1>1, <2>2 DEF Nth, AskedBy, First, SpeaksFirst
    <3>2. g \o rest \in No(p)[Nth(p, st)]
      BY <1>1, <2>8 DEF Fits
    <3>3. /\ No(p)[1] = {<<Line("554", "space")>>} /\ No(p)[2] = {<<Line("502", "space")>>}
          /\ No(p)[3] = {<<Line("454", "space")>>}
      BY <1>1 DEF No, Proxied
    <3>4. g \o rest \in {<<Line("554", "space")>>, <<Line("502", "space")>>, <<Line("454", "space")>>}
      <4>1. Nth(p, st) = 1 \/ Nth(p, st) = 2 \/ Nth(p, st) = 3
        BY <2>2, <3>1
      <4> QED
        BY <3>2, <3>3, <4>1
    <3>5. PICK text : text \in {"554", "502", "454"} /\ g \o rest = <<Line(text, "space")>>
      BY <3>4
    <3>6. no <=> text # code
      BY <2>3, <2>8, <3>5
    <3>7. Sound(expectSMTP(code, g), rest, no, n)
      BY <3>5, <3>6, OneLineRead
    <3> QED
      BY <2>6, <3>7
  <2> QED
    BY <2>7, <2>8
<1>2. CASE p = "imap"
  <2>1. Script(p) = imap
    BY <1>2 DEF Script, Proxied
  <2>2. st \in {1, 3}
    BY <2>1 DEF imap, Read, Write
  <2>3. CASE st = 1
    <3>1. Script(p)[st] = Read("greeting", "*OK") /\ Nth(p, st) = 1
      BY <1>2, <2>1, <2>3 DEF imap, Nth, AskedBy, First, SpeaksFirst
    <3>2. g \o rest \in (IF no THEN No(p) ELSE Yes(p))[1]
      BY <1>2, <2>3, <3>1 DEF Fits
    <3>3. PICK text : (no <=> text \notin {"*OK"}) /\ g \o rest = <<Line(text, "none")>>
      BY <1>2, <3>2 DEF Yes, No, Word, Proxied
    <3>4. Sound(oneOf({"*OK"}, g), rest, no, n)
      BY <3>3, OneTokenRead
    <3>5. Reads(Script(p)[st], g) = oneOf({"*OK"}, g)
      BY <3>1, Readers, ZenonT(60)
    <3> QED
      BY <3>4, <3>5
  <2>4. CASE st = 3
    <3>1. Script(p)[st] = Read("tagged", "none")
      BY <2>1, <2>4 DEF imap
    <3>2. Tagged(g \o rest, no)
      BY <1>2, <2>4 DEF Fits
    <3>3. Sound(imapTagged(g), rest, no, n)
      BY <3>2, IMAPReads
    <3>4. Reads(Script(p)[st], g) = imapTagged(g)
      <4>1. Reads(Read("tagged", "none"), g) = imapTagged(g)
        BY Readers
      <4> QED
        BY <3>1, <4>1, Zenon
    <3> QED
      BY <3>3, <3>4
  <2> QED
    BY <2>2, <2>3, <2>4
<1>3. CASE p = "ftp"
  <2>1. Script(p) = ftp
    BY <1>3 DEF Script, Proxied
  <2>2. st \in {1, 3}
    BY <2>1 DEF ftp, Read, Write
  <2>3. PICK code : code = IF st = 1 THEN "220" ELSE "234"
    OBVIOUS
  <2>4. Script(p)[st] = Read("ftp", code)
    BY <2>1, <2>2, <2>3 DEF ftp
  <2>5. Script(p)[st].code = code
    BY <2>4 DEF Read
  <2>6. Reads(Script(p)[st], g) = expectFTP(code, g)
    BY <2>4, Readers
  <2>7. CASE ~no
    <3>1. FTPReply(g \o rest, code, n)
      BY <1>3, <2>5, <2>7 DEF Fits
    <3>2. Sound(expectFTP(code, g), rest, FALSE, n)
      BY <3>1, FTPReads
    <3> QED
      BY <2>6, <2>7, <3>2
  <2>8. CASE no
    <3>1. (g \o rest)[1].text # code
      BY <1>3, <2>5, <2>8 DEF Fits
    <3>2. Sound(expectFTP(code, g), rest, TRUE, n)
      BY <3>1, FTPRefuses
    <3> QED
      BY <2>6, <2>8, <3>2
  <2> QED
    BY <2>7, <2>8
<1>4. CASE p = "nntp"
  <2>1. Script(p) = nntp
    BY <1>4 DEF Script, Proxied
  <2>2. st \in {1, 3}
    BY <2>1 DEF nntp, Read, Write
  <2>3. CASE st = 1
    <3>0. Script(p)[st] = Read("news", "none")
      BY <2>1, <2>3 DEF nntp
    <3>1. Nth(p, st) = 1
      BY <1>4, <2>3 DEF Nth, AskedBy, First, SpeaksFirst
    <3>2. g \o rest \in (IF no THEN No(p) ELSE Yes(p))[1]
      BY <1>4, <3>1 DEF Fits
    <3>3. PICK text : (no <=> text \notin {"200", "201"}) /\ g \o rest = <<Line(text, "space")>>
      BY <1>4, <3>2 DEF Yes, No, Proxied
    <3>4. Sound(oneOf({"200", "201"}, g), rest, no, n)
      BY <3>3, OneTokenRead
    <3>5. Reads(Script(p)[st], g) = oneOf({"200", "201"}, g)
      BY <3>0 DEF Reads, Read
    <3> QED
      BY <3>4, <3>5
  <2>4. CASE st = 3
    <3>1. Script(p)[st] = Read("smtp", "382") /\ Nth(p, st) = 2
      BY <1>4, <2>1, <2>4 DEF nntp, Nth, AskedBy, First, SpeaksFirst
    <3>2. g \o rest \in (IF no THEN No(p) ELSE Yes(p))[2]
      BY <1>4, <3>1 DEF Fits
    <3>3. PICK text : (no <=> text # "382") /\ g \o rest = <<Line(text, "space")>>
      BY <1>4, <3>2 DEF Yes, No, Proxied
    <3>4. Sound(expectSMTP("382", g), rest, no, n)
      BY <3>3, OneLineRead
    <3>5. Reads(Script(p)[st], g) = expectSMTP("382", g)
      BY <3>1, Readers, ZenonT(60)
    <3> QED
      BY <3>4, <3>5
  <2> QED
    BY <2>2, <2>3, <2>4
<1>5. CASE p = "ldap"
  <2>1. st = 2 /\ Script(p)[st] = Read("ldap", "none") /\ Nth(p, st) = 1
    BY <1>5 DEF Script, Proxied, startTLSLDAP, Read, Write, Nth, AskedBy, First, SpeaksFirst
  <2>2. g \o rest \in (IF no THEN No("ldap") ELSE Yes("ldap"))[1]
    BY <1>5, <2>1 DEF Fits
  <2>3. Sound(berValue(g), rest, no, n)
    BY <2>2, LDAPReads
  <2>4. Reads(Script(p)[st], g) = berValue(g)
    BY <2>1, Readers, ZenonT(40)
  <2> QED
    BY <2>3, <2>4
<1>6. CASE p = "xmpp"
  <2>1. Script(p) = startTLSXMPP
    BY <1>6 DEF Script, Proxied
  <2>2. st = 2
    <3>1. Len(Script(p)) = 5 /\ Script(p)[1].do # "read" /\ Script(p)[3].do # "read"
      BY <2>1 DEF startTLSXMPP, Write
    <3>2. st # 1 /\ st # 3 /\ st # 4 /\ st # 5
      BY <1>6, <3>1
    <3> QED
      BY <3>1, <3>2
  <2>3. CASE st = 2
    <3>1. Script(p)[st] = Read("features", "none")
      BY <2>1, <2>3 DEF startTLSXMPP
    <3>2. IF no THEN NoOffer(g \o rest) ELSE Offer(g \o rest, n)
      BY <1>6, <2>3 DEF Fits
    <3>3. Sound(features(g), rest, no, n)
      BY <3>2, OfferRead, NoOfferRead
    <3>4. Reads(Script(p)[st], g) = features(g)
      <4>1. Reads(Read("features", "none"), g) = features(g)
        BY Readers
      <4> QED
        BY <3>1, <4>1, Zenon
    <3> QED
      BY <3>3, <3>4
  <2> QED
    BY <2>2, <2>3
<1>7. CASE p = "mysql"
  <2>1. st = 1 /\ Script(p)[st] = Read("mysql", "none") /\ Nth(p, st) = 1
    BY <1>7 DEF Script, Proxied, startTLSMySQL, Read, Write, Nth, AskedBy, First, SpeaksFirst
  <2>2. g \o rest \in (IF no THEN No("mysql") ELSE Yes("mysql"))[1]
    BY <1>7, <2>1 DEF Fits
  <2>3. Sound(mysqlPacket(g), rest, no, n)
    BY <2>2, MySQLReads
  <2>4. Reads(Script(p)[st], g) = mysqlPacket(g)
    BY <2>1, Readers, ZenonT(40)
  <2> QED
    BY <2>3, <2>4
<1>8. CASE p = "postgres"
  <2>1. st = 2 /\ Script(p)[st] = Read("byte", "S") /\ Nth(p, st) = 1
    BY <1>8 DEF Script, Proxied, postgres, Read, Write, Nth, AskedBy, First, SpeaksFirst
  <2>2. g \o rest \in (IF no THEN No(p) ELSE Yes(p))[1]
    BY <1>8, <2>1 DEF Fits
  <2>3. PICK text : (no <=> text \notin {"S"}) /\ g \o rest = <<Line(text, "none")>>
    BY <1>8, <2>2 DEF Yes, No, Word, Proxied
  <2>4. Sound(oneOf({"S"}, g), rest, no, n)
    BY <2>3, OneTokenRead
  <2>5. Reads(Script(p)[st], g) = oneOf({"S"}, g)
    BY <2>1, Readers, ZenonT(40)
  <2> QED
    BY <2>4, <2>5
<1>9. CASE p \in Proxied
  <2>1. st = 2 \/ (p = "socks5" /\ st = 4)
    BY <1>9 DEF Script, Proxied, socks5Connect, socks5Unnameable, Read, Write
  <2>2. Yes(p) = Yes("socks5") /\ No(p) = No("socks5")
    BY <1>9 DEF Yes, No, Proxied
  <2>3. CASE st = 2
    <3>1. Script(p)[st] = Read("method", "none") /\ Nth(p, st) = 1
      BY <1>9, <2>3
      DEF Script, Proxied, socks5Connect, socks5Unnameable, Nth, AskedBy, First, SpeaksFirst
    <3>2. g \o rest \in (IF no THEN No("socks5") ELSE Yes("socks5"))[1]
      BY <1>9, <2>2, <3>1 DEF Fits, Proxied
    <3>3. Sound(socks5Method(g), rest, no, n)
      BY <3>2, MethodRead
    <3>4. Reads(Script(p)[st], g) = socks5Method(g)
      BY <3>1, Readers, ZenonT(60)
    <3> QED
      BY <3>3, <3>4
  <2>4. CASE p = "socks5" /\ st = 4
    <3>1. Script(p)[st] = Read("connect", "none") /\ Nth(p, st) = 2
      BY <2>4 DEF Script, Proxied, socks5Connect, Nth, AskedBy, First, SpeaksFirst
    <3>2. g \o rest \in (IF no THEN No("socks5") ELSE Yes("socks5"))[2]
      BY <2>4, <3>1 DEF Fits
    <3>3. Sound(socks5Reply(g), rest, no, n)
      BY <3>2, ConnectRead
    <3>4. Reads(Script(p)[st], g) = socks5Reply(g)
      BY <3>1, Readers, ZenonT(60)
    <3> QED
      BY <3>3, <3>4
  <2> QED
    BY <2>1, <2>3, <2>4
<1> QED
  BY <1>1, <1>2, <1>3, <1>4, <1>5, <1>6, <1>7, <1>8, <1>9 DEF StartTLSProtocols

\* Every read but XMPP's fourth.
LEMMA Verdict ==
  ASSUME NEW p \in StartTLSProtocols \cup Proxied, NEW st \in 1..Len(Script(p)),
         Script(p)[st].do = "read", ~(p = "xmpp" /\ st = 4),
         NEW g \in Seq(Token), NEW rest \in Seq(Token), g # << >>,
         NEW no \in BOOLEAN, NEW n \in Nat, Fits(p, st, g \o rest, no, n)
  PROVE  Settles(Reads(Script(p)[st], g), p, st, rest, no, n)
<1>1. CASE p = "xmpp" /\ st = 5
  <2>1. Script(p)[st] = Read("end", "none")
    BY <1>1 DEF Script, Proxied, startTLSXMPP
  <2>2. ~no /\ RestOfElement(g \o rest, n)
    BY <1>1 DEF Fits
  <2>3. Settles(elementEnd(g), "xmpp", 5, rest, FALSE, n)
    BY <2>2, EndRead
  <2>4. Reads(Script(p)[st], g) = elementEnd(g)
    BY <2>1, Readers, ZenonT(40)
  <2> QED
    BY <1>1, <2>2, <2>3, <2>4
<1>2. CASE ~(p = "xmpp" /\ st = 5)
  <2>1. Sound(Reads(Script(p)[st], g), rest, no, n)
    BY <1>2, WholeVerdict
  <2> QED
    BY <2>1 DEF Sound, Settles
<1> QED
  BY <1>1, <1>2

LEMMA DropHead ==
  ASSUME NEW g \in Seq(Token), NEW rest \in Seq(Token), Len(g) = 1
  PROVE  Tail(g \o rest) = rest
<1>1. /\ g \o rest \in Seq(Token) /\ Len(g \o rest) = Len(g) + Len(rest)
      /\ \A i \in 1..Len(g) + Len(rest) :
           (g \o rest)[i] = IF i <= Len(g) THEN g[i] ELSE rest[i - Len(g)]
  BY ONLY ConcatProperties, g \in Seq(Token), rest \in Seq(Token)
<1>2. PICK s : s = g \o rest
  OBVIOUS
<1>3. s \in Seq(Token) /\ Len(s) = 1 + Len(rest) /\ \A i \in 1..Len(rest) : s[i + 1] = rest[i]
  <2>1. ASSUME NEW i \in 1..Len(rest)
        PROVE  s[i + 1] = rest[i]
    <3>1. i + 1 \in 1..1 + Len(rest) /\ ~(i + 1 <= 1) /\ (i + 1) - 1 = i
      OBVIOUS
    <3> QED
      BY <1>1, <1>2, <3>1
  <2> QED
    BY <1>1, <1>2, <2>1
<1>4. /\ Tail(s) \in Seq(Token) /\ Len(Tail(s)) = Len(rest)
      /\ \A i \in 1..Len(rest) : Tail(s)[i] = rest[i]
  BY <1>3
<1> QED
  BY <1>2, <1>4, SeqEqual

LEMMA Proceeds ==
  ASSUME NEW g \in Seq(Token), NEW rest \in Seq(Token), Len(g) = 1,
         NEW no \in BOOLEAN, NEW n \in Nat, Fits("xmpp", 4, g \o rest, no, n)
  PROVE  /\ Reads(Script("xmpp")[4], g) = IF no THEN "fail" ELSE "ok"
         /\ ~no => RestOfElement(rest, n)
<1>1. Script("xmpp")[4] = Read("proceed", "none")
  BY DEF Script, Proxied, startTLSXMPP
<1>2. (g \o rest)[1] = Word(IF no THEN "<failure" ELSE "<proceed")
  BY DEF Fits
<1>3. g[1] = (g \o rest)[1]
  BY Prefix
<1>4. Tail(g \o rest) = rest
  BY DropHead
<1>5. proceed(g) = IF no THEN "fail" ELSE "ok"
  BY <1>2, <1>3, ProceedRead
<1>6. Reads(Script("xmpp")[4], g) = proceed(g)
  BY <1>1 DEF Reads, Read
<1>7. ~no => RestOfElement(Tail(g \o rest), n)
  BY DEF Fits
<1> QED
  BY <1>4, <1>5, <1>6, <1>7

----------------------------------------------------------------------------
(* The server's replies.                                                   *)

Reply == Seq(Token) \ {<< >>}

LEMMA Short ==
  \A a, b, c, d \in Token :
     <<a>> \in Reply /\ <<a, b>> \in Reply /\ <<a, b, c>> \in Reply /\ <<a, b, c, d>> \in Reply
  BY DEF Reply

\* Every reply is made of tokens, and has one.
LEMMA Replies ==
  ASSUME NEW p \in StartTLSProtocols \cup Proxied, NEW i \in 1..Len(Yes(p)),
         NEW r \in Yes(p)[i] \cup No(p)[i]
  PROVE  r \in Reply
<1>1. CASE p = "smtp"
  <2>1. i \in 1..3
    BY <1>1 DEF Yes, Proxied
  <2>2. CASE i = 1
    <3>1. r \in {<<Line("220", "space")>>,
                <<Line("220", "dash"), Line("220", "dash"), Line("220", "space")>>,
                <<Line("554", "space")>>}
      BY <1>1, <2>2 DEF Yes, No, Lines, Proxied
    <3>2. /\ Line("220", "dash") \in Token
          /\ Line("220", "space") \in Token
          /\ Line("554", "space") \in Token
      BY DEF Word, Line, Token, Texts
    <3>3. /\ <<Line("220", "space")>> \in Reply
          /\ <<Line("220", "dash"), Line("220", "dash"), Line("220", "space")>> \in Reply
          /\ <<Line("554", "space")>> \in Reply
      BY <3>2, Short
    <3> QED
      BY <3>1, <3>3
  <2>3. CASE i = 2
    <3>1. r \in {<<Line("250", "space")>>,
                <<Line("250", "dash"), Line("250", "dash"), Line("250", "space")>>,
                <<Line("502", "space")>>}
      BY <1>1, <2>3 DEF Yes, No, Lines, Proxied
    <3>2. /\ Line("250", "dash") \in Token
          /\ Line("250", "space") \in Token
          /\ Line("502", "space") \in Token
      BY DEF Word, Line, Token, Texts
    <3>3. /\ <<Line("250", "space")>> \in Reply
          /\ <<Line("250", "dash"), Line("250", "dash"), Line("250", "space")>> \in Reply
          /\ <<Line("502", "space")>> \in Reply
      BY <3>2, Short
    <3> QED
      BY <3>1, <3>3
  <2>4. CASE i = 3
    <3>1. r \in {<<Line("220", "space")>>,
                <<Line("220", "dash"), Line("220", "dash"), Line("220", "space")>>,
                <<Line("454", "space")>>}
      BY <1>1, <2>4 DEF Yes, No, Lines, Proxied
    <3>2. /\ Line("220", "dash") \in Token
          /\ Line("220", "space") \in Token
          /\ Line("454", "space") \in Token
      BY DEF Word, Line, Token, Texts
    <3>3. /\ <<Line("220", "space")>> \in Reply
          /\ <<Line("220", "dash"), Line("220", "dash"), Line("220", "space")>> \in Reply
          /\ <<Line("454", "space")>> \in Reply
      BY <3>2, Short
    <3> QED
      BY <3>1, <3>3
  <2> QED
    BY <2>1, <2>2, <2>3, <2>4
<1>2. CASE p = "imap"
  <2>1. i \in 1..2
    BY <1>2 DEF Yes, Proxied
  <2>2. CASE i = 1
    <3>1. r \in {<<Word("*OK")>>,
                <<Word("*BYE")>>}
      BY <1>2, <2>2 DEF Yes, No, Proxied
    <3>2. /\ Word("*BYE") \in Token
          /\ Word("*OK") \in Token
      BY DEF Word, Line, Token, Texts
    <3>3. /\ <<Word("*OK")>> \in Reply
          /\ <<Word("*BYE")>> \in Reply
      BY <3>2, Short
    <3> QED
      BY <3>1, <3>3
  <2>3. CASE i = 2
    <3>1. r \in {<<Word("a1-OK")>>,
                <<Word("*CAPABILITY"), Word("a1-OK")>>,
                <<Word("a1-NO")>>,
                <<Word("*ALERT"), Word("a1-NO")>>}
      BY <1>2, <2>3 DEF Yes, No, Proxied
    <3>2. /\ Word("*ALERT") \in Token
          /\ Word("*CAPABILITY") \in Token
          /\ Word("a1-NO") \in Token
          /\ Word("a1-OK") \in Token
      BY DEF Word, Line, Token, Texts
    <3>3. /\ <<Word("a1-OK")>> \in Reply
          /\ <<Word("*CAPABILITY"), Word("a1-OK")>> \in Reply
          /\ <<Word("a1-NO")>> \in Reply
          /\ <<Word("*ALERT"), Word("a1-NO")>> \in Reply
      BY <3>2, Short
    <3> QED
      BY <3>1, <3>3
  <2> QED
    BY <2>1, <2>2, <2>3
<1>3. CASE p = "ftp"
  <2>1. i \in 1..2
    BY <1>3 DEF Yes, Proxied
  <2>2. CASE i = 1
    <3>1. r \in {<<Line("220", "space")>>,
                <<Line("220", "dash"), Word("terms"), Line("220", "space")>>,
                <<Line("421", "space")>>}
      BY <1>3, <2>2 DEF Yes, No, Lines, Proxied
    <3>2. /\ Line("220", "dash") \in Token
          /\ Line("220", "space") \in Token
          /\ Line("421", "space") \in Token
          /\ Word("terms") \in Token
      BY DEF Word, Line, Token, Texts
    <3>3. /\ <<Line("220", "space")>> \in Reply
          /\ <<Line("220", "dash"), Word("terms"), Line("220", "space")>> \in Reply
          /\ <<Line("421", "space")>> \in Reply
      BY <3>2, Short
    <3> QED
      BY <3>1, <3>3
  <2>3. CASE i = 2
    <3>1. r \in {<<Line("234", "space")>>,
                <<Line("234", "dash"), Word("so-be-it"), Line("234", "space")>>,
                <<Line("534", "space")>>,
                <<Line("502", "dash"), Word("no"), Line("502", "space")>>}
      BY <1>3, <2>3 DEF Yes, No, Lines, Proxied
    <3>2. /\ Line("234", "dash") \in Token
          /\ Line("234", "space") \in Token
          /\ Line("502", "dash") \in Token
          /\ Line("502", "space") \in Token
          /\ Line("534", "space") \in Token
          /\ Word("no") \in Token
          /\ Word("so-be-it") \in Token
      BY DEF Word, Line, Token, Texts
    <3>3. /\ <<Line("234", "space")>> \in Reply
          /\ <<Line("234", "dash"), Word("so-be-it"), Line("234", "space")>> \in Reply
          /\ <<Line("534", "space")>> \in Reply
          /\ <<Line("502", "dash"), Word("no"), Line("502", "space")>> \in Reply
      BY <3>2, Short
    <3> QED
      BY <3>1, <3>3
  <2> QED
    BY <2>1, <2>2, <2>3
<1>4. CASE p = "nntp"
  <2>1. i \in 1..2
    BY <1>4 DEF Yes, Proxied
  <2>2. CASE i = 1
    <3>1. r \in {<<Line("200", "space")>>,
                <<Line("201", "space")>>,
                <<Line("400", "space")>>}
      BY <1>4, <2>2 DEF Yes, No, Proxied
    <3>2. /\ Line("200", "space") \in Token
          /\ Line("201", "space") \in Token
          /\ Line("400", "space") \in Token
      BY DEF Word, Line, Token, Texts
    <3>3. /\ <<Line("200", "space")>> \in Reply
          /\ <<Line("201", "space")>> \in Reply
          /\ <<Line("400", "space")>> \in Reply
      BY <3>2, Short
    <3> QED
      BY <3>1, <3>3
  <2>3. CASE i = 2
    <3>1. r \in {<<Line("382", "space")>>,
                <<Line("580", "space")>>}
      BY <1>4, <2>3 DEF Yes, No, Proxied
    <3>2. /\ Line("382", "space") \in Token
          /\ Line("580", "space") \in Token
      BY DEF Word, Line, Token, Texts
    <3>3. /\ <<Line("382", "space")>> \in Reply
          /\ <<Line("580", "space")>> \in Reply
      BY <3>2, Short
    <3> QED
      BY <3>1, <3>3
  <2> QED
    BY <2>1, <2>2, <2>3
<1>5. CASE p = "ldap"
  <2>1. i \in 1..1
    BY <1>5 DEF Yes, Proxied
  <2>2. CASE i = 1
    <3>1. r \in {<<Line("0x30", "short"), Word("yes")>>,
                <<Line("0x30", "long"), Line("length", "none"), Word("yes-long")>>,
                <<Line("0x30", "short"), Word("no")>>,
                <<Line("0x30", "long"), Line("length", "none"), Word("no-long")>>,
                <<Line("0x30", "long"), Line("length", "huge")>>,
                <<Line("0x30", "bad")>>,
                <<Line("HTTP", "none")>>,
                <<Line("0x30", "short"), Word("cut")>>}
      BY <1>5, <2>2 DEF Yes, No, Proxied
    <3>2. /\ Line("0x30", "bad") \in Token
          /\ Line("0x30", "long") \in Token
          /\ Line("0x30", "short") \in Token
          /\ Line("HTTP", "none") \in Token
          /\ Line("length", "huge") \in Token
          /\ Line("length", "none") \in Token
          /\ Word("cut") \in Token
          /\ Word("no") \in Token
          /\ Word("no-long") \in Token
          /\ Word("yes") \in Token
          /\ Word("yes-long") \in Token
      BY DEF Word, Line, Token, Texts
    <3>3. /\ <<Line("0x30", "short"), Word("yes")>> \in Reply
          /\ <<Line("0x30", "long"), Line("length", "none"), Word("yes-long")>> \in Reply
          /\ <<Line("0x30", "short"), Word("no")>> \in Reply
          /\ <<Line("0x30", "long"), Line("length", "none"), Word("no-long")>> \in Reply
          /\ <<Line("0x30", "long"), Line("length", "huge")>> \in Reply
          /\ <<Line("0x30", "bad")>> \in Reply
          /\ <<Line("HTTP", "none")>> \in Reply
          /\ <<Line("0x30", "short"), Word("cut")>> \in Reply
      BY <3>2, Short
    <3> QED
      BY <3>1, <3>3
  <2> QED
    BY <2>1, <2>2
<1>6. CASE p = "xmpp"
  <2>1. i \in 1..2
    BY <1>6 DEF Yes, Proxied
  <2>2. CASE i = 1
    <3>1. r \in {<<Word("<stream:stream>"), Word("<starttls"), Word("/>"), Word("</stream:features>")>>,
                <<Word("<stream:stream>"), Word("</stream:features>")>>,
                <<Word("<stream:stream>"), Word("<stream:error"), Word("</stream:stream>")>>}
      BY <1>6, <2>2 DEF Yes, No, Proxied
    <3>2. /\ Word("/>") \in Token
          /\ Word("</stream:features>") \in Token
          /\ Word("</stream:stream>") \in Token
          /\ Word("<starttls") \in Token
          /\ Word("<stream:error") \in Token
          /\ Word("<stream:stream>") \in Token
      BY DEF Word, Line, Token, Texts
    <3>3. /\ <<Word("<stream:stream>"), Word("<starttls"), Word("/>"), Word("</stream:features>")>> \in Reply
          /\ <<Word("<stream:stream>"), Word("</stream:features>")>> \in Reply
          /\ <<Word("<stream:stream>"), Word("<stream:error"), Word("</stream:stream>")>> \in Reply
      BY <3>2, Short
    <3> QED
      BY <3>1, <3>3
  <2>3. CASE i = 2
    <3>1. r \in {<<Word("<proceed"), Word("/>")>>,
                <<Word("<proceed"), Word(">"), Word("</proceed>")>>,
                <<Word("<failure"), Word("/>"), Word("</stream:stream>")>>}
      BY <1>6, <2>3 DEF Yes, No, Proxied
    <3>2. /\ Word("/>") \in Token
          /\ Word("</stream:stream>") \in Token
          /\ Word("<failure") \in Token
          /\ Word("<proceed") \in Token
          /\ Word(">") \in Token
          /\ Word("</proceed>") \in Token
      BY DEF Word, Line, Token, Texts
    <3>3. /\ <<Word("<proceed"), Word("/>")>> \in Reply
          /\ <<Word("<proceed"), Word(">"), Word("</proceed>")>> \in Reply
          /\ <<Word("<failure"), Word("/>"), Word("</stream:stream>")>> \in Reply
      BY <3>2, Short
    <3> QED
      BY <3>1, <3>3
  <2> QED
    BY <2>1, <2>2, <2>3
<1>7. CASE p = "mysql"
  <2>1. i \in 1..1
    BY <1>7 DEF Yes, Proxied
  <2>2. CASE i = 1
    <3>1. r \in {<<Line("header", "none"), Word("with-TLS")>>,
                <<Line("header", "none"), Word("without-TLS")>>,
                <<Line("header", "none"), Word("ERR")>>,
                <<Line("header", "none"), Word("cut")>>,
                <<Line("header", "empty")>>,
                <<Line("header", "huge")>>}
      BY <1>7, <2>2 DEF Yes, No, Proxied
    <3>2. /\ Line("header", "empty") \in Token
          /\ Line("header", "huge") \in Token
          /\ Line("header", "none") \in Token
          /\ Word("ERR") \in Token
          /\ Word("cut") \in Token
          /\ Word("with-TLS") \in Token
          /\ Word("without-TLS") \in Token
      BY DEF Word, Line, Token, Texts
    <3>3. /\ <<Line("header", "none"), Word("with-TLS")>> \in Reply
          /\ <<Line("header", "none"), Word("without-TLS")>> \in Reply
          /\ <<Line("header", "none"), Word("ERR")>> \in Reply
          /\ <<Line("header", "none"), Word("cut")>> \in Reply
          /\ <<Line("header", "empty")>> \in Reply
          /\ <<Line("header", "huge")>> \in Reply
      BY <3>2, Short
    <3> QED
      BY <3>1, <3>3
  <2> QED
    BY <2>1, <2>2
<1>8. CASE p = "postgres"
  <2>1. i \in 1..1
    BY <1>8 DEF Yes, Proxied
  <2>2. CASE i = 1
    <3>1. r \in {<<Word("S")>>,
                <<Word("N")>>,
                <<Word("E")>>}
      BY <1>8, <2>2 DEF Yes, No, Proxied
    <3>2. /\ Word("E") \in Token
          /\ Word("N") \in Token
          /\ Word("S") \in Token
      BY DEF Word, Line, Token, Texts
    <3>3. /\ <<Word("S")>> \in Reply
          /\ <<Word("N")>> \in Reply
          /\ <<Word("E")>> \in Reply
      BY <3>2, Short
    <3> QED
      BY <3>1, <3>3
  <2> QED
    BY <2>1, <2>2
<1>9. CASE p \in Proxied
  <2>1. i \in 1..2
    BY <1>9 DEF Yes, Proxied
  <2>2. CASE i = 1
    <3>1. r \in {<<Word("5"), Word("no-auth")>>,
                <<Word("5"), Word("password")>>,
                <<Word("HTTP"), Word("/1.1")>>}
      BY <1>9, <2>2 DEF Yes, No, Proxied
    <3>2. /\ Word("/1.1") \in Token
          /\ Word("5") \in Token
          /\ Word("HTTP") \in Token
          /\ Word("no-auth") \in Token
          /\ Word("password") \in Token
      BY DEF Word, Line, Token, Texts
    <3>3. /\ <<Word("5"), Word("no-auth")>> \in Reply
          /\ <<Word("5"), Word("password")>> \in Reply
          /\ <<Word("HTTP"), Word("/1.1")>> \in Reply
      BY <3>2, Short
    <3> QED
      BY <3>1, <3>3
  <2>3. CASE i = 2
    <3>1. r \in {<<Line("granted", "IPv4"), Word("address"), Word("port")>>,
                <<Line("granted", "IPv6"), Word("address"), Word("port")>>,
                <<Line("granted", "name"), Word("length"), Word("address"), Word("port")>>,
                <<Line("denied", "IPv4"), Word("address"), Word("port")>>,
                <<Line("granted", "unknown")>>}
      BY <1>9, <2>3 DEF Yes, No, Proxied
    <3>2. /\ Line("denied", "IPv4") \in Token
          /\ Line("granted", "IPv4") \in Token
          /\ Line("granted", "IPv6") \in Token
          /\ Line("granted", "name") \in Token
          /\ Line("granted", "unknown") \in Token
          /\ Word("address") \in Token
          /\ Word("length") \in Token
          /\ Word("port") \in Token
      BY DEF Word, Line, Token, Texts
    <3>3. /\ <<Line("granted", "IPv4"), Word("address"), Word("port")>> \in Reply
          /\ <<Line("granted", "IPv6"), Word("address"), Word("port")>> \in Reply
          /\ <<Line("granted", "name"), Word("length"), Word("address"), Word("port")>> \in Reply
          /\ <<Line("denied", "IPv4"), Word("address"), Word("port")>> \in Reply
          /\ <<Line("granted", "unknown")>> \in Reply
      BY <3>2, Short
    <3> QED
      BY <3>1, <3>3
  <2> QED
    BY <2>1, <2>2, <2>3
<1> QED
  BY <1>1, <1>2, <1>3, <1>4, <1>5, <1>6, <1>7, <1>8, <1>9 DEF StartTLSProtocols

LEMMA ShortEnds ==
  ASSUME NEW mids, NEW ends
  PROVE  /\ \A b \in ends : EndsIn(<<b>>, mids, ends)
         /\ \A a \in mids, b \in ends : EndsIn(<<a, b>>, mids, ends)
         /\ \A a, c \in mids, b \in ends : EndsIn(<<a, c, b>>, mids, ends)
<1>1. ASSUME NEW b \in ends
      PROVE  EndsIn(<<b>>, mids, ends)
  <2>1. Len(<<b>>) = 1 /\ <<b>>[1] = b /\ <<b>> # << >>
    OBVIOUS
  <2> QED
    BY <2>1 DEF EndsIn
<1>2. ASSUME NEW a \in mids, NEW b \in ends
      PROVE  EndsIn(<<a, b>>, mids, ends)
  <2>1. /\ Len(<<a, b>>) = 2 /\ <<a, b>>[1] = a /\ <<a, b>>[2] = b /\ <<a, b>> # << >>
        /\ 1..2 - 1 = {1}
    OBVIOUS
  <2> QED
    BY <2>1 DEF EndsIn
<1>3. ASSUME NEW a \in mids, NEW c \in mids, NEW b \in ends
      PROVE  EndsIn(<<a, c, b>>, mids, ends)
  <2>1. /\ Len(<<a, c, b>>) = 3 /\ <<a, c, b>>[1] = a /\ <<a, c, b>>[2] = c
        /\ <<a, c, b>>[3] = b /\ <<a, c, b>> # << >> /\ 1..3 - 1 = {1, 2}
    OBVIOUS
  <2> QED
    BY <2>1 DEF EndsIn
<1> QED
  BY <1>1, <1>2, <1>3

\* A reply around a banner, as SMTP and as FTP have them.
LEMMA LinesOfSMTP ==
  ASSUME NEW code, NEW r \in Lines(code, Line(code, "dash"))
  PROVE  EndsIn(r, {Line(code, "dash")}, {Line(code, "space")})
<1>1. PICK a, b : a = Line(code, "dash") /\ b = Line(code, "space")
  OBVIOUS
<1>2. r = <<b>> \/ r = <<a, a, b>>
  BY <1>1 DEF Lines
<1>3. EndsIn(r, {a}, {b})
  BY <1>2, ShortEnds
<1> QED
  BY <1>1, <1>3

LEMMA LinesOfFTP ==
  ASSUME NEW code, NEW c, c # Line(code, "space"), NEW n \in Nat, NEW r \in Lines(code, c)
  PROVE  FTPReply(r, code, n)
<1>1. PICK a, b : a = Line(code, "dash") /\ b = Line(code, "space")
  OBVIOUS
<1>2. a # b /\ c # b
  BY <1>1 DEF Line
<1>3. r = <<b>> \/ r = <<a, c, b>>
  BY <1>1 DEF Lines
<1>4. CASE r = <<b>>
  <2>1. Len(r) = 1 /\ r[1] = b /\ r # << >>
    BY <1>4
  <2> QED
    BY <1>1, <2>1 DEF FTPReply
<1>5. CASE r = <<a, c, b>>
  <2>1. Len(r) = 3 /\ r[1] = a /\ r[2] = c /\ r[3] = b /\ r # << >>
    BY <1>5
  <2>2. \A i \in 1..Len(r) - 1 : r[i] # b
    <3>1. 1..Len(r) - 1 = {1, 2}
      BY <2>1
    <3> QED
      BY <1>2, <2>1, <3>1
  <2> QED
    BY <1>1, <2>1, <2>2 DEF FTPReply
<1> QED
  BY <1>3, <1>4, <1>5

\* The replies that a read may find begin as that read wants them, whole.
LEMMA Begins ==
  ASSUME NEW p \in StartTLSProtocols \cup Proxied, NEW st \in 1..Len(Script(p)),
         Script(p)[st].do = "read", ~(p = "xmpp" /\ st = 5),
         NEW no \in BOOLEAN, NEW n \in Nat,
         NEW r \in (IF no THEN No(p) ELSE Yes(p))[Nth(p, st)]
  PROVE  Fits(p, st, r, no, n)
<1>1. CASE p = "smtp" /\ ~no
  <2>1. PICK code : code = Script(p)[st].code
    OBVIOUS
  <2>2. st \in {1, 3, 5} /\ code = IF st = 3 THEN "250" ELSE "220"
    BY <1>1, <2>1 DEF Script, Proxied, smtp, Read, Write
  <2>3. Nth(p, st) = IF st = 1 THEN 1 ELSE IF st = 3 THEN 2 ELSE 3
    BY <1>1, <2>2 DEF Nth, AskedBy, First, SpeaksFirst
  <2>4. Yes(p)[Nth(p, st)] = Lines(code, Line(code, "dash"))
    <3>1. /\ Yes(p)[1] = Lines("220", Line("220", "dash"))
          /\ Yes(p)[2] = Lines("250", Line("250", "dash"))
          /\ Yes(p)[3] = Lines("220", Line("220", "dash"))
      BY <1>1 DEF Yes, Proxied
    <3> QED
      BY <2>2, <2>3, <3>1
  <2>5. EndsIn(r, {Line(code, "dash")}, {Line(code, "space")})
    BY <1>1, <2>4, LinesOfSMTP
  <2> QED
    BY <1>1, <2>1, <2>5 DEF Fits
<1>2. CASE p = "ftp"
  <2>1. PICK code : code = Script(p)[st].code
    OBVIOUS
  <2>2. st \in {1, 3} /\ code = IF st = 1 THEN "220" ELSE "234"
    BY <1>2, <2>1 DEF Script, Proxied, ftp, Read, Write
  <2>3. Nth(p, st) = IF st = 1 THEN 1 ELSE 2
    BY <1>2, <2>2 DEF Nth, AskedBy, First, SpeaksFirst
  <2>4. CASE ~no
    <3>1. Yes(p)[1] = Lines("220", Word("terms")) /\ Yes(p)[2] = Lines("234", Word("so-be-it"))
      BY <1>2 DEF Yes, Proxied
    <3>2. PICK text : text \in {"terms", "so-be-it"} /\ r \in Lines(code, Word(text))
      BY <2>2, <2>3, <2>4, <3>1
    <3>3. Word(text) # Line(code, "space")
      BY DEF Word, Line
    <3>4. FTPReply(r, code, n)
      BY <3>2, <3>3, LinesOfFTP
    <3> QED
      BY <1>2, <2>1, <2>4, <3>4 DEF Fits
  <2>5. CASE no
    <3>1. /\ No(p)[1] = {<<Line("421", "space")>>}
          /\ No(p)[2] = {<<Line("534", "space")>>, <<Line("502", "dash"), Word("no"), Line("502", "space")>>}
      BY <1>2 DEF No, Proxied
    <3>2. r \in {<<Line("421", "space")>>, <<Line("534", "space")>>,
                 <<Line("502", "dash"), Word("no"), Line("502", "space")>>}
      BY <2>3, <2>5, <3>1
    <3>3. r # << >> /\ r[1].text \in {"421", "534", "502"}
      BY <3>2 DEF Line
    <3>4. r[1].text # code
      BY <2>2, <3>3
    <3> QED
      BY <1>2, <2>1, <2>5, <3>3, <3>4 DEF Fits
  <2> QED
    BY <2>4, <2>5
<1>3. CASE p = "imap" /\ st = 3
  <2>1. Nth(p, st) = 2
    BY <1>3 DEF Nth, AskedBy, First, SpeaksFirst
  <2>2. CASE ~no
    <3>1. r \in {<<Word("a1-OK")>>, <<Word("*CAPABILITY"), Word("a1-OK")>>}
      BY <1>3, <2>1, <2>2 DEF Yes, Proxied
    <3>2. Tagged(r, no)
      BY <2>2, <3>1, ShortEnds DEF Tagged
    <3> QED
      BY <1>3, <3>2 DEF Fits
  <2>3. CASE no
    <3>1. r \in {<<Word("a1-NO")>>, <<Word("*ALERT"), Word("a1-NO")>>}
      BY <1>3, <2>1, <2>3 DEF No, Proxied
    <3>2. Tagged(r, no)
      BY <2>3, <3>1, ShortEnds DEF Tagged
    <3> QED
      BY <1>3, <3>2 DEF Fits
  <2> QED
    BY <2>2, <2>3
<1>4. CASE p = "xmpp" /\ st = 2
  <2>1. Nth(p, st) = 1
    BY <1>4 DEF Nth, AskedBy, First, SpeaksFirst
  <2>2. CASE ~no
    <3>1. r = <<Word("<stream:stream>"), Word("<starttls"), Word("/>"), Word("</stream:features>")>>
      BY <1>4, <2>1, <2>2 DEF Yes, Proxied
    <3>2. /\ Len(r) = 4 /\ r # << >> /\ r[1] = Word("<stream:stream>") /\ r[2] = Word("<starttls")
          /\ r[3] = Word("/>") /\ r[4] = Word("</stream:features>")
      BY <3>1
    <3>3. Offer(r, n)
      BY <3>2 DEF Offer, EndsIn
    <3> QED
      BY <1>4, <2>2, <3>3 DEF Fits
  <2>3. CASE no
    <3>1. r \in {<<Word("<stream:stream>"), Word("</stream:features>")>>,
                 <<Word("<stream:stream>"), Word("<stream:error"), Word("</stream:stream>")>>}
      BY <1>4, <2>1, <2>3 DEF No, Proxied
    <3>2. CASE r = <<Word("<stream:stream>"), Word("</stream:features>")>>
      <4>1. /\ Len(r) = 2 /\ r # << >> /\ r[1].text = "<stream:stream>"
            /\ r[2] = Word("</stream:features>") /\ r[2].text = "</stream:features>"
        BY <3>2 DEF Word, Line
      <4>2. \A i \in 1..Len(r) : i = 1 \/ i = 2
        BY <4>1
      <4>3. \A i \in 1..Len(r) : r[i].text # "<starttls"
        BY <4>1, <4>2
      <4>4. r[Len(r)] \in {Word("</stream:features>"), Word("</stream:stream>")}
        BY <4>1
      <4>5. NoOffer(r)
        BY <4>1, <4>3, <4>4 DEF NoOffer
      <4> QED
        BY <1>4, <2>3, <4>5 DEF Fits
    <3>3. CASE r = <<Word("<stream:stream>"), Word("<stream:error"), Word("</stream:stream>")>>
      <4>1. /\ Len(r) = 3 /\ r # << >> /\ r[1].text = "<stream:stream>"
            /\ r[2].text = "<stream:error" /\ r[3] = Word("</stream:stream>")
            /\ r[3].text = "</stream:stream>"
        BY <3>3 DEF Word, Line
      <4>2. \A i \in 1..Len(r) : i = 1 \/ i = 2 \/ i = 3
        BY <4>1
      <4>3. \A i \in 1..Len(r) : r[i].text # "<starttls"
        BY <4>1, <4>2
      <4>4. r[Len(r)] \in {Word("</stream:features>"), Word("</stream:stream>")}
        BY <4>1
      <4>5. NoOffer(r)
        BY <4>1, <4>3, <4>4 DEF NoOffer
      <4> QED
        BY <1>4, <2>3, <4>5 DEF Fits
    <3> QED
      BY <3>1, <3>2, <3>3
  <2> QED
    BY <2>2, <2>3
<1>5. CASE p = "xmpp" /\ st = 4
  <2>1. Nth(p, st) = 2
    BY <1>5 DEF Nth, AskedBy, First, SpeaksFirst
  <2>2. CASE ~no
    <3>1. CASE r = <<Word("<proceed"), Word("/>")>>
      <4>1. r # << >> /\ r[1] = Word("<proceed") /\ Tail(r) = <<Word("/>")>>
        BY <3>1
      <4>2. EndsIn(<<Word("/>")>>, {Word("attribute")}, {Word("/>")})
        BY ShortEnds
      <4>3. Len(<<Word("/>")>>) <= 1 + n
        OBVIOUS
      <4>4. RestOfElement(Tail(r), n)
        BY <4>1, <4>2, <4>3 DEF RestOfElement
      <4> QED
        BY <1>5, <2>2, <4>1, <4>4 DEF Fits
    <3>2. CASE r = <<Word("<proceed"), Word(">"), Word("</proceed>")>>
      <4>1. /\ r # << >> /\ r[1] = Word("<proceed")
            /\ Tail(r) = <<Word(">"), Word("</proceed>")>>
        BY <3>2
      <4>2. RestOfElement(<<Word(">"), Word("</proceed>")>>, n)
        BY DEF RestOfElement
      <4>3. RestOfElement(Tail(r), n)
        BY <4>1, <4>2
      <4> QED
        BY <1>5, <2>2, <4>1, <4>3 DEF Fits
    <3> QED
      BY <1>5, <2>1, <2>2, <3>1, <3>2 DEF Yes, Proxied
  <2>3. CASE no
    <3>1. r = <<Word("<failure"), Word("/>"), Word("</stream:stream>")>>
      BY <1>5, <2>1, <2>3 DEF No, Proxied
    <3>2. r # << >> /\ r[1] = Word("<failure")
      BY <3>1
    <3> QED
      BY <1>5, <2>3, <3>2 DEF Fits
  <2> QED
    BY <2>2, <2>3
<1>6. CASE /\ ~(p = "smtp" /\ ~no) /\ p # "ftp" /\ ~(p = "imap" /\ st = 3)
           /\ ~(p = "xmpp" /\ st \in {2, 4, 5})
  <2>1. Fits(p, st, r, no, n) <=> r \in (IF no THEN No(p) ELSE Yes(p))[Nth(p, st)]
    BY <1>6 DEF Fits
  <2> QED
    BY <2>1
<1> QED
  BY <1>1, <1>2, <1>3, <1>4, <1>5, <1>6

----------------------------------------------------------------------------
(* What moves from one place to the next leaves the reply what it was.     *)

LEMMA HeadAndTail ==
  ASSUME NEW b \in Seq(Token), b # << >>
  PROVE  b = <<Head(b)>> \o Tail(b)
<1>1. 1 \in 1..Len(b) /\ Len(b) \in 1..Len(b) /\ Head(b) = b[1]
  OBVIOUS
<1>2. SubSeq(b, 1, Len(b)) = <<b[1]>> \o SubSeq(b, 1 + 1, Len(b))
  BY <1>1, SubSeqRecursiveFirst
<1>3. SubSeq(b, 1, Len(b)) = b /\ SubSeq(b, 2, Len(b)) = Tail(b)
  BY SubSeqFull, TailIsSubSeq
<1> QED
  BY <1>1, <1>2, <1>3, 1 + 1 = 2

LEMMA Moved ==
  ASSUME NEW a \in Seq(Token), NEW b \in Seq(Token), b # << >>
  PROVE  /\ Append(a, Head(b)) \in Seq(Token) /\ Tail(b) \in Seq(Token)
         /\ Append(a, Head(b)) \o Tail(b) = a \o b
<1>1. PICK h \in Token : h = Head(b)
  BY HeadTailProperties
<1>2. PICK y \in Seq(Token) : y = Tail(b)
  BY HeadTailProperties
<1>3. b = <<h>> \o y
  BY <1>1, <1>2, HeadAndTail
<1>4. Append(a, h) \in Seq(Token) /\ Append(a, h) = a \o <<h>>
  BY AppendProperties, AppendIsConcat
<1>5. <<h>> \in Seq(Token)
  OBVIOUS
<1>6. (a \o <<h>>) \o y = a \o (<<h>> \o y)
  BY <1>5, ConcatAssociative, SMTT(30)
<1> QED
  BY <1>1, <1>2, <1>3, <1>4, <1>6

LEMMA TailOfBoth ==
  ASSUME NEW a \in Seq(Token), NEW b \in Seq(Token), a # << >>
  PROVE  Tail(a \o b) = Tail(a) \o b
<1>1. a \o b \in Seq(Token) /\ a \o b # << >>
  BY ConcatProperties, ConcatEqualIffEmpty
<1>2. PICK h \in Token, c \in Seq(Token) : h = Head(a) /\ c = Tail(a)
  BY HeadTailProperties
<1>3. a = <<h>> \o c /\ a \o b = <<Head(a \o b)>> \o Tail(a \o b)
  BY <1>1, <1>2, HeadAndTail
<1>4. Head(a \o b) = h /\ Tail(a \o b) \in Seq(Token) /\ <<h>> \in Seq(Token) /\ c \o b \in Seq(Token)
  BY <1>1, <1>2
<1>5. (<<h>> \o c) \o b = <<h>> \o (c \o b)
  BY <1>4, ConcatAssociative, SMTT(30)
<1>6. <<h>> \o Tail(a \o b) = <<h>> \o (c \o b)
  BY <1>3, <1>4, <1>5
<1> QED
  BY <1>2, <1>4, <1>6, ConcatSimplifications

LEMMA Appended ==
  ASSUME NEW a \in Seq(Token), NEW b \in Seq(Token), NEW e \in Token
  PROVE  /\ Append(b, e) \in Seq(Token)
         /\ a \o Append(b, e) = Append(a \o b, e)
<1>1. <<e>> \in Seq(Token) /\ a \o b \in Seq(Token)
  BY ConcatProperties
<1>2. Append(b, e) \in Seq(Token) /\ Append(b, e) = b \o <<e>>
  BY AppendProperties, AppendIsConcat
<1>3. Append(a \o b, e) = (a \o b) \o <<e>>
  BY <1>1, AppendIsConcat
<1>4. (a \o b) \o <<e>> = a \o (b \o <<e>>)
  BY <1>1, ConcatAssociative, SMTT(30)
<1> QED
  BY <1>2, <1>3, <1>4

LEMMA Divided ==
  ASSUME NEW s \in Seq(Token), NEW n \in 0..Len(s)
  PROVE  /\ SubSeq(s, 1, n) \in Seq(Token) /\ SubSeq(s, n + 1, Len(s)) \in Seq(Token)
         /\ SubSeq(s, 1, n) \o SubSeq(s, n + 1, Len(s)) = s
<1>1. SubSeq(s, 1, n) \in Seq(Token) /\ SubSeq(s, n + 1, Len(s)) \in Seq(Token)
  <2>1. /\ \A i \in 1..n : s[i] \in Token
        /\ \A i \in n + 1..Len(s) : s[i] \in Token
    OBVIOUS
  <2> QED
    BY <2>1, SubSeqProperties
<1>2. SubSeq(s, 1, n) \o SubSeq(s, n + 1, Len(s)) = SubSeq(s, 1, Len(s))
  <2>1. 1 \in 1..Len(s) + 1 /\ n \in 1 - 1..Len(s) /\ Len(s) \in n..Len(s)
    OBVIOUS
  <2> QED
    BY <2>1, ConcatAdjacentSubSeq
<1>3. SubSeq(s, 1, Len(s)) = s
  BY SubSeqFull
<1> QED
  BY <1>1, <1>2, <1>3

\* t is s with an f more, and ends as it does.
Longer(s, t, f) ==
  /\ t \in Seq(Token) /\ t # << >> /\ Len(s) \in Nat \ {0}
  /\ Len(t) = Len(s) + 1 /\ t[Len(t)] = s[Len(s)]
  /\ \A i \in 1..Len(t) - 1 : t[i] = f \/ \E j \in 1..Len(s) - 1 : t[i] = s[j]
  /\ \A j \in 1..Len(s) : \E i \in 1..Len(t) : t[i] = s[j]

LEMMA Inserted ==
  ASSUME NEW a \in Seq(Token), NEW b \in Seq(Token), b # << >>, NEW f \in Token
  PROVE  /\ Longer(a \o b, Append(a, f) \o b, f)
         /\ a # << >> => (Append(a, f) \o b)[1] = (a \o b)[1]
<1>1. PICK s, t : s = a \o b /\ t = Append(a, f) \o b
  OBVIOUS
<1>2. PICK k \in Nat, m \in Nat : k = Len(a) /\ m = Len(b)
  OBVIOUS
<1>3. /\ s \in Seq(Token) /\ t \in Seq(Token) /\ Len(s) = k + m /\ Len(t) = k + m + 1 /\ m # 0
      /\ \A i \in 1..k : s[i] = a[i] /\ t[i] = a[i]
      /\ t[k + 1] = f
      /\ \A i \in 1..m : s[k + i] = b[i] /\ t[k + 1 + i] = b[i]
  BY <1>1, <1>2
<1>4. t # << >> /\ Len(s) \in Nat \ {0}
  BY <1>3
<1>5. t[Len(t)] = s[Len(s)]
  <2>1. m \in 1..m /\ k + m + 1 = k + 1 + m
    BY <1>3
  <2> QED
    BY <1>3, <2>1, SMTT(30)
<1>6. a # << >> => t[1] = s[1]
  BY <1>2, <1>3
<1>7. ASSUME NEW i \in 1..k + m
      PROVE  t[i] = f \/ \E j \in 1..k + m - 1 : t[i] = s[j]
  <2>1. CASE i <= k
    BY <1>3, <2>1
  <2>2. CASE i = k + 1
    BY <1>3, <2>2
  <2>3. CASE i > k + 1
    <3>1. i - 1 - k \in 1..m /\ i - 1 \in 1..k + m - 1
      BY <2>3
    <3>2. t[i] = b[i - 1 - k] /\ s[i - 1] = b[i - 1 - k]
      BY <1>3, <3>1
    <3> QED
      BY <3>1, <3>2
  <2> QED
    BY <2>1, <2>2, <2>3
<1>8. ASSUME NEW j \in 1..k + m
      PROVE  \E i \in 1..k + m + 1 : t[i] = s[j]
  <2>1. CASE j <= k
    BY <1>3, <2>1
  <2>2. CASE j > k
    <3>1. j - k \in 1..m /\ j + 1 \in 1..k + m + 1
      BY <2>2
    <3>2. t[j + 1] = b[j - k] /\ s[j] = b[j - k]
      BY <1>3, <3>1
    <3> QED
      BY <3>1, <3>2
  <2> QED
    BY <2>1, <2>2
<1>9. /\ Len(t) = Len(s) + 1
      /\ \A i \in 1..Len(t) - 1 : t[i] = f \/ \E j \in 1..Len(s) - 1 : t[i] = s[j]
      /\ \A j \in 1..Len(s) : \E i \in 1..Len(t) : t[i] = s[j]
  <2>1. Len(t) - 1 = k + m /\ Len(s) = k + m /\ Len(t) = k + m + 1
    BY <1>3
  <2> QED
    BY <1>7, <1>8, <2>1
<1>10. Longer(s, t, f)
  BY <1>3, <1>4, <1>5, <1>9 DEF Longer
<1> QED
  BY <1>1, <1>6, <1>10

LEMMA EndsInMore ==
  ASSUME NEW a \in Seq(Token), NEW b \in Seq(Token), b # << >>, NEW f \in Token,
         NEW mids, NEW ends, f \in mids, EndsIn(a \o b, mids, ends)
  PROVE  EndsIn(Append(a, f) \o b, mids, ends)
<1>0. PICK s, t : s = a \o b /\ t = Append(a, f) \o b
  OBVIOUS
<1>1. Longer(s, t, f)
  BY <1>0, Inserted
<1>2. /\ t # << >> /\ t[Len(t)] = s[Len(s)]
      /\ \A i \in 1..Len(t) - 1 : t[i] = f \/ \E j \in 1..Len(s) - 1 : t[i] = s[j]
  BY <1>1 DEF Longer
<1>3. s[Len(s)] \in ends /\ \A j \in 1..Len(s) - 1 : s[j] \in mids
  BY <1>0 DEF EndsIn
<1>4. \A i \in 1..Len(t) - 1 : t[i] \in mids
  BY <1>2, <1>3
<1> QED
  BY <1>0, <1>2, <1>3, <1>4 DEF EndsIn

LEMMA FTPReplyMore ==
  ASSUME NEW a \in Seq(Token), NEW b \in Seq(Token), a # << >>, b # << >>, NEW f \in Token,
         NEW code, NEW n \in Nat, f # Line(code, "space"), FTPReply(a \o b, code, n)
  PROVE  FTPReply(Append(a, f) \o b, code, n + 1)
<1>0. PICK s, t : s = a \o b /\ t = Append(a, f) \o b
  OBVIOUS
<1>1. Longer(s, t, f)
  BY <1>0, Inserted
<1>2. /\ t # << >> /\ t[Len(t)] = s[Len(s)]
      /\ Len(t) = Len(s) + 1
      /\ \A i \in 1..Len(t) - 1 : t[i] = f \/ \E j \in 1..Len(s) - 1 : t[i] = s[j]
  BY <1>1 DEF Longer
<1>3. /\ s[1] \in {Line(code, "dash"), Line(code, "space")} /\ s[Len(s)] = Line(code, "space")
      /\ \A j \in 1..Len(s) - 1 : s[j] # Line(code, "space")
      /\ Len(s) <= 3 + n
  BY <1>0 DEF FTPReply
<1>4. \A i \in 1..Len(t) - 1 : t[i] # Line(code, "space")
  BY <1>2, <1>3
<1>5. Len(t) <= 3 + (n + 1)
  <2>1. Len(s) \in Nat
    BY <1>1 DEF Longer
  <2> QED
    BY <1>2, <1>3, <2>1
<1>6. t[1] = s[1]
  BY <1>0, Inserted
<1> QED
  BY <1>0, <1>2, <1>3, <1>4, <1>5, <1>6 DEF FTPReply

LEMMA OfferMore ==
  ASSUME NEW a \in Seq(Token), NEW b \in Seq(Token), b # << >>, NEW n \in Nat,
         NEW f \in Token, f \in {Word("<mechanism>"), Word("attribute")}, Offer(a \o b, n)
  PROVE  Offer(Append(a, f) \o b, n + 1)
<1>0. PICK s, t : s = a \o b /\ t = Append(a, f) \o b
  OBVIOUS
<1>1. Longer(s, t, f)
  BY <1>0, Inserted
<1>2. /\ Len(t) = Len(s) + 1 /\ Len(s) \in Nat
      /\ \A j \in 1..Len(s) : \E i \in 1..Len(t) : t[i] = s[j]
  BY <1>1 DEF Longer
<1>3. EndsIn(t, {Word("<stream:stream>"), Word("<starttls"), Word("/>"),
                 Word("<mechanism>"), Word("attribute")},
                {Word("</stream:features>")})
  BY <1>0, EndsInMore DEF Offer
<1>4. \E i \in 1..Len(t) : t[i] = Word("<starttls")
  BY <1>0, <1>2 DEF Offer
<1>5. Len(s) <= 4 + n
  BY <1>0 DEF Offer
<1>6. Len(t) <= 4 + (n + 1)
  BY <1>2, <1>5
<1> QED
  BY <1>0, <1>3, <1>4, <1>6 DEF Offer

LEMMA NoOfferMore ==
  ASSUME NEW a \in Seq(Token), NEW b \in Seq(Token), b # << >>, NEW f \in Token,
         f.text # "<starttls", NoOffer(a \o b)
  PROVE  NoOffer(Append(a, f) \o b)
<1>0. PICK s, t : s = a \o b /\ t = Append(a, f) \o b
  OBVIOUS
<1>1. Longer(s, t, f)
  BY <1>0, Inserted
<1>2. /\ t # << >> /\ t[Len(t)] = s[Len(s)] /\ Len(t) = Len(s) + 1 /\ Len(s) \in Nat \ {0}
      /\ \A i \in 1..Len(t) - 1 : t[i] = f \/ \E j \in 1..Len(s) - 1 : t[i] = s[j]
  BY <1>1 DEF Longer
<1>3. /\ s[Len(s)] \in {Word("</stream:features>"), Word("</stream:stream>")}
      /\ \A j \in 1..Len(s) : s[j].text # "<starttls"
  BY <1>0 DEF NoOffer
<1>4. \A i \in 1..Len(t) : t[i].text # "<starttls"
  <2>1. ASSUME NEW i \in 1..Len(t)
        PROVE  t[i].text # "<starttls"
    <3>1. CASE i = Len(t)
      BY <1>2, <1>3, <3>1
    <3>2. CASE i # Len(t)
      <4>1. i \in 1..Len(t) - 1
        BY <1>2, <3>2
      <4>2. t[i] = f \/ \E j \in 1..Len(s) : t[i] = s[j]
        BY <1>2, <4>1
      <4> QED
        BY <1>3, <4>2
    <3> QED
      BY <3>1, <3>2
  <2> QED
    BY <2>1
<1> QED
  BY <1>0, <1>2, <1>3, <1>4 DEF NoOffer

\* Where the tokens are once there is one more.
LEMMA Shifted ==
  ASSUME NEW a \in Seq(Token), NEW b \in Seq(Token), b # << >>, NEW f \in Token,
         NEW s, NEW t, s = a \o b, t = Append(a, f) \o b
  PROVE  /\ Len(a) \in Nat /\ Len(s) \in Len(a) + 1..Len(s) /\ Len(t) = Len(s) + 1
         /\ s[Len(a) + 1] = Head(b)
         /\ \A i \in 1..Len(a) : t[i] = s[i]
         /\ t[Len(a) + 1] = f
         /\ \A i \in Len(a) + 1..Len(s) : t[i + 1] = s[i]
<1>1. PICK k \in Nat, m \in Nat : k = Len(a) /\ m = Len(b)
  OBVIOUS
<1>2. /\ Len(s) = k + m /\ Len(t) = k + m + 1 /\ m # 0
      /\ \A i \in 1..k : s[i] = a[i] /\ t[i] = a[i]
      /\ t[k + 1] = f
      /\ \A i \in 1..m : s[k + i] = b[i] /\ t[k + 1 + i] = b[i]
  BY <1>1
<1>3. s[k + 1] = Head(b)
  BY <1>1, <1>2
<1>4. ASSUME NEW i \in k + 1..k + m
      PROVE  t[i + 1] = s[i]
  <2>1. i - k \in 1..m /\ k + (i - k) = i /\ k + 1 + (i - k) = i + 1
    OBVIOUS
  <2> QED
    BY <1>2, <2>1
<1> QED
  BY <1>1, <1>2, <1>3, <1>4

\* What the rest of an element is made of.
LEMMA RestHas ==
  ASSUME NEW s, Len(s) \in Nat, NEW n \in Nat, RestOfElement(s, n), NEW i \in 1..Len(s)
  PROVE  s[i] \in {Word("attribute"), Word("/>"), Word(">"), Word("</proceed>")}
<1>1. CASE EndsIn(s, {Word("attribute")}, {Word("/>")})
  BY <1>1 DEF EndsIn
<1>2. CASE ~EndsIn(s, {Word("attribute")}, {Word("/>")})
  BY <1>2 DEF RestOfElement
<1> QED
  BY <1>1, <1>2

LEMMA RestMore ==
  ASSUME NEW a \in Seq(Token), NEW b \in Seq(Token), b # << >>, NEW n \in Nat,
         NEW f \in Token, f = Word("attribute"), Head(b) # Word("</proceed>"),
         RestOfElement(a \o b, n)
  PROVE  RestOfElement(Append(a, f) \o b, n + 1)
<1>0. PICK s, t : s = a \o b /\ t = Append(a, f) \o b
  OBVIOUS
<1>1. PICK k : k = Len(a)
  OBVIOUS
<1>2. /\ k \in Nat /\ Len(s) \in k + 1..Len(s) /\ Len(t) = Len(s) + 1
      /\ s[k + 1] = Head(b)
      /\ \A i \in 1..k : t[i] = s[i]
      /\ t[k + 1] = f
      /\ \A i \in k + 1..Len(s) : t[i + 1] = s[i]
  BY <1>0, <1>1, Shifted
<1>3. Len(s) \in Nat
  BY <1>0
<1>4. CASE EndsIn(s, {f}, {Word("/>")}) /\ Len(s) <= 1 + n
  <2>1. EndsIn(t, {f}, {Word("/>")})
    BY <1>0, <1>4, EndsInMore
  <2>2. Len(t) <= 1 + (n + 1)
    BY <1>2, <1>3, <1>4
  <2> QED
    BY <1>0, <2>1, <2>2 DEF RestOfElement
<1>5. CASE /\ Len(s) \in 2..2 + n /\ s[Len(s)] = Word("</proceed>") /\ s[Len(s) - 1] = Word(">")
           /\ \A i \in 1..Len(s) - 2 : s[i] = f
  <2>1. k + 1 <= Len(s) - 1
    BY <1>2, <1>3, <1>5
  <2>2. t[Len(t)] = s[Len(s)] /\ t[Len(t) - 1] = s[Len(s) - 1]
    <3>1. Len(s) \in k + 1..Len(s) /\ Len(s) - 1 \in k + 1..Len(s) /\ (Len(s) - 1) + 1 = Len(s)
      BY <1>2, <1>3, <2>1
    <3>2. t[Len(s) + 1] = s[Len(s)] /\ t[(Len(s) - 1) + 1] = s[Len(s) - 1]
      BY <1>2, <3>1
    <3> QED
      BY <1>2, <1>3, <3>1, <3>2
  <2>3. ASSUME NEW i \in 1..Len(t) - 2
        PROVE  t[i] = f
    <3>1. CASE i <= k
      <4>1. i \in 1..k /\ i \in 1..Len(s) - 2
        BY <1>2, <1>3, <2>1, <3>1
      <4> QED
        BY <1>2, <1>5, <4>1
    <3>2. CASE i = k + 1
      BY <1>2, <3>2
    <3>3. CASE i > k + 1
      <4>1. i - 1 \in k + 1..Len(s) /\ i - 1 \in 1..Len(s) - 2 /\ (i - 1) + 1 = i
        BY <1>2, <1>3, <3>3
      <4>2. t[(i - 1) + 1] = s[i - 1] /\ s[i - 1] = f
        BY <1>2, <1>5, <4>1
      <4> QED
        BY <4>1, <4>2
    <3> QED
      BY <1>2, <3>1, <3>2, <3>3
  <2>4. Len(t) \in 2..2 + (n + 1)
    BY <1>2, <1>3, <1>5
  <2> QED
    BY <1>0, <1>5, <2>2, <2>3, <2>4 DEF RestOfElement
<1> QED
  BY <1>0, <1>4, <1>5 DEF RestOfElement

\* Where the rest of a reply begins.
LEMMA RestBegins ==
  ASSUME NEW a \in Seq(Token), NEW b \in Seq(Token), a # << >>, b # << >>
  PROVE  /\ Len(a \o b) >= 2
         /\ \E i \in 1..Len(a \o b) : Head(b) = (a \o b)[i]
<1>0. PICK s : s = a \o b
  OBVIOUS
<1>1. PICK k \in Nat, m \in Nat : k = Len(a) /\ m = Len(b)
  OBVIOUS
<1>2. Len(s) = k + m /\ k # 0 /\ m # 0 /\ s[k + 1] = b[1]
  BY <1>0, <1>1
<1>3. k + 1 \in 1..Len(s) /\ Len(s) >= 2
  BY <1>2
<1> QED
  BY <1>0, <1>2, <1>3

\* What a server may put before the end of a reply whose rest is b.
FillerOf(p, b) ==
  CASE p = "smtp" -> Line(Head(b).text, "dash")
    [] p = "ftp"  -> Word("terms")
    [] p = "imap" -> Word("*CAPABILITY")
    [] p = "xmpp" -> Word(IF Head(b).text \in InsideTag THEN "attribute" ELSE "<mechanism>")

\* In the rest of an element, that is an attribute.
LEMMA InTheTag ==
  ASSUME NEW a \in Seq(Token), NEW b \in Seq(Token), b # << >>, NEW n \in Nat,
         RestOfElement(a \o b, n), Head(b) # Word("</proceed>")
  PROVE  FillerOf("xmpp", b) = Word("attribute")
<1>1. PICK s : s = a \o b
  OBVIOUS
<1>2. Len(a) \in Nat /\ Len(s) \in Nat /\ Len(a) + 1 <= Len(s) /\ s[Len(a) + 1] = Head(b)
  BY <1>1
<1>3. Len(a) + 1 \in 1..Len(s)
  BY <1>2
<1>4. Head(b) \in {Word("attribute"), Word("/>"), Word(">")}
  BY <1>1, <1>2, <1>3, RestHas
<1>5. Head(b).text \in InsideTag
  BY <1>4 DEF InsideTag, Word, Line
<1> QED
  BY <1>5 DEF FillerOf

\* It changes nothing in what the read will make of the reply.
LEMMA Chattered ==
  ASSUME NEW p \in {"smtp", "ftp", "imap", "xmpp"}, NEW st \in 1..Len(Script(p)),
         Script(p)[st].do = "read",
         NEW a \in Seq(Token), NEW b \in Seq(Token), b # << >>,
         a # << >> \/ (p = "xmpp" /\ st = 5), Head(b) # Word("</proceed>"),
         NEW no \in BOOLEAN, NEW n \in Nat, Fits(p, st, a \o b, no, n)
  PROVE  Fits(p, st, Append(a, FillerOf(p, b)) \o b, no, n + 1)
<1> DEFINE f == FillerOf(p, b)
           s == a \o b
           t == Append(a, f) \o b
<1>1. p \in StartTLSProtocols \cup Proxied
  BY DEF StartTLSProtocols
<1>2. CASE p = "smtp"
  <2>1. a # << >>
    BY <1>2
  <2>2. f = Line(Head(b).text, "dash") /\ f \in Token
    <3>1. Head(b) \in Token
      OBVIOUS
    <3>2. f = Line(Head(b).text, "dash")
      BY <1>2 DEF FillerOf
    <3> QED
      BY <3>1, <3>2 DEF Token, Line
  <2>3. PICK code : code = Script(p)[st].code
    OBVIOUS
  <2>4. CASE ~no
    <3>1. EndsIn(s, {Line(code, "dash")}, {Line(code, "space")})
      BY <1>2, <2>3, <2>4 DEF Fits
    <3>2. PICK i \in 1..Len(s) : Head(b) = s[i]
      BY <2>1, RestBegins
    <3>3. Head(b) \in {Line(code, "dash"), Line(code, "space")}
      BY <3>1, <3>2 DEF EndsIn
    <3>4. f = Line(code, "dash")
      BY <2>2, <3>3 DEF Line
    <3>5. EndsIn(t, {Line(code, "dash")}, {Line(code, "space")})
      BY <2>2, <3>1, <3>4, EndsInMore
    <3> QED
      BY <1>2, <2>3, <2>4, <3>5 DEF Fits
  <2>5. CASE no
    <3>1. st \in {1, 3, 5}
      BY <1>2 DEF Script, Proxied, smtp, Read, Write
    <3>2. Nth(p, st) = 1 \/ Nth(p, st) = 2 \/ Nth(p, st) = 3
      BY <1>2, <3>1 DEF Nth, AskedBy, First, SpeaksFirst
    <3>3. s \in No(p)[Nth(p, st)]
      BY <1>2, <2>5 DEF Fits
    <3>4. /\ No(p)[1] = {<<Line("554", "space")>>} /\ No(p)[2] = {<<Line("502", "space")>>}
          /\ No(p)[3] = {<<Line("454", "space")>>}
      BY <1>2 DEF No, Proxied
    <3>5. s \in {<<Line("554", "space")>>, <<Line("502", "space")>>, <<Line("454", "space")>>}
      BY <3>2, <3>3, <3>4
    <3>6. PICK w : s = <<w>>
      BY <3>5
    <3>7. Len(s) = 1
      BY <3>6
    <3> QED
      BY <2>1, <3>7, RestBegins
  <2> QED
    BY <2>4, <2>5
<1>3. CASE p = "ftp"
  <2>1. a # << >> /\ f = Word("terms")
    BY <1>3 DEF FillerOf
  <2>2. f \in Token
    BY <2>1 DEF Token, Word, Line, Texts
  <2>3. PICK code : code = Script(p)[st].code
    OBVIOUS
  <2>4. CASE ~no
    <3>1. f # Line(code, "space")
      BY <2>1 DEF Word, Line
    <3>2. FTPReply(s, code, n)
      BY <1>3, <2>3, <2>4 DEF Fits
    <3>3. FTPReply(t, code, n + 1)
      BY <2>1, <2>2, <3>1, <3>2, FTPReplyMore
    <3> QED
      BY <1>3, <2>3, <2>4, <3>3 DEF Fits
  <2>5. CASE no
    <3>1. s[1].text # code
      BY <1>3, <2>3, <2>5 DEF Fits
    <3>2. t # << >>
      BY <2>2, Inserted DEF Longer
    <3>3. t[1] = s[1]
      BY <2>1, <2>2, Inserted
    <3> QED
      BY <1>3, <2>3, <2>5, <3>1, <3>2, <3>3 DEF Fits
  <2> QED
    BY <2>4, <2>5
<1>4. CASE p = "imap"
  <2>1. a # << >> /\ f = Word("*CAPABILITY")
    BY <1>4 DEF FillerOf
  <2>2. f \in Token
    BY <2>1 DEF Token, Word, Line, Texts
  <2>3. st \in {1, 3}
    BY <1>4 DEF Script, Proxied, imap, Read, Write
  <2>4. CASE st = 1
    <3>1. Nth(p, st) = 1
      BY <1>4, <2>4 DEF Nth, AskedBy, First, SpeaksFirst
    <3>2. s \in (IF no THEN No(p) ELSE Yes(p))[1]
      BY <1>4, <2>4, <3>1 DEF Fits
    <3>3. Len(s) = 1
      BY <1>4, <3>2 DEF Yes, No, Proxied
    <3> QED
      BY <2>1, <3>3, RestBegins
  <2>5. CASE st = 3
    <3>1. Tagged(s, no)
      BY <1>4, <2>5 DEF Fits
    <3>2. Tagged(t, no)
      BY <2>1, <2>2, <3>1, EndsInMore DEF Tagged
    <3> QED
      BY <1>4, <2>5, <3>2 DEF Fits
  <2> QED
    BY <2>3, <2>4, <2>5
<1>5. CASE p = "xmpp"
  <2>1. f \in {Word("<mechanism>"), Word("attribute")}
    BY <1>5 DEF FillerOf
  <2>2. f \in Token /\ f.text # "<starttls"
    BY <2>1 DEF Token, Word, Line, Texts
  <2>3. st \in {2, 4, 5}
    BY <1>5 DEF Script, Proxied, startTLSXMPP, Read, Write
  <2>4. CASE st = 2
    <3>1. IF no THEN NoOffer(s) ELSE Offer(s, n)
      BY <1>5, <2>4 DEF Fits
    <3>2. IF no THEN NoOffer(t) ELSE Offer(t, n + 1)
      BY <2>1, <2>2, <3>1, OfferMore, NoOfferMore
    <3> QED
      BY <1>5, <2>4, <3>2 DEF Fits
  <2>5. CASE st = 4
    <3>1. a # << >>
      BY <2>5
    <3>2. s[1] = Word(IF no THEN "<failure" ELSE "<proceed")
      BY <1>5, <2>5 DEF Fits
    <3>3. t # << >>
      BY <2>2, Inserted DEF Longer
    <3>4. t[1] = s[1]
      BY <2>2, <3>1, Inserted
    <3>5. CASE no
      BY <1>5, <2>5, <3>2, <3>3, <3>4, <3>5 DEF Fits
    <3>6. CASE ~no
      <4>1. PICK c \in Seq(Token) : c = Tail(a)
        BY <3>1, HeadTailProperties
      <4>2. Tail(s) = c \o b
        BY <3>1, <4>1, TailOfBoth
      <4>3. Append(a, f) \in Seq(Token) /\ Append(a, f) # << >> /\ Tail(Append(a, f)) = Append(c, f)
        BY <2>2, <3>1, <4>1
      <4>4. Tail(t) = Append(c, f) \o b
        BY <4>3, TailOfBoth
      <4>5. RestOfElement(Tail(s), n)
        BY <1>5, <2>5, <3>6 DEF Fits
      <4>6. RestOfElement(Tail(t), n + 1)
        <5>1. f = Word("attribute")
          BY <1>5, <4>2, <4>5, InTheTag
        <5> QED
          BY <2>2, <4>2, <4>4, <4>5, <5>1, RestMore
      <4> QED
        BY <1>5, <2>5, <3>2, <3>3, <3>4, <3>6, <4>6 DEF Fits
    <3> QED
      BY <3>5, <3>6
  <2>6. CASE st = 5
    <3>1. ~no /\ RestOfElement(s, n)
      BY <1>5, <2>6 DEF Fits
    <3>2. RestOfElement(t, n + 1)
      <4>1. f = Word("attribute")
        BY <1>5, <3>1, InTheTag
      <4> QED
        BY <2>2, <3>1, <4>1, RestMore
    <3> QED
      BY <1>5, <2>6, <3>1, <3>2 DEF Fits
  <2> QED
    BY <2>3, <2>4, <2>5, <2>6
<1> QED
  BY <1>2, <1>3, <1>4, <1>5

----------------------------------------------------------------------------
(* Every step keeps the invariant.                                         *)

\* Where the client is in a script.
LEMMA Here ==
  ASSUME Typed
  PROVE  /\ proto \in StartTLSProtocols \cup Proxied
         /\ Len(Script(proto)) \in 2..5 /\ step \in Nat
         /\ pc = "talking" => /\ step \in 1..Len(Script(proto))
                              /\ Regular(proto, step, Len(Script(proto)), Len(Yes(proto)))
<1>1. proto \in StartTLSProtocols \cup Proxied
  BY BoundsAssumption DEF Typed
<1>2. Len(Script(proto)) \in 2..5
  BY <1>1, Scripts
<1>3. step \in Nat /\ (pc = "talking" => step \in 1..Len(Script(proto)))
  BY <1>2 DEF Typed
<1> QED
  BY <1>1, <1>2, <1>3, Scripts

LEMMA DueIs ==
  ASSUME Typed
  PROVE  Due = heard + First(proto) /\ First(proto) \in 0..1
  BY DEF Due, First

LEMMA InitHolds ==
  ASSUME Init
  PROVE  IInv
<1>1. proto \in StartTLSProtocols \cup Proxied
  BY BoundsAssumption DEF Init
<1>2. Len(Script(proto)) \in 2..5 /\ Regular(proto, 1, Len(Script(proto)), Len(Yes(proto)))
  <2>1. Len(Script(proto)) \in 2..5 /\ 1 \in 1..Len(Script(proto))
    BY <1>1, Scripts
  <2> QED
    BY <1>1, <2>1, Scripts
<1>3. Len(Yes(proto)) \in Nat
  BY <1>1 DEF Yes, StartTLSProtocols, Proxied
<1>4. AskedBy(proto, 1) = 0 /\ Nth(proto, 1) = First(proto) /\ First(proto) \in 0..1
  BY DEF AskedBy, Nth, First
<1>5. Typed
  <2>1. step \in 1..(Len(Script(proto)) + 1) /\ step <= Len(Script(proto)) /\ told <= Len(Yes(proto))
    BY <1>2, <1>3, SMTT(30) DEF Init
  <2>2. got \in Seq(Token) /\ br \in Seq(Token) /\ wire \in Seq(Token) /\ say \in Seq(Token)
    BY EmptySeq DEF Init
  <2> QED
    BY <2>1, <2>2 DEF Init, Typed
<1>6. InTurn
  BY <1>4 DEF Init, InTurn, Due
<1>7. Conversing
  <2>1. CASE proto \in SpeaksFirst
    <3>1. Script(proto)[1].do = "read"
      BY <2>1 DEF SpeaksFirst, Script, Proxied, Read, smtp, imap, ftp, nntp, startTLSMySQL
    <3>2. Waiting
      BY <1>4, <2>1 DEF Init, Waiting, Quiet, First
    <3> QED
      BY <3>1, <3>2 DEF Init, Conversing, Now
  <2>2. CASE proto \notin SpeaksFirst
    <3>1. Script(proto)[1].do # "read"
      BY <1>2, <1>4, <2>2 DEF Regular, First
    <3>2. Settled
      BY <1>4, <2>2 DEF Init, Settled, Quiet, First
    <3> QED
      BY <3>1, <3>2 DEF Init, Conversing, Now
  <2> QED
    BY <2>1, <2>2
<1>8. manner = "orderly" => chat <= Banner
  BY BoundsAssumption DEF Init
<1>9. Upgraded /\ YesIsUnderstood
  BY DEF Init, Upgraded, YesIsUnderstood
<1>10. BannersAreBounded
  BY BoundsAssumption DEF Init, BannersAreBounded
<1> QED
  BY <1>5, <1>6, <1>7, <1>8, <1>9, <1>10 DEF IInv

LEMMA SendKeeps ==
  ASSUME IInv, Send
  PROVE  IInv'
<1>1. /\ proto \in StartTLSProtocols \cup Proxied /\ Len(Script(proto)) \in 2..5
      /\ step \in 1..Len(Script(proto))
      /\ Regular(proto, step, Len(Script(proto)), Len(Yes(proto)))
  BY Here DEF IInv, Send
<1>2. PICK len : len = Len(Script(proto))
  OBVIOUS
<1>3. /\ len \in 2..5 /\ step \in 1..len /\ asked = AskedBy(proto, step)
      /\ asked \in 0..1 /\ AskedBy(proto, step + 1) = asked + 1
      /\ step = len => Nth(proto, step) = Len(Yes(proto))
      /\ step # len => Script(proto)[step + 1].do = "read"
      /\ proto = "xmpp" => step # 4
  BY <1>1, <1>2, SMTT(30) DEF Regular, IInv, InTurn, Send, Now
<1>4. Settled
  BY DEF IInv, Conversing, Send, Now
<1>5. told = asked + First(proto) /\ First(proto) \in 0..1 /\ Due = heard + First(proto)
  BY <1>3, <1>4, DueIs DEF IInv, Settled, Nth
<1>6. heard = asked
  BY <1>3, <1>5, SMTT(30) DEF IInv, InTurn, Typed
<1>7. Typed'
  BY <1>2, <1>3, SMTT(30) DEF IInv, Typed, Send, Advance, server
<1>8. InTurn'
  <2>1. Due' = Due
    BY DEF Send, server, Due
  <2> QED
    BY <1>3, <1>4, <1>5, <1>6, <2>1 DEF Settled, Quiet, InTurn, Send, Advance, server
<1>9. Conversing'
  <2>1. CASE step = len
    BY <1>2, <2>1 DEF Send, Advance, Conversing
  <2>2. CASE step # len
    <3>1. Now'.do = "read"
      BY <1>3, <2>2 DEF Send, Advance, Now
    <3>2. Waiting'
      BY <1>3, <1>4, <1>5 DEF Settled, Quiet, Waiting, Nth, Send, Advance, server
    <3> QED
      BY <3>1, <3>2 DEF Conversing
  <2> QED
    BY <2>1, <2>2
<1>10. Upgraded'
  <2>1. got' = << >> /\ br' = << >> /\ wire' = << >> /\ say' = << >> /\ ~refused'
    BY <1>4 DEF Settled, Quiet, Send, server
  <2>2. << >> \in Seq(Token) /\ << >> \o << >> = << >>
    BY ConcatEmptySeq, EmptySeq
  <2>3. Whole' = << >>
    BY <2>1, <2>2 DEF Whole, Sent
  <2>4. pc' = "upgraded" => told' = Len(Yes(proto'))
    BY <1>2, <1>3, <1>4 DEF Settled, Send, Advance, server
  <2> QED
    BY <2>1, <2>3, <2>4 DEF Upgraded
<1>11. (manner = "orderly" => chat <= Banner)' /\ YesIsUnderstood' /\ BannersAreBounded'
  BY DEF IInv, YesIsUnderstood, BannersAreBounded, Send, Advance, server
<1> QED
  BY <1>7, <1>8, <1>9, <1>10, <1>11 DEF IInv

LEMMA FailsKeeps ==
  ASSUME IInv, SendFails \/ GiveUp \/ ReadFails
  PROVE  IInv'
<1>1. /\ UNCHANGED <<proto, step, got, br, asked, wire, server, late>> /\ pc' = "failed"
      /\ manner = "closed" \/ late \/ Now.do = "give-up"
  BY DEF SendFails, GiveUp, ReadFails
<1>2. Typed'
  BY <1>1 DEF IInv, Typed, server
<1>3. InTurn'
  BY <1>1 DEF IInv, InTurn, Due, server
<1>4. Conversing' /\ Upgraded'
  BY <1>1 DEF Conversing, Upgraded
<1>5. YesIsUnderstood'
  BY <1>1 DEF YesIsUnderstood, Now, server
<1>6. (manner = "orderly" => chat <= Banner)' /\ BannersAreBounded'
  BY <1>1 DEF IInv, BannersAreBounded, server
<1> QED
  BY <1>2, <1>3, <1>4, <1>5, <1>6 DEF IInv

LEMMA FillKeeps ==
  ASSUME IInv, Fill
  PROVE  IInv'
<1>1. PICK n \in 0..Len(wire) :
         br' = SubSeq(wire, 1, n) /\ wire' = SubSeq(wire, n + 1, Len(wire))
  <2>1. Len(wire) \in Nat /\ Len(wire) # 0
    BY DEF Fill, IInv, Typed
  <2>2. PICK n : n = IF proto \in Proxied THEN 1 ELSE Len(wire)
    OBVIOUS
  <2>3. br' = SubSeq(wire, 1, n) /\ wire' = SubSeq(wire, n + 1, Len(wire))
    BY <2>2 DEF Fill
  <2>4. n \in 0..Len(wire)
    BY <2>1, <2>2
  <2> QED
    BY <2>3, <2>4
<1>2. br' \in Seq(Token) /\ wire' \in Seq(Token) /\ br' \o wire' = wire
  BY <1>1, Divided DEF IInv, Typed
<1>3. Typed'
  BY <1>2 DEF IInv, Typed, Fill, server
<1>4. heard = asked
  BY DEF IInv, InTurn, Typed, Fill
<1>5. InTurn'
  BY <1>4 DEF IInv, Typed, InTurn, Due, Fill, server
<1>6. Sent' = Sent
  <2>1. Sent' = (got \o br') \o wire'
    BY DEF Sent, Fill
  <2>2. (got \o br') \o wire' = got \o (br' \o wire')
    <3>1. PICK b \in Seq(Token), w \in Seq(Token) : b = br' /\ w = wire'
      BY <1>2
    <3>2. got \in Seq(Token)
      BY DEF IInv, Typed
    <3>3. (got \o b) \o w = got \o (b \o w)
      BY <3>2, ConcatAssociative, SMTT(30)
    <3> QED
      BY <3>1, <3>3
  <2>3. Sent = got \o wire
    BY ConcatEmptySeq DEF IInv, Typed, Sent, Fill
  <2> QED
    BY <1>2, <2>1, <2>2, <2>3
<1>7. InReply
  BY DEF IInv, Conversing, Fill, Reading, Waiting, Quiet
<1>8. InReply'
  <2>1. Whole' = Whole
    BY <1>6 DEF Whole, Fill, server
  <2> QED
    BY <1>6, <1>7, <2>1 DEF InReply, Fill, Now, server
<1>9. Conversing' /\ Upgraded'
  BY <1>8 DEF Conversing, Upgraded, Fill, Reading, Now
<1>10. (manner = "orderly" => chat <= Banner)' /\ YesIsUnderstood' /\ BannersAreBounded'
  BY DEF IInv, YesIsUnderstood, BannersAreBounded, Fill, Reading, server
<1> QED
  BY <1>3, <1>5, <1>9, <1>10 DEF IInv

LEMMA HearKeeps ==
  ASSUME IInv, Hear
  PROVE  IInv'
<1>1. /\ UNCHANGED <<proto, pc, step, got, br, asked, wire, told, say, chat, manner, refused, late>>
      /\ heard' = heard + 1 /\ heard < asked
  BY DEF Hear, client
<1>2. Typed'
  BY <1>1 DEF IInv, Typed
<1>3. InTurn'
  <2>1. Due' = Due + 1 /\ Due \in Nat
    BY <1>1, DueIs DEF IInv, Typed, Due
  <2> QED
    BY <1>1, <2>1 DEF IInv, Typed, InTurn
<1>4. Conversing'
  BY <1>1 DEF IInv, Conversing, Now, Waiting, InReply, Settled, Quiet, Whole, Sent
<1>5. Upgraded' /\ (manner = "orderly" => chat <= Banner)'
  BY <1>1 DEF IInv, Upgraded, Whole, Sent
<1>6. YesIsUnderstood' /\ BannersAreBounded'
  BY <1>1 DEF IInv, YesIsUnderstood, Now, BannersAreBounded
<1> QED
  BY <1>2, <1>3, <1>4, <1>5, <1>6 DEF IInv

LEMMA LeaveKeeps ==
  ASSUME IInv, Leave
  PROVE  IInv'
<1>1. /\ UNCHANGED <<proto, pc, step, got, br, asked, wire, heard, told, say, chat, refused, late>>
      /\ manner' \in {"closed", "silent"}
  BY DEF Leave, client
<1>2. Typed' /\ InTurn'
  BY <1>1 DEF IInv, Typed, InTurn, Due
<1>3. Conversing'
  BY <1>1 DEF IInv, Conversing, Now, Waiting, InReply, Settled, Quiet, Whole, Sent
<1>4. Upgraded' /\ (manner = "orderly" => chat <= Banner)'
  BY <1>1 DEF IInv, Upgraded, Whole, Sent
<1>5. YesIsUnderstood' /\ BannersAreBounded'
  BY <1>1 DEF IInv, YesIsUnderstood, Now, BannersAreBounded
<1> QED
  BY <1>2, <1>3, <1>4, <1>5 DEF IInv

LEMMA TimeKeeps ==
  ASSUME IInv, DeadlinePasses \/ UNCHANGED vars
  PROVE  IInv'
<1>1. /\ UNCHANGED <<proto, client, wire, server>> /\ late' \in BOOLEAN
      /\ pc = "talking" \/ late' = late
  BY DEF IInv, Typed, DeadlinePasses, vars
<1>2. Typed' /\ InTurn'
  BY <1>1 DEF IInv, Typed, InTurn, Due, client, server
<1>3. Conversing'
  BY <1>1 DEF IInv, Conversing, Now, Waiting, InReply, Settled, Quiet, Whole, Sent, client, server
<1>4. Upgraded' /\ (manner = "orderly" => chat <= Banner)'
  BY <1>1 DEF IInv, Upgraded, Whole, Sent, client, server
<1>5. YesIsUnderstood' /\ BannersAreBounded'
  BY <1>1 DEF IInv, YesIsUnderstood, Now, BannersAreBounded, client, server
<1> QED
  BY <1>2, <1>3, <1>4, <1>5 DEF IInv

LEMMA SentTyped ==
  ASSUME Typed
  PROVE  /\ got \o br \in Seq(Token) /\ Sent \in Seq(Token) /\ Whole \in Seq(Token)
<1>1. /\ got \in Seq(Token) /\ br \in Seq(Token) /\ wire \in Seq(Token) /\ say \in Seq(Token)
  BY DEF Typed
<1>2. got \o br \in Seq(Token)
  BY <1>1, ConcatProperties
<1>3. Sent \in Seq(Token)
  BY <1>1, <1>2, ConcatProperties DEF Sent
<1>4. Whole \in Seq(Token)
  BY <1>1, <1>3, ConcatProperties DEF Whole
<1> QED
  BY <1>2, <1>3, <1>4

\* A reply that is on its way is only to a client that waits for it, or is the
\* tag it does not read, and the server has heard all that it was sent.
LEMMA OnItsWay ==
  ASSUME IInv, say # << >>
  PROVE  /\ heard = asked
         /\ pc = "upgraded" => Head(say) = Word("</proceed>")
         /\ pc = "talking" => Now.do = "read" /\ InReply
<1>1. heard = asked
  BY DEF IInv, InTurn, Typed
<1>2. pc = "upgraded" => Head(say) = Word("</proceed>")
  <2>1. SUFFICES ASSUME pc = "upgraded"
                 PROVE  Head(say) = Word("</proceed>")
    OBVIOUS
  <2>2. Sent \in Seq(Token) /\ say \in Seq(Token)
    BY SentTyped DEF IInv, Typed
  <2>3. Sent \o say \in {<< >>, EndTag}
    BY <2>1 DEF IInv, Upgraded, Whole
  <2>4. Sent \o say = EndTag /\ Len(Sent) = 0 /\ Len(say) = 1
    <3>1. PICK u : u = Sent \o say
      OBVIOUS
    <3>2. PICK k, m : k = Len(Sent) /\ m = Len(say)
      OBVIOUS
    <3>3. Len(u) = k + m /\ k \in Nat /\ m \in Nat
      BY <2>2, <3>1, <3>2, Joined
    <3>4. m # 0
      BY <2>2, <3>2, EmptySeq
    <3>5. Len(<< >>) = 0 /\ Len(EndTag) = 1
      BY DEF EndTag
    <3>6. u = EndTag
      BY <2>3, <3>1, <3>3, <3>4, <3>5
    <3>7. k + m = 1
      BY <3>3, <3>5, <3>6
    <3> QED
      BY <3>1, <3>2, <3>3, <3>4, <3>6, <3>7
  <2>5. say[1] = EndTag[1]
    <3>1. \A i \in 1..Len(say) : (Sent \o say)[Len(Sent) + i] = say[i]
      BY ONLY <2>2, Sent \in Seq(Token), say \in Seq(Token)
    <3> QED
      BY <2>4, <3>1
  <2> QED
    BY <2>5 DEF EndTag
<1>3. pc = "talking" => Now.do = "read" /\ InReply
  BY DEF IInv, Conversing, Settled, Waiting, Quiet
<1> QED
  BY <1>1, <1>2, <1>3

\* What the server sends is the next of what the client has of it.
LEMMA SentMore ==
  ASSUME Typed, NEW e \in Token, wire' = Append(wire, e), UNCHANGED <<got, br>>
  PROVE  wire' \in Seq(Token) /\ Sent' = Append(Sent, e) /\ Sent' # << >>
<1>1. /\ got \o br \in Seq(Token) /\ wire \in Seq(Token) /\ Sent \in Seq(Token)
  BY SentTyped DEF Typed
<1>2. Append(wire, e) \in Seq(Token) /\ (got \o br) \o Append(wire, e) = Append((got \o br) \o wire, e)
  BY <1>1, Appended
<1>3. Sent' = Append(Sent, e)
  BY <1>2 DEF Sent
<1>4. Append(Sent, e) # << >>
  BY <1>1, AppendProperties
<1> QED
  BY <1>2, <1>3, <1>4

LEMMA ContinueKeeps ==
  ASSUME IInv, Continue
  PROVE  IInv'
<1>1. /\ UNCHANGED <<proto, pc, step, got, br, asked, heard, told, chat, manner, refused, late>>
      /\ wire' = Append(wire, Head(say)) /\ say' = Tail(say) /\ say # << >>
  BY DEF Continue, client
<1>2. Head(say) \in Token /\ Tail(say) \in Seq(Token)
  BY <1>1, HeadTailProperties DEF IInv, Typed
<1>3. wire' \in Seq(Token) /\ Sent' = Append(Sent, Head(say)) /\ Sent' # << >>
  BY <1>1, <1>2, SentMore DEF IInv
<1>4. Typed'
  BY <1>1, <1>2, <1>3 DEF IInv, Typed
<1>5. InTurn'
  BY <1>1, OnItsWay DEF IInv, Typed, InTurn, Due
<1>6. Whole' = Whole
  <2>1. Append(Sent, Head(say)) \o Tail(say) = Sent \o say
    BY <1>1, Moved, SentTyped DEF IInv, Typed
  <2> QED
    BY <1>1, <1>3, <2>1 DEF Whole
<1>7. Conversing' /\ Upgraded'
  <2>1. CASE pc = "talking"
    <3>1. Now'.do = "read" /\ InReply'
      BY <1>1, <1>3, <1>6, <2>1, OnItsWay DEF Now, InReply
    <3> QED
      BY <1>1, <2>1, <3>1 DEF Conversing, Upgraded
  <2>2. CASE pc # "talking"
    BY <1>1, <1>6, <2>2 DEF IInv, Conversing, Upgraded
  <2> QED
    BY <2>1, <2>2
<1>8. (manner = "orderly" => chat <= Banner)' /\ YesIsUnderstood' /\ BannersAreBounded'
  BY <1>1 DEF IInv, YesIsUnderstood, Now, BannersAreBounded
<1> QED
  BY <1>4, <1>5, <1>7, <1>8 DEF IInv

LEMMA ChatterKeeps ==
  ASSUME IInv, Chatter
  PROVE  IInv'
<1>1. /\ UNCHANGED <<proto, pc, step, got, br, asked, heard, told, say, manner, refused, late>>
      /\ wire' = Append(wire, Filler) /\ say # << >> /\ chat' = chat + 1
      /\ Head(say) # Word("</proceed>")
      /\ manner = "orderly" => chat < Banner
      /\ proto \in {"smtp", "ftp", "imap", "xmpp"}
  BY DEF Chatter, client
<1>2. Filler = FillerOf(proto, say)
  BY <1>1 DEF Filler, FillerOf
<1>3. say \in Seq(Token) /\ chat \in Nat
  BY DEF IInv, Typed
<1>4. Filler \in Token
  <2>1. Head(say) \in Token
    BY <1>1, <1>3, HeadTailProperties
  <2>2. CASE proto = "smtp"
    BY <2>1, <2>2 DEF Filler, Token, Line
  <2>3. CASE proto # "smtp"
    BY <2>3 DEF Filler, Token, Texts, Word, Line
  <2> QED
    BY <2>2, <2>3
<1>5. wire' \in Seq(Token) /\ Sent' = Append(Sent, Filler) /\ Sent' # << >>
  BY <1>1, <1>4, SentMore DEF IInv
<1>6. Typed'
  BY <1>1, <1>3, <1>5 DEF IInv, Typed
<1>7. InTurn'
  BY <1>1, OnItsWay DEF IInv, Typed, InTurn, Due
<1>8. CASE pc = "talking"
  <2>1. Now.do = "read" /\ InReply
    BY <1>1, <1>8, OnItsWay
  <2>2. step \in 1..Len(Script(proto)) /\ Script(proto)[step].do = "read"
    BY <1>8, <2>1, Here DEF IInv, Now
  <2>3. Sent \in Seq(Token) /\ refused \in BOOLEAN
    BY SentTyped DEF IInv, Typed
  <2>4. Fits(proto, step, Append(Sent, Filler) \o say, refused, chat + 1)
    BY <1>1, <1>2, <1>3, <2>1, <2>2, <2>3, Chattered DEF InReply, Whole
  <2>5. InReply'
    BY <1>1, <1>5, <2>1, <2>4 DEF InReply, Whole, Now
  <2> QED
    BY <1>1, <1>6, <1>7, <1>8, <2>1, <2>5, <1>3, BoundsAssumption
    DEF IInv, Conversing, Upgraded, Now, YesIsUnderstood, BannersAreBounded
<1>9. CASE pc # "talking"
  BY <1>1, <1>3, <1>6, <1>7, <1>9, OnItsWay, BoundsAssumption
  DEF IInv, Conversing, Upgraded, Now, YesIsUnderstood, BannersAreBounded
<1> QED
  BY <1>8, <1>9

LEMMA BeginReplyKeeps ==
  ASSUME IInv, BeginReply
  PROVE  IInv'
<1>1. PICK r : /\ r \in (IF refused' THEN No(proto) ELSE Yes(proto))[told + 1]
               /\ wire' = Append(wire, Head(r)) /\ say' = Tail(r) /\ refused' \in BOOLEAN
  BY DEF BeginReply
<1>2. /\ UNCHANGED <<proto, pc, step, got, br, asked, heard, chat, manner, late>>
      /\ told' = told + 1 /\ told < Due /\ told < Len(Yes(proto)) /\ ~refused /\ say = << >>
  BY DEF BeginReply, Owes, client
<1>3. proto \in StartTLSProtocols \cup Proxied /\ told \in Nat /\ Len(Yes(proto)) \in Nat
  <2>1. proto \in StartTLSProtocols \cup Proxied
    BY Here DEF IInv
  <2> QED
    BY <2>1 DEF IInv, Typed, Yes, StartTLSProtocols, Proxied
<1>4. r \in Seq(Token) /\ r # << >>
  <2>1. told + 1 \in 1..Len(Yes(proto))
    BY <1>2, <1>3
  <2>2. r \in Yes(proto)[told + 1] \cup No(proto)[told + 1]
    BY <1>1
  <2> QED
    BY <1>3, <2>1, <2>2, Replies DEF Reply
<1>5. Head(r) \in Token /\ Tail(r) \in Seq(Token)
  BY <1>4, HeadTailProperties
<1>6. wire' \in Seq(Token) /\ Sent' = Append(Sent, Head(r)) /\ Sent' # << >>
  BY <1>1, <1>2, <1>5, SentMore DEF IInv
<1>7. Typed'
  BY <1>1, <1>2, <1>3, <1>5, <1>6 DEF IInv, Typed
<1>8. heard = asked /\ told < asked + First(proto) /\ First(proto) \in 0..1
  BY <1>2, DueIs DEF IInv, InTurn, Typed
<1>9. InTurn'
  BY <1>2, <1>3, <1>8, DueIs DEF IInv, InTurn, Typed, Due, First
<1>10. pc # "upgraded"
  BY <1>2, <1>3 DEF IInv, Upgraded
<1>11. Conversing'
  <2>1. SUFFICES ASSUME pc = "talking"
                 PROVE  Now.do = "read" /\ InReply'
    BY <1>2 DEF Conversing, Now
  <2>2. told # Nth(proto, step)
    BY <1>3, <1>8 DEF IInv, InTurn, Typed, Nth
  <2>3. Now.do = "read" /\ Waiting
    BY <2>1, <2>2 DEF IInv, Conversing, InReply, Settled
  <2>4. Sent = << >>
    BY <2>3, ConcatEmptySeq, EmptySeq DEF Waiting, Quiet, Sent
  <2>5. Whole' = r
    <3>1. Append(<< >>, Head(r)) \o Tail(r) = << >> \o r
      BY <1>4, Moved, EmptySeq
    <3>2. << >> \o r = r
      BY <1>4, ConcatEmptySeq
    <3> QED
      BY <1>1, <1>6, <2>4, <3>1, <3>2 DEF Whole
  <2>6. step \in 1..Len(Script(proto)) /\ Script(proto)[step].do = "read"
    BY <2>1, <2>3, Here DEF IInv, Now
  <2>7. told + 1 = Nth(proto, step) /\ ~(proto = "xmpp" /\ step = 5) /\ got = << >>
    BY <2>3 DEF Waiting, Quiet
  <2>8. chat \in Nat
    BY DEF IInv, Typed
  <2>9. Fits(proto, step, r, refused', chat)
    BY <1>1, <1>3, <2>6, <2>7, <2>8, Begins
  <2> QED
    BY <1>2, <1>6, <2>3, <2>5, <2>7, <2>9 DEF InReply, Now
<1>12. Upgraded'
  BY <1>2, <1>10 DEF Upgraded
<1>13. (manner = "orderly" => chat <= Banner)' /\ YesIsUnderstood' /\ BannersAreBounded'
  BY <1>2 DEF IInv, YesIsUnderstood, Now, BannersAreBounded
<1> QED
  BY <1>7, <1>9, <1>11, <1>12, <1>13 DEF IInv

\* Only so much is read before a read gives up.
LEMMA MoreIsBounded ==
  ASSUME NEW p \in StartTLSProtocols \cup Proxied, NEW st \in 1..Len(Script(p)), NEW s,
         Script(p)[st].do = "read", Reads(Script(p)[st], s) = "more"
  PROVE  /\ p = "ftp"  => Len(s) # 1 + LineLimit
         /\ p = "xmpp" => Len(s) # SeenLimit
<1>1. CASE p = "ftp"
  <2>1. st \in {1, 3}
    BY <1>1 DEF Script, Proxied, ftp, Read, Write
  <2>2. PICK code : Script(p)[st] = Read("ftp", code)
    BY <1>1, <2>1 DEF Script, Proxied, ftp
  <2>3. expectFTP(code, s) = "more"
    BY <2>2, Readers
  <2> QED
    BY <1>1, <2>3 DEF expectFTP
<1>2. CASE p = "xmpp"
  <2>1. st \in {2, 4, 5}
    BY <1>2 DEF Script, Proxied, startTLSXMPP, Read, Write
  <2>2. Script(p)[st] \in {Read("features", "none"), Read("proceed", "none"), Read("end", "none")}
    BY <1>2, <2>1 DEF Script, Proxied, startTLSXMPP
  <2>3. features(s) = "more" \/ proceed(s) = "more" \/ elementEnd(s) = "more"
    BY <2>2 DEF Reads, Read
  <2>4. PICK markers : readUntil(markers, s) = "more"
    BY <2>3 DEF features, proceed, elementEnd, seenIn
  <2> QED
    BY <1>2, <2>4 DEF readUntil
<1> QED
  BY <1>1, <1>2

LEMMA AllEmpty ==
  ASSUME NEW t \in Seq(Token), NEW w \in Seq(Token), NEW y \in Seq(Token)
  PROVE  /\ t \o w \in Seq(Token) /\ (t \o w) \o y \in Seq(Token)
         /\ (t \o w) \o y = << >> => t = << >> /\ w = << >> /\ y = << >>
<1>1. t \o w \in Seq(Token)
  BY ConcatProperties
<1>2. (t \o w) \o y \in Seq(Token)
  BY <1>1, ConcatProperties
<1>3. (t \o w) \o y = << >> => t \o w = << >> /\ y = << >>
  BY <1>1, ConcatEqualIffEmpty
<1>4. t \o w = << >> => t = << >> /\ w = << >>
  BY ConcatEqualIffEmpty
<1> QED
  BY <1>1, <1>2, <1>3, <1>4

LEMMA ConsumeKeeps ==
  ASSUME IInv, Consume
  PROVE  IInv'
<1> DEFINE v == Reads(Now, Append(got, Head(br)))
<1>0. PICK s, t, w, y, rest : /\ s = Append(got, Head(br)) /\ t = Tail(br) /\ w = wire /\ y = say
                              /\ rest = (t \o w) \o y
  OBVIOUS
<1>1. /\ UNCHANGED <<proto, asked, wire, heard, told, say, chat, manner, refused, late>>
      /\ br' = t /\ got' = IF v = "more" THEN s ELSE << >>
      /\ v = "ok" => step' = step + 1 /\ pc' = IF step = Len(Script(proto)) THEN "upgraded" ELSE "talking"
      /\ v = "fail" => pc' = "failed" /\ step' = step
      /\ v \notin {"ok", "fail"} => pc' = pc /\ step' = step
      /\ pc = "talking" /\ br # << >> /\ Now.do = "read"
  BY <1>0 DEF Consume, Advance, server, Reading
<1>2. /\ proto \in StartTLSProtocols \cup Proxied /\ Len(Script(proto)) \in 2..5
      /\ step \in 1..Len(Script(proto)) /\ Script(proto)[step].do = "read"
      /\ Regular(proto, step, Len(Script(proto)), Len(Yes(proto)))
  BY <1>1, Here DEF IInv, Now
<1>3. /\ got \in Seq(Token) /\ br \in Seq(Token) /\ wire \in Seq(Token) /\ say \in Seq(Token)
      /\ refused \in BOOLEAN /\ chat \in Nat
  BY DEF IInv, Typed
<1>4. s \in Seq(Token) /\ s # << >> /\ Len(s) = Len(got) + 1 /\ t \in Seq(Token)
  <2>1. Head(br) \in Token /\ t \in Seq(Token)
    BY <1>0, <1>1, <1>3, HeadTailProperties
  <2>2. /\ Append(got, Head(br)) \in Seq(Token) /\ Append(got, Head(br)) # << >>
        /\ Len(Append(got, Head(br))) = Len(got) + 1
    BY <1>3, <2>1, AppendProperties, SMTT(30)
  <2> QED
    BY <1>0, <2>1, <2>2
<1>5. /\ rest \in Seq(Token) /\ ((s \o t) \o w) \o y = s \o rest
      /\ rest = << >> => t = << >> /\ w = << >> /\ y = << >>
  <2>1. w \in Seq(Token) /\ y \in Seq(Token)
    BY <1>0, <1>3
  <2>2. s \in Seq(Token) /\ t \in Seq(Token)
    BY <1>4
  <2>3. PICK u \in Seq(Token) : u = t \o w
    BY ONLY <2>1, <2>2, AllEmpty
  <2>4. u \o y \in Seq(Token) /\ (u \o y = << >> => t = << >> /\ w = << >> /\ y = << >>)
    BY ONLY <2>1, <2>2, <2>3, AllEmpty
  <2>5. (s \o t) \o w = s \o u
    BY ONLY <2>1, <2>2, <2>3, ConcatAssociative, SMTT(30)
  <2>6. (s \o u) \o y = s \o (u \o y)
    BY ONLY <2>1, <2>2, u \in Seq(Token), ConcatAssociative, SMTT(30)
  <2> QED
    BY <1>0, <2>3, <2>4, <2>5, <2>6
<1>6. (s \o t) \o wire = Sent /\ s \o rest = Whole
  <2>1. s \o t = got \o br
    BY <1>0, <1>1, <1>3, Moved
  <2> QED
    BY <1>0, <1>5, <2>1 DEF Whole, Sent
<1>7. InReply
  BY <1>1 DEF IInv, Conversing, Waiting, Quiet
<1>8. /\ Fits(proto, step, s \o rest, refused, chat) /\ told = Nth(proto, step)
      /\ proto = "xmpp" /\ step = 4 => got = << >>
  BY <1>6, <1>7 DEF InReply
<1>9. heard = asked /\ asked = AskedBy(proto, step) /\ AskedBy(proto, step + 1) = AskedBy(proto, step)
  BY <1>1, <1>2 DEF IInv, InTurn, Typed, Regular
<1>10. v \in {"ok", "more", "fail"} /\ (~refused /\ chat <= Banner => v # "fail")
  <2>1. CASE proto = "xmpp" /\ step = 4
    <3>1. Len(s) = 1
      BY <1>4, <1>8, <2>1
    <3>2. Reads(Script("xmpp")[4], s) = IF refused THEN "fail" ELSE "ok"
      BY <1>3, <1>4, <1>5, <1>8, <2>1, <3>1, Proceeds
    <3> QED
      BY <1>0, <2>1, <3>2 DEF Now
  <2>2. CASE ~(proto = "xmpp" /\ step = 4)
    <3>1. Settles(Reads(Script(proto)[step], s), proto, step, rest, refused, chat)
      BY <1>2, <1>3, <1>4, <1>5, <1>8, <2>2, Verdict
    <3> QED
      BY <1>0, <3>1 DEF Settles, Now
  <2> QED
    BY <2>1, <2>2
<1>11. got' \in Seq(Token)
  BY <1>1, <1>4, EmptySeq
<1>12. Typed'
  <2>1. step' \in 1..(Len(Script(proto)) + 1) /\ (pc' = "talking" => step' <= Len(Script(proto)))
    BY <1>1, <1>2, <1>10
  <2>2. pc' \in {"talking", "upgraded", "failed"}
    BY <1>1, <1>10
  <2> QED
    BY <1>1, <1>4, <1>11, <2>1, <2>2 DEF IInv, Typed
<1>13. InTurn'
  <2>1. Due' = Due
    BY <1>1 DEF Due
  <2>2. asked = AskedBy(proto, step')
    BY <1>1, <1>9, <1>10
  <2> QED
    BY <1>1, <1>3, <1>9, <2>1, <2>2 DEF IInv, Typed, InTurn
<1>14. BannersAreBounded'
  <2>1. CASE v = "more"
    <3>1. /\ proto = "ftp"  => Len(s) # 1 + LineLimit
          /\ proto = "xmpp" => Len(s) # SeenLimit
      BY <1>0, <1>2, <2>1, MoreIsBounded DEF Now
    <3>2. Len(got) \in Nat
      BY <1>3
    <3> QED
      BY <1>1, <1>4, <2>1, <3>1, <3>2, BoundsAssumption DEF IInv, BannersAreBounded
  <2>2. CASE v # "more"
    BY <1>1, <2>2, BoundsAssumption DEF BannersAreBounded
  <2> QED
    BY <2>1, <2>2
<1>15. YesIsUnderstood'
  BY <1>1, <1>10 DEF IInv, YesIsUnderstood
<1>16. Conversing' /\ Upgraded'
  <2>1. CASE v = "more"
    <3>1. Sent' = Sent /\ Whole' = Whole
      BY <1>1, <1>6, <2>1 DEF Sent, Whole
    <3>2. ~(proto = "xmpp" /\ step = 4)
      <4>1. SUFFICES ASSUME proto = "xmpp" /\ step = 4
                     PROVE  FALSE
        OBVIOUS
      <4>2. Len(s) = 1
        BY <1>4, <1>8, <4>1
      <4>3. Reads(Script("xmpp")[4], s) = IF refused THEN "fail" ELSE "ok"
        BY <1>3, <1>4, <1>5, <1>8, <4>1, <4>2, Proceeds
      <4> QED
        BY <1>0, <2>1, <4>1, <4>3 DEF Now
    <3>3. Reads(Now', got') = "more"
      BY <1>0, <1>1, <2>1 DEF Now
    <3>4. InReply'
      BY <1>1, <1>7, <2>1, <3>1, <3>2, <3>3 DEF InReply
    <3> QED
      BY <1>1, <2>1, <3>4 DEF Conversing, Upgraded, Now
  <2>2. CASE v = "fail"
    BY <1>1, <2>2 DEF Conversing, Upgraded
  <2>3. CASE v = "ok" /\ proto = "xmpp" /\ step = 4
    <3>1. Len(s) = 1
      BY <1>4, <1>8, <2>3
    <3>2. /\ Reads(Script("xmpp")[4], s) = IF refused THEN "fail" ELSE "ok"
          /\ ~refused => RestOfElement(rest, chat)
      BY <1>3, <1>4, <1>5, <1>8, <2>3, <3>1, Proceeds
    <3>3. ~refused /\ RestOfElement(rest, chat)
      BY <1>0, <2>3, <3>2 DEF Now
    <3>4. Script(proto) = startTLSXMPP /\ Len(startTLSXMPP) = 5 /\ startTLSXMPP[5].do = "read"
      BY <2>3 DEF Script, Proxied, startTLSXMPP, Read
    <3>5. step' = 5 /\ pc' = "talking" /\ got' = << >> /\ Now'.do = "read"
      BY <1>1, <2>3, <3>4 DEF Now
    <3>6. Whole' = rest
      <4>1. << >> \o t = t
        BY <1>4, ConcatEmptySeq
      <4> QED
        BY <1>0, <1>1, <3>5, <4>1 DEF Whole, Sent
    <3>7. told = Nth(proto, 5)
      BY <1>8, <1>9, <2>3 DEF Nth
    <3>8. Fits(proto, 5, rest, refused, chat)
      BY <2>3, <3>3 DEF Fits
    <3>9. InReply'
      BY <1>1, <2>3, <3>5, <3>6, <3>7, <3>8 DEF InReply
    <3> QED
      BY <3>5, <3>9 DEF Conversing, Upgraded
  <2>4. CASE v = "ok" /\ ~(proto = "xmpp" /\ step = 4)
    <3>1. Settles(Reads(Script(proto)[step], s), proto, step, rest, refused, chat)
      BY <1>2, <1>3, <1>4, <1>5, <1>8, <2>4, Verdict
    <3>2. ~refused /\ (rest = << >> \/ (proto = "xmpp" /\ step = 5 /\ rest = EndTag))
      BY <1>0, <2>4, <3>1 DEF Settles, Now
    <3>3. got' = << >> /\ ~refused' /\ told' = Nth(proto, step) /\ Whole' = rest
      <4>1. << >> \o t = t
        BY <1>4, ConcatEmptySeq
      <4>2. got' = << >>
        BY <1>1, <2>4
      <4> QED
        BY <1>0, <1>1, <1>8, <3>2, <4>1, <4>2 DEF Whole, Sent
    <3>4. rest = << >> => Quiet'
      BY <1>0, <1>1, <1>5, <3>3 DEF Quiet
    <3>5. CASE step = Len(Script(proto))
      <4>1. pc' = "upgraded" /\ Nth(proto, step) = Len(Yes(proto))
        BY <1>1, <1>2, <2>4, <3>5 DEF Regular
      <4> QED
        BY <1>1, <3>2, <3>3, <4>1 DEF Conversing, Upgraded
    <3>6. CASE step # Len(Script(proto))
      <4>1. pc' = "talking" /\ step' = step + 1 /\ Script(proto)[step + 1].do # "read"
        BY <1>1, <1>2, <2>4, <3>6 DEF Regular
      <4>2. Nth(proto, step + 1) = Nth(proto, step)
        BY <1>9 DEF Nth
      <4>3. proto = "xmpp" => Len(Script(proto)) = 5
        BY DEF Script, Proxied, startTLSXMPP
      <4>4. Now'.do # "read" /\ Settled'
        BY <1>1, <3>2, <3>3, <3>4, <3>6, <4>1, <4>2, <4>3 DEF Now, Settled
      <4> QED
        BY <4>1, <4>4 DEF Conversing, Upgraded
    <3> QED
      BY <3>5, <3>6
  <2> QED
    BY <1>10, <2>1, <2>2, <2>3, <2>4
<1>17. (manner = "orderly" => chat <= Banner)'
  BY <1>1 DEF IInv
<1> QED
  BY <1>12, <1>13, <1>14, <1>15, <1>16, <1>17 DEF IInv

LEMMA NextHolds ==
  ASSUME IInv, [Next]_vars
  PROVE  IInv'
<1>1. CASE Client
  BY <1>1, SendKeeps, FailsKeeps, FillKeeps, ConsumeKeeps DEF Client
<1>2. CASE Server
  BY <1>2, BeginReplyKeeps, ContinueKeeps, ChatterKeeps, HearKeeps, LeaveKeeps DEF Server
<1>3. CASE DeadlinePasses \/ Over \/ UNCHANGED vars
  BY <1>3, TimeKeeps DEF Over
<1> QED
  BY <1>1, <1>2, <1>3 DEF Next

----------------------------------------------------------------------------
(* What the conversation is.                                               *)

\* At every moment the client is either at the first read of a reply that has
\* not begun, or inside one that still fits its read, or between the two with
\* nothing of the server's anywhere: startTLS and socks5Connect as a dialogue.
THEOREM Invariant == Spec => []IInv
<1>1. Init => IInv
  BY InitHolds
<1>2. IInv /\ [Next]_vars => IInv'
  BY NextHolds
<1> QED
  BY <1>1, <1>2, PTL DEF Spec

\* One token in three places is in one of them.
LEMMA OneOfThree ==
  ASSUME NEW t \in Seq(Token), NEW w \in Seq(Token), NEW y \in Seq(Token), NEW e,
         (t \o w) \o y = <<e>>
  PROVE  (w = << >> /\ y = << >>) \/ w \o y = <<e>>
<1>1. t \o w \in Seq(Token) /\ Len(t \o w) = Len(t) + Len(w)
  BY ConcatProperties
<1>2. Len((t \o w) \o y) = Len(t) + Len(w) + Len(y)
  <2>1. PICK u : u = t \o w
    OBVIOUS
  <2>2. Len(u \o y) = Len(u) + Len(y)
    BY <1>1, <2>1, Joined
  <2> QED
    BY <1>1, <2>1, <2>2
<1>3. Len(t) + Len(w) + Len(y) = 1
  <2>1. Len(<<e>>) = 1
    OBVIOUS
  <2> QED
    BY <1>2, <2>1
<1>4. CASE Len(t) = 0
  <2>1. t = << >>
    BY <1>4, EmptySeq
  <2>2. t \o w = w
    BY <2>1, ConcatEmptySeq
  <2> QED
    BY <2>2
<1>5. CASE Len(t) # 0
  <2>1. Len(w) = 0 /\ Len(y) = 0
    BY <1>3, <1>5
  <2> QED
    BY <2>1, EmptySeq
<1> QED
  BY <1>4, <1>5

\* For every protocol, banner and limit, and however replies are cut into
\* segments: when startTLS or socks5Connect returns without an error, the
\* handshake finds nothing of the conversation on the connection, but for the
\* tag that the last readUntil of startTLSXMPP leaves of a <proceed> in two.
THEOREM NothingElseIsLeft == Spec => []OnlyAnEndTagIsLeft
<1>1. IInv => OnlyAnEndTagIsLeft
  <2>1. SUFFICES ASSUME IInv, pc = "upgraded"
                 PROVE  \/ wire = << >> /\ say = << >>
                        \/ proto = "xmpp" /\ wire \o say = EndTag
    BY DEF OnlyAnEndTagIsLeft, EndTag
  <2>2. br \in Seq(Token) /\ wire \in Seq(Token) /\ say \in Seq(Token)
    BY <2>1 DEF IInv, Typed
  <2>3. Whole = (br \o wire) \o say
    <3>1. got = << >> /\ << >> \o br = br
      BY <2>1, <2>2, ConcatEmptySeq DEF IInv, Upgraded
    <3> QED
      BY <3>1 DEF Whole, Sent
  <2>4. CASE Whole = << >>
    BY <2>2, <2>3, <2>4, AllEmpty
  <2>5. CASE proto = "xmpp" /\ Whole = EndTag
    <3>1. PICK e : e = Word("</proceed>")
      OBVIOUS
    <3>2. (br \o wire) \o say = <<e>> /\ EndTag = <<e>>
      BY <2>3, <2>5, <3>1 DEF EndTag
    <3>3. (wire = << >> /\ say = << >>) \/ wire \o say = <<e>>
      BY <2>2, <3>2, OneOfThree
    <3> QED
      BY <2>5, <3>2, <3>3
  <2> QED
    BY <2>1, <2>4, <2>5 DEF IInv, Upgraded
<1> QED
  BY <1>1, Invariant, PTL

\* And the server has said yes to every message it was sent.
THEOREM UpgradeWasAgreed == Spec => []UpgradeIsAgreed
<1>1. IInv => UpgradeIsAgreed
  BY DEF IInv, Upgraded, UpgradeIsAgreed
<1> QED
  BY <1>1, Invariant, PTL

\* No read of startTLS or socks5Connect takes a yes for an error: with a server
\* that keeps to its protocol, within the banner the limits allow, and does not
\* refuse, the conversation fails only for its deadline, or for a name the
\* proxy cannot be asked for.
THEOREM YesWasUnderstood == Spec => []YesIsUnderstood
<1>1. IInv => YesIsUnderstood
  BY DEF IInv
<1> QED
  BY <1>1, Invariant, PTL

\* The state is well formed, client and server speak in turns, and what
\* expectFTP and readUntil take in is bounded.
THEOREM TalkIsInTurns == Spec => []TalkInv
<1>1. IInv => TalkInv
  <2>1. SUFFICES ASSUME IInv
                 PROVE  TalkInv
    OBVIOUS
  <2>2. asked = AskedBy(proto, step) /\ step \in 1..(Len(Script(proto)) + 1)
    BY <2>1 DEF IInv, InTurn, Typed
  <2>3. proto \in StartTLSProtocols \cup Proxied /\ Len(Script(proto)) \in 2..5 /\ step \in Nat
    BY <2>1, Here DEF IInv
  <2>4. asked <= 2
    <3>1. CASE proto \in SpeaksFirst
      <4>1. step <= 6
        <5>1. PICK len : len = Len(Script(proto))
          OBVIOUS
        <5>2. len \in 2..5 /\ step \in 1..(len + 1)
          BY <2>2, <2>3, <5>1
        <5> QED
          BY <5>2
      <4>2. (step - 1) \div 2 <= 2
        BY <2>2, <2>3, <4>1
      <4> QED
        BY <2>2, <3>1, <4>2 DEF AskedBy
    <3>2. CASE proto = "xmpp"
      <4>1. AskedBy(proto, step) = IF step >= 5 THEN 2 ELSE step \div 2
        BY <3>2 DEF AskedBy, SpeaksFirst
      <4>2. step < 5 => step \div 2 <= 2
        BY <2>3
      <4> QED
        BY <2>2, <2>3, <4>1, <4>2
    <3>3. CASE proto \notin SpeaksFirst /\ proto # "xmpp"
      <4>1. Len(Script(proto)) <= 4
        BY <2>3, <3>3 DEF SpeaksFirst, StartTLSProtocols, Proxied, Script, startTLSLDAP,
           postgres, socks5Connect, socks5Unnameable
      <4>2. step <= 5
        BY <2>2, <2>3, <4>1
      <4>3. step \div 2 <= 2
        BY <2>3, <4>2
      <4> QED
        BY <2>2, <3>3, <4>3 DEF AskedBy
    <3> QED
      BY <3>1, <3>2, <3>3
  <2>5. TypeOK
    BY <2>1, <2>4 DEF IInv, Typed, InTurn, TypeOK
  <2>6. SpeaksInTurn /\ BannersAreBounded
    BY <2>1 DEF IInv, InTurn, SpeaksInTurn
  <2> QED
    BY <2>5, <2>6 DEF TalkInv
<1> QED
  BY <1>1, Invariant, PTL

\* Client and server are never both waiting: a read of startTLS or
\* socks5Connect that is out of bytes has a server that owes it some, or that
\* has a message still to hear.  What is asked for in the middle of a reply is
\* always there to come.
THEOREM OneOfThemMoves == Spec => []NotBothWaiting
<1>1. IInv => NotBothWaiting
  <2>1. SUFFICES ASSUME IInv, Reading, br = << >>, wire = << >>, say = << >>, ~(heard < asked)
                 PROVE  Owes
    BY DEF NotBothWaiting
  <2>2. /\ proto \in StartTLSProtocols \cup Proxied /\ step \in 1..Len(Script(proto))
        /\ Script(proto)[step].do = "read"
        /\ Regular(proto, step, Len(Script(proto)), Len(Yes(proto)))
    BY <2>1, Here DEF IInv, Reading, Now
  <2>3. ~InReply
    <3>1. SUFFICES ASSUME InReply
                   PROVE  FALSE
      OBVIOUS
    <3>2. got \in Seq(Token) /\ refused \in BOOLEAN /\ chat \in Nat /\ << >> \in Seq(Token)
      BY <2>1, EmptySeq DEF IInv, Typed
    <3>3. Sent = got /\ Whole = got \o << >> /\ got \o << >> = got
      BY <2>1, <3>2, ConcatEmptySeq DEF Sent, Whole
    <3>4. Fits(proto, step, got \o << >>, refused, chat)
      BY <3>1, <3>3 DEF InReply
    <3>5. CASE got = << >>
      <4>1. proto = "xmpp" /\ step = 5
        BY <3>1, <3>3, <3>5 DEF InReply
      <4>2. RestOfElement(got, chat)
        BY <3>3, <3>4, <4>1 DEF Fits
      <4> QED
        BY <3>5, <4>2 DEF RestOfElement, EndsIn
    <3>6. CASE got # << >>
      <4>1. ~(proto = "xmpp" /\ step = 4) /\ Reads(Script(proto)[step], got) = "more"
        BY <3>1, <3>6 DEF InReply, Now
      <4>2. Settles(Reads(Script(proto)[step], got), proto, step, << >>, refused, chat)
        BY <2>2, <3>2, <3>4, <3>6, <4>1, Verdict
      <4> QED
        BY <4>1, <4>2 DEF Settles
    <3> QED
      BY <3>5, <3>6
  <2>4. Waiting
    BY <2>1, <2>3 DEF IInv, Conversing, Reading
  <2>5. heard = asked /\ Due = heard + First(proto) /\ asked = AskedBy(proto, step)
    BY <2>1, DueIs DEF IInv, InTurn, Typed
  <2>6. told + 1 = asked + First(proto) /\ told + 1 <= Len(Yes(proto)) /\ ~refused
    BY <2>2, <2>4, <2>5 DEF Waiting, Nth, Regular
  <2>7. told \in Nat /\ Len(Yes(proto)) \in Nat
    BY <2>1, <2>2 DEF IInv, Typed, Yes, StartTLSProtocols, Proxied
  <2> QED
    BY <2>5, <2>6, <2>7 DEF Owes
<1> QED
  BY <1>1, Invariant, PTL
=============================================================================
