------------------------------ MODULE Framing ------------------------------
(***************************************************************************)
(* The two binary answers a plaintext upgrade is decided on: LDAP's        *)
(* ExtendedResponse, in BER, and MySQL's greeting.  A message is a         *)
(* sequence of bytes; offsets are those of the code, from zero, so that    *)
(* the byte at offset o is b[o + 1].                                       *)
(***************************************************************************)
EXTENDS Integers, Sequences, FiniteSetsExt

Byte == 0..255

\* The number in count bytes from offset at.
BigEndian(b, at, count) ==
  IF count = 1 THEN b[at + 1]
  ELSE IF count = 2 THEN 256 * b[at + 1] + b[at + 2]
  ELSE 256 * (256 * b[at + 1] + b[at + 2]) + b[at + 3]

NoField == [ok |-> FALSE, start |-> 0, next |-> 0]

\* n bytes of contents at offset start, if the message holds them.
Contents(b, start, n) ==
  IF start + n > Len(b) THEN NoField
  ELSE [ok |-> TRUE, start |-> start, next |-> start + n]

\* The element at off: where its contents start, and the offset after them.
berField(b, off) ==
  LET start == off + 2
      count == b[start] - 128
  IN IF start > Len(b) THEN NoField
     ELSE IF b[start] < 128 THEN Contents(b, start, b[start])
     ELSE IF count \notin 1..3 \/ start + count > Len(b) THEN NoField
     ELSE Contents(b, start + count, BigEndian(b, start, count))

\* Mutant: any code is a yes.
AcceptsAnyCode(body) ==
  LET resp == berField(body, berField(body, 0).next)
  IN berField(body, 0).ok /\ resp.ok

\* The result code of an ExtendedResponse is zero: past the messageID, into
\* the response, the first element there.
ldapAccepts(body) ==
  LET id   == berField(body, 0)
      resp == berField(body, id.next)
      in   == SubSeq(body, resp.start + 1, resp.next)
      code == berField(in, 0)
  IN /\ id.ok /\ resp.ok /\ code.ok
     /\ code.next = code.start + 1
     /\ in[code.start + 1] = 0

\* Where the capability flags are: after the version's terminator, the
\* connection id, eight bytes of authentication data and a filler.
capsOffset(p) ==
  LET zeros == {j \in 1..(Len(p) - 1) : p[j + 1] = 0}
  IN (IF zeros = {} THEN Len(p) ELSE Min(zeros)) + 1 + 4 + 8 + 1

\* A greeting of protocol version 10 whose flags hold CLIENT_SSL, 0x0800.
mysqlOffersTLS(p) ==
  /\ p # << >>
  /\ p[1] = 10
  /\ capsOffset(p) + 1 < Len(p)
  /\ (p[capsOffset(p) + 2] \div 8) % 2 = 1
=============================================================================
