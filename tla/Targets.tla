------------------------------- MODULE Targets -------------------------------
(***************************************************************************)
(* probe.Target: what is dialled, what it is called in a report, and what  *)
(* an address family is.  A target is a record with host, port, sni ("" if *)
(* none was given) and written, which says that the port was.              *)
(***************************************************************************)
EXTENDS Integers, SequencesExt

CONSTANTS
  Hosts,        \* what a dial or a handshake may name
  Ports,
  Literals,     \* hosts that are addresses
  V4,           \* ... of which these are IPv4
  Less(_, _)    \* the order of two dial addresses as text

ASSUME TargetsAssumption ==
  /\ V4 \subseteq Literals /\ Literals \subseteq Hosts
  /\ "" \notin Hosts \cup Ports

\* Text has one order.
ASSUME OrderAssumption ==
  \A a, b \in Hosts \X Ports :
    /\ ~(Less(a, b) /\ Less(b, a))
    /\ a # b => Less(a, b) \/ Less(b, a)
    /\ \A c \in Hosts \X Ports : Less(a, b) /\ Less(b, c) => Less(a, c)

\* The members of S in the order that is the set of pairs Before: as many come
\* before the nth as its place says.
InOrder(S, Before) ==
  [n \in 1..Cardinality(S) |->
     CHOOSE x \in S : Cardinality({y \in S : <<y, x>> \in Before}) = n - 1]

\* What s has at the places in I, in the order it has it.
At(s, I) ==
  LET at == InOrder(I, {p \in I \X I : p[1] < p[2]})
  IN [n \in DOMAIN at |-> s[at[n]]]

Addr(t) == <<t.host, t.port>>

\* The server name a handshake asks for.
ServerName(t) == IF t.sni # "" THEN t.sni ELSE t.host

\* The name of a target in reports: its address, and the server name where it
\* is not the host.
String(t) == Append(Addr(t), IF t.sni # t.host THEN t.sni ELSE "")

Families == {"tcp4", "tcp6"}

Family(ip) == IF ip \in V4 THEN "tcp4" ELSE "tcp6"

\* What --net leaves of the addresses of a name.
inFamily(ip, network) == network \in {"", Family(ip)}
=============================================================================
