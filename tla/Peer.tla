-------------------------------- MODULE Peer --------------------------------
(***************************************************************************)
(* The endpoint at the other end, as the profiles expect it to behave: it  *)
(* is not part of the program.  A peer is a configuration -- what it       *)
(* answers on, which groups and versions it speaks, the largest hello its  *)
(* path lets through, whether it wants a client certificate -- and a       *)
(* handshake with it has the outcomes TLS allows for that configuration.   *)
(***************************************************************************)
EXTENDS Kinds, Profiles

\* What a dial may find: something listening, or nothing to talk to.
\* A peer that `declines` is one whose policy answers any hello offering a
\* hybrid with an alert, whatever else the hello offers; `limit` is the size
\* its path stops at; `alpn` is the list it insists on, if it looks at the
\* extension at all: a browser's, or some other protocol's; `ech` is what it
\* does with an encrypted hello.
PeersWith(ups, groups, limits, alpns, echs) ==
  [up : ups, groups : groups, versions : {{12}, {13}, {12, 13}},
   limit : limits, cut : {"reset", "timeout"},
   mtls : BOOLEAN, declines : BOOLEAN, alpn : alpns, ech : echs]

\* A dial that ended before its ClientHello left: HelloBytes stays 0.
Unsent(p, kind) ==
  [profile |-> p, ok |-> FALSE, kind |-> kind, version |-> 0, pq |-> FALSE,
   certRequested |-> FALSE, hello |-> 0, echAccepted |-> FALSE,
   attempt |-> "once"]

Failed(p, kind) == [Unsent(p, kind) EXCEPT !.hello = p.size]

Completed(peer, p, v, g) ==
  [Failed(p, "ok") EXCEPT !.ok = TRUE, !.version = v, !.pq = IsPQ(g),
                          !.certRequested = peer.mtls,
                          !.echAccepted = p = ECHOn /\ peer.ech = "accepts"]

\* The version both sides speak, newest first; 0 when there is none.
Agreed(peer, p) ==
  LET both == peer.versions \cap p.versions
  IN  IF 13 \in both THEN 13 ELSE IF 12 \in both THEN 12 ELSE 0

\* Hybrid key exchange exists in TLS 1.3 only.
Common(peer, p) ==
  {g \in peer.groups \cap p.groups :
     Agreed(peer, p) = 13 \/ (Agreed(peer, p) = 12 /\ ~IsPQ(g))}

\* What a peer that lets the hello through makes of it.  In TLS 1.2 a client
\* without the certificate it was asked for is turned away; in TLS 1.3 the
\* client is done before the peer can object.
Answers(peer, p) ==
  IF \/ peer.declines /\ p.groups \cap Hybrid # {}
     \/ p.pass = "alpn" /\ peer.alpn = "other"
     \/ p.pass = "size" /\ peer.alpn # "any"
     \/ Common(peer, p) = {}
  THEN {Failed(p, "alert")}
  ELSE IF p = ECHOn /\ peer.ech = "declines"
  THEN {Failed(p, "ech-reject")}
  ELSE IF Agreed(peer, p) = 12 /\ peer.mtls
  THEN {[Failed(p, "alert") EXCEPT !.certRequested = TRUE]}
  ELSE {Completed(peer, p, Agreed(peer, p), g) : g \in Common(peer, p)}

\* Every way one dial of profile p can end.
Handshake(peer, p) ==
  CASE peer.up = "closed"    -> {Unsent(p, "refused")}
    [] peer.up = "noroute"   -> {Unsent(p, "unroutable")}
    [] peer.up = "noname"    -> {Unsent(p, "dns")}
    [] peer.up = "blackhole" -> {Unsent(p, "timeout")}
    [] peer.up = "listening" -> IF p.size > peer.limit
                                THEN {Failed(p, peer.cut)}
                                ELSE Answers(peer, p)

Connects(peer, p) == \E r \in Handshake(peer, p) : r.ok
=============================================================================
