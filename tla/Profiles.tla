------------------------------ MODULE Profiles ------------------------------
(***************************************************************************)
(* The client profiles of internal/clientprofile: who each one imitates,   *)
(* in the terms a peer can tell apart -- the groups and versions offered   *)
(* and how large the ClientHello comes out.  `pass` is what the name's     *)
(* prefix says: a client, or a probe kept out of the grade.                *)
(*                                                                         *)
(* Sizes are an order, not bytes: what matters is which hello is larger    *)
(* than which, and so on which side of a peer's limit each one falls.      *)
(***************************************************************************)
EXTENDS Naturals, Sequences

Classical == {"X25519", "P-256", "P-384", "P-521"}
Hybrid == {"X25519MLKEM768", "SecP256r1MLKEM768", "SecP384r1MLKEM1024"}
Group == Classical \cup Hybrid

\* Mutant: any negotiated group will do.
IsPQAny(g) == g \in Group

IsPQ(g) == g \in Hybrid

\* A hello with nothing but classical key shares fits one segment; a hybrid
\* share does not.
Small == 1
Large == 2

HelloSize(groups) == IF groups \cap Hybrid = {} THEN Small ELSE Large

Client(name, groups, versions) ==
  [name |-> name, pass |-> "client", groups |-> groups, versions |-> versions,
   size |-> HelloSize(groups)]

Browser == {"X25519MLKEM768", "X25519", "P-256"}

classic     == Client("classic", {"X25519", "P-256"}, {12, 13})
pqPreferred == Client("pq-preferred", Browser, {12, 13})
pqOnly      == Client("pq-only", {"X25519MLKEM768"}, {13})
tls13Only   == Client("tls13-only", {"X25519", "P-256"}, {13})
tls12       == Client("tls12", {"X25519", "P-256"}, {12})

All == <<classic, pqPreferred, pqOnly, tls13Only, tls12>>

Default == <<classic, pqPreferred, pqOnly>>

\* --groups: the class the caller describes, over pq-preferred's versions.
CustomProfile(groups) == Client("custom", groups, pqPreferred.versions)

GroupProbe(g) ==
  [name |-> g, pass |-> "group", groups |-> {g}, versions |-> {13},
   size |-> HelloSize({g})]

Probed == <<"X25519MLKEM768", "SecP256r1MLKEM768", "SecP384r1MLKEM1024",
            "X25519", "P-256", "P-384", "P-521">>

GroupProbes == [i \in 1..Len(Probed) |-> GroupProbe(Probed[i])]

\* pq-preferred again with the protocol list a browser sends: a few bytes.
ALPNProbe ==
  [pqPreferred EXCEPT !.name = "pq-preferred+alpn", !.pass = "alpn",
                      !.size = Large + 1]

\* pq-preferred twice more, pinned to TLS 1.3, without and with Encrypted
\* Client Hello: a few hundred bytes.
ECHOff ==
  [pqPreferred EXCEPT !.name = "ech:off", !.pass = "ech", !.versions = {13}]
ECHOn == [ECHOff EXCEPT !.name = "ech:on", !.size = Large + 2]
ECHProbes == <<ECHOff, ECHOn>>

\* The sweep: the hybrid client, padded past all of these in steps.
SizeTargets == 5..10

SizeProbe(n) ==
  [name |-> "size", pass |-> "size", groups |-> Browser, versions |-> {13},
   size |-> n]

SizeProbes == [i \in 1..6 |-> SizeProbe(i + 4)]

IsSizeProbe(p) == p.pass = "size"
=============================================================================
