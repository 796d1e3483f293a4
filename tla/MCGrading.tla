----------------------------- MODULE MCGrading -----------------------------
(***************************************************************************)
(* Grading against every peer that can be made of the lists below: with    *)
(* the default profiles, alone and followed by the single-group probes of  *)
(* --per-group; and with the passes that measure.                          *)
(***************************************************************************)
EXTENDS Grading

\* A classical stack, a browser-ready one, a hybrid-only one, a FIPS-shaped
\* one, and one with nothing in common with any client.
MCPeerGroups == { {"X25519", "P-256"}, {"X25519MLKEM768", "X25519"},
                  {"X25519MLKEM768"}, {"SecP256r1MLKEM768"},
                  {"SecP256r1MLKEM768", "P-256"}, {"P-521"} }

\* A path that drops everything, everything hybrid, or nothing.
MCLimits == {0, 1, 10}

MCUps == {"listening", "closed", "blackhole", "noroute", "noname"}

\* Every peer of the lists, with the default profiles, with the probes of
\* --per-group (also after one client that is not among those), and with every
\* client there is.  Of an endpoint that nothing reaches, nothing else matters.
MCGrade ==
  [peers |-> PeersWith({"listening"}, MCPeerGroups, MCLimits, {"any"}, {"ignores"})
             \cup PeersWith(MCUps \ {"listening"}, {Browser}, {10}, {"any"},
                           {"ignores"}),
   plans |-> {Default, All, Default \o GroupProbes, <<tls12>> \o GroupProbes}]

\* The passes that measure, on the two stacks that reach them and on one
\* that does not speak their version; every limit the sweep can meet.  No
\* measurement looks at client certificates.
MCMeasure ==
  [peers |-> {p \in PeersWith({"listening"},
                              { {"X25519", "P-256"}, {"X25519MLKEM768", "X25519"} },
                              1..10, {"any", "h2", "other"},
                              {"accepts", "declines", "ignores"}) : ~p.mtls},
   plans |-> {<<classic, pqPreferred>> \o SizeProbes \o <<ALPNProbe>> \o ECHProbes}]

MCTrials == {MCGrade, MCMeasure}
=============================================================================
