---------------------------- MODULE MCECHLookup ----------------------------
(* Two names, one of them twice, and an address; two resolvers.            *)
EXTENDS ECHLookup

MCNames == {"one.example", "two.example"}
MCLiterals == {"192.0.2.1"}
MCTargets == <<"one.example", "two.example", "one.example", "192.0.2.1">>
=============================================================================
