------------------------------ MODULE MCRunner ------------------------------
(***************************************************************************)
(* Three endpoints on two slots.  The first is swept for size with an ECH  *)
(* pair's half after the sweep, the others have less to do, so a slot is   *)
(* given back while an endpoint is still at work.                          *)
(***************************************************************************)
EXTENDS Runner

MCPlan == << <<"classic", "size1", "size2", "ech">>,
             <<"classic", "size1">>,
             <<"classic">> >>
=============================================================================
