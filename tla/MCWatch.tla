------------------------------- MODULE MCWatch -------------------------------
(***************************************************************************)
(* Two watched endpoints, three classes of three severities, and up to     *)
(* three changes while they are watched.  A cancelled run may grade an     *)
(* endpoint pq-refusing (the second profile cut) or tls-broken (all cut).  *)
(***************************************************************************)
EXTENDS Watch
=============================================================================
