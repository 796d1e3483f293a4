-------------------------------- MODULE Fleet --------------------------------
(***************************************************************************)
(* What a run promises whoever asked for it: every endpoint is probed and  *)
(* reported exactly once, no more than Concurrency of them at a time, and  *)
(* the run returns when the last report is in and not before.              *)
(***************************************************************************)
EXTENDS Naturals, FiniteSets

CONSTANTS Target, Concurrency

VARIABLES busy, reported, returned

fleetVars == <<busy, reported, returned>>

Init == busy = {} /\ reported = {} /\ returned = FALSE

Start(t) ==
  /\ t \notin busy \cup reported
  /\ Cardinality(busy) < Concurrency
  /\ busy' = busy \cup {t}
  /\ UNCHANGED <<reported, returned>>

Report(t) ==
  /\ t \in busy
  /\ busy' = busy \ {t}
  /\ reported' = reported \cup {t}
  /\ UNCHANGED returned

Return ==
  /\ reported = Target
  /\ returned = FALSE
  /\ returned' = TRUE
  /\ UNCHANGED <<busy, reported>>

Next == (\E t \in Target : Start(t) \/ Report(t)) \/ Return

Spec == Init /\ [][Next]_fleetVars /\ WF_fleetVars(Next)
=============================================================================
