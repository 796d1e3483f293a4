------------------------------ MODULE MCDialer ------------------------------
(* Dialer with a timeout and a confirm delay of a few ticks.               *)
EXTENDS Dialer
=============================================================================
