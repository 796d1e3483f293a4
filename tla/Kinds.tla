------------------------------- MODULE Kinds -------------------------------
(***************************************************************************)
(* How one handshake ended, and which endings are abrupt: the vocabulary   *)
(* of internal/probe that every other module speaks.                       *)
(*                                                                         *)
(* A Go error is abstracted to the set of things classify can find in it:  *)
(* an errors.As or errors.Is target in its chain, or a fragment of its     *)
(* text.  classify then looks for them in a fixed order, first hit wins.   *)
(***************************************************************************)
EXTENDS Naturals, Sequences

Failures == { "dns", "refused", "starttls", "proxy", "unroutable", "timeout",
              "reset", "eof", "ech-reject", "alert", "record", "other" }

Kind == Failures \cup {"ok"}

\* Mutants: a refusal counts as abrupt; silence does not.
AbruptOrAlert(k) == k \in {"timeout", "reset", "eof", "record", "alert"}
AbruptIfHeard(k) == k \in {"reset", "eof", "record"}

\* Endings with no TLS answer in them.
Abrupt(k) == k \in {"timeout", "reset", "eof", "record"}

\* classify's tests in the order it makes them, first hit wins; an error
\* nothing recognises is "other".
classify(err) ==
  LET has(traits) == err \cap traits # {}
  IN  IF has({"DNSError"}) THEN "dns"
      ELSE IF has({"Timeout"}) THEN "timeout"
      ELSE IF has({"ECONNREFUSED"}) THEN "refused"
      ELSE IF has({"NoRoute", "NoFamily"}) THEN "unroutable"
      ELSE IF has({"ECONNRESET"}) THEN "reset"
      ELSE IF has({"EOF"}) THEN "eof"
      ELSE IF has({"ECHRejection"}) THEN "ech-reject"
      ELSE IF has({"AlertError"}) THEN "alert"
      ELSE IF has({"RecordHeader"}) THEN "record"
      ELSE IF has({"alert text"}) THEN "alert"
      ELSE IF has({"reset text"}) THEN "reset"
      ELSE IF has({"EOF text"}) THEN "eof"
      ELSE IF has({"record text"}) THEN "record"
      ELSE "other"
=============================================================================
