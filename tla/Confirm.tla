------------------------------- MODULE Confirm -------------------------------
(***************************************************************************)
(* What DoConfirmed promises its callers, whatever the network does: it    *)
(* dials once, dials once more only after an abrupt ending, and then says  *)
(* one word about what it saw.  Dialer implements this.                    *)
(***************************************************************************)
EXTENDS Kinds

VARIABLES seen,   \* how the dials made so far ended, in order
          word    \* "pending", then what the caller may say about them

confirmVars == <<seen, word>>

Words == {"answered", "flap", "wall", "civil", "unconfirmed"}

\* The only word that a history of dials supports.
WordFor(s) ==
  CASE Len(s) = 1 /\ s[1] = "ok"     -> "answered"
    [] Len(s) = 1 /\ Abrupt(s[1])    -> "unconfirmed"
    [] Len(s) = 2 /\ s[2] = "ok"     -> "flap"
    [] Len(s) = 2 /\ Abrupt(s[2])    -> "wall"
    [] OTHER                         -> "civil"

Init == seen = << >> /\ word = "pending"

\* A dial that leaves the question open: the first one, and abrupt.
DialAndDoubt(k) ==
  /\ word = "pending"
  /\ seen = << >>
  /\ Abrupt(k)
  /\ seen' = <<k>>
  /\ UNCHANGED word

\* A dial whose ending is reported.
DialAndSay(k) ==
  /\ word = "pending"
  /\ seen' = Append(seen, k)
  /\ word' = WordFor(seen')

\* No second dial after all: the caller left.
SayUnconfirmed ==
  /\ word = "pending"
  /\ seen # << >>
  /\ word' = "unconfirmed"
  /\ UNCHANGED seen

Next == (\E k \in Kind : DialAndDoubt(k) \/ DialAndSay(k)) \/ SayUnconfirmed

Spec == Init /\ [][Next]_confirmVars /\ WF_confirmVars(Next)
=============================================================================
