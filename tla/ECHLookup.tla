----------------------------- MODULE ECHLookup -----------------------------
(***************************************************************************)
(* echProfilesFor and LookupECHConfig: before a run with --ech, the HTTPS  *)
(* record of every distinct server name is asked of the resolvers in turn, *)
(* over UDP, and over TCP when the answer did not fit.                     *)
(*                                                                         *)
(* A name publishes a config or it does not.  Resolvers that answer tell   *)
(* what is published; they may also be away, refuse, answer a question     *)
(* nobody asked, or send half of it.  The context the command passes never *)
(* ends: an exchange has a deadline of its own once it has a socket, and   *)
(* until then a TCP connection only the operating system's.                *)
(***************************************************************************)
EXTENDS Integers, SequencesExt

CONSTANTS Names,     \* server names that are names
          Literals,  \* server names that are addresses, or that no query can carry
          Targets,   \* the server name of each target, in their order
          Servers,   \* how many resolvers there are
          Patience,  \* dnsDeadline, in ticks
          Connect    \* what the operating system gives a TCP connection, in ticks

\* No config, and the ordinary profiles: two words that are no server names.
Nothing == "nothing"
Base == "base"

ASSUME FleetAssumption ==
  /\ IsFiniteSet(Names)
  /\ Names \cap Literals = {}
  /\ {Nothing, Base} \cap Names = {}
  /\ Targets \in Seq(Names \cup Literals)
  /\ Servers \in Nat \ {0} /\ Patience \in Nat \ {0} /\ Connect \in Nat \ {0}

VARIABLES
  published,  \* what each name publishes: its own config, or nothing
  pc,         \* loop, udp, tcp, next or done
  at,         \* the target the loop is on
  server,     \* the resolver being asked
  byName,     \* what each name seen so far is offered: a config, or base
  lookups,    \* how often each name was looked up
  failures,   \* how many resolvers had no answer for each name
  sock,       \* an exchange has a connection open
  left,       \* ticks to its deadline, or to the connection's
  elapsed     \* ticks since the first lookup

vars == <<published, pc, at, server, byName, lookups, failures, sock, left,
          elapsed>>
loop == <<published, at, byName, lookups>>

ServerNames == Names \cup Literals
Now == Targets[at]

----------------------------------------------------------------------------
(* An answer.                                                              *)

\* A message: whose query it is an answer to, its response code, whether it
\* is truncated, and its records.
Message(own, rcode, tc, records) ==
  [own |-> own, rcode |-> rcode, tc |-> tc, records |-> records]

Rec(type, ech) == [type |-> type, ech |-> ech]

\* The answer sections a resolver that knows name n may send: a CNAME may
\* come first, and an alias carries no parameters.
Answers(n) ==
  IF published[n] = Nothing
  THEN {<< >>, <<Rec("CNAME", Nothing)>>, <<Rec("HTTPS", Nothing)>>}
  ELSE {<<Rec("HTTPS", published[n])>>,
        <<Rec("CNAME", Nothing), Rec("HTTPS", Nothing), Rec("HTTPS", published[n])>>}

\* Half of one: it ends inside the last record it has.
Halves(n) == {<<Rec("cut", Nothing)>>, <<Rec("CNAME", Nothing), Rec("cut", Nothing)>>}

\* Mutant: an answer to another query will do.
dnsCheckCode(m) == m.rcode = 0

\* dnsCheck: an answer to this query, with no error in it.
dnsCheck(m) == m.own /\ m.rcode = 0

\* The first config among the records, unless one of them is cut before it.
echFromAnswer(records) ==
  LET telling == {i \in DOMAIN records : records[i].type = "cut" \/ records[i].ech # Nothing}
  IN IF telling = {} THEN Nothing ELSE records[Min(telling)].ech

----------------------------------------------------------------------------
(* LookupECHConfig.                                                        *)

\* What the caller makes of it: a config, or the ordinary profiles.
Conclude(config) ==
  /\ byName' = [byName EXCEPT ![Now] = IF config = Nothing THEN Base ELSE config]
  /\ pc' = "next"
  /\ sock' = FALSE
  /\ UNCHANGED <<published, at, server, lookups, failures, left, elapsed>>

\* Mutant: a resolver that fails over TCP is asked over UDP again.
FailsAndAsksAgain ==
  /\ failures' = failures
  /\ sock' = FALSE
  /\ IF pc = "tcp"
     THEN pc' = "udp" /\ UNCHANGED <<byName, server>>
     ELSE pc' = "next" /\ byName' = [byName EXCEPT ![Now] = Base] /\ UNCHANGED server
  /\ UNCHANGED <<published, at, lookups, left, elapsed>>

\* This resolver is no use: the next one, or the error of the last.
Fails ==
  /\ failures' = [failures EXCEPT ![Now] = @ + 1]
  /\ sock' = FALSE
  /\ IF server < Servers
     THEN server' = server + 1 /\ pc' = "udp" /\ UNCHANGED byName
     ELSE pc' = "next" /\ byName' = [byName EXCEPT ![Now] = Base] /\ UNCHANGED server
  /\ UNCHANGED <<published, at, lookups, left, elapsed>>

\* A socket, its deadline, and the query on it.
Ask ==
  /\ pc \in {"udp", "tcp"} /\ ~sock
  /\ sock' = TRUE
  /\ left' = Patience
  /\ UNCHANGED <<loop, pc, server, failures, elapsed>>

\* No socket: no route, or nobody there.
AskFails ==
  /\ pc \in {"udp", "tcp"} /\ ~sock
  /\ Fails

\* Mutant: a truncated answer is read as it is.
UDPAnswersAnyway(m) ==
  IF ~dnsCheck(m) THEN Fails ELSE Conclude(echFromAnswer(m.records))

\* What a UDP answer leads to: the same question over TCP if it is cut short.
UDPAnswers(m) ==
  IF ~dnsCheck(m) THEN Fails
  ELSE IF m.tc
  THEN /\ pc' = "tcp" /\ sock' = FALSE /\ left' = Connect
       /\ UNCHANGED <<loop, server, failures, elapsed>>
  ELSE Conclude(echFromAnswer(m.records))

HearUDP ==
  /\ pc = "udp" /\ sock
  /\ \/ \E r \in Answers(Now) : UDPAnswers(Message(TRUE, 0, FALSE, r))
     \/ \E r \in Halves(Now)  : UDPAnswers(Message(TRUE, 0, TRUE, r))
     \/ \E rcode \in {2, 3}   : UDPAnswers(Message(TRUE, rcode, FALSE, << >>))
     \/ UDPAnswers(Message(FALSE, 0, FALSE, <<Rec("HTTPS", "forged")>>))

\* Over TCP a whole message is read, and its truncation bit is not.
HearTCP ==
  /\ pc = "tcp" /\ sock
  /\ \E m \in {Message(TRUE, 0, FALSE, r) : r \in Answers(Now)} \cup
              {Message(TRUE, 2, FALSE, << >>),
               Message(FALSE, 0, FALSE, <<Rec("HTTPS", "forged")>>)} :
       IF dnsCheck(m) THEN Conclude(echFromAnswer(m.records)) ELSE Fails

\* The socket has an error instead: nobody there, or an answer cut off.
HearFails ==
  /\ pc \in {"udp", "tcp"} /\ sock
  /\ Fails

\* Mutant: only UDP has a deadline.
DeadlinePassesOnUDP == pc = "udp" /\ sock /\ left = 0 /\ Fails

\* An exchange or a connection in progress.
Waiting == sock \/ pc = "tcp"

DeadlinePasses == Waiting /\ left = 0 /\ Fails

----------------------------------------------------------------------------
(* echProfilesFor.                                                         *)

\* A name is looked up once, whatever became of it.
Known(n) == byName[n] # Nothing

Skip ==
  /\ pc = "loop"
  /\ Known(Now)
  /\ pc' = "next"
  /\ UNCHANGED <<loop, server, failures, sock, left, elapsed>>

\* No question can be asked about it.
Literal ==
  /\ pc = "loop"
  /\ ~Known(Now) /\ Now \in Literals
  /\ Conclude(Nothing)

Lookup ==
  /\ pc = "loop"
  /\ ~Known(Now) /\ Now \in Names
  /\ pc' = "udp"
  /\ server' = 1
  /\ lookups' = [lookups EXCEPT ![Now] = @ + 1]
  /\ UNCHANGED <<published, at, byName, failures, sock, left, elapsed>>

NextTarget ==
  /\ pc = "next"
  /\ at' = at + 1
  /\ pc' = IF at = Len(Targets) THEN "done" ELSE "loop"
  /\ UNCHANGED <<published, server, byName, lookups, failures, sock, left, elapsed>>

----------------------------------------------------------------------------
Tick ==
  /\ Waiting /\ left > 0
  /\ left' = left - 1
  /\ elapsed' = elapsed + 1
  /\ UNCHANGED <<loop, pc, server, failures, sock>>

Init ==
  /\ published \in {f \in [Names -> Names \cup {Nothing}] :
                      \A n \in Names : f[n] \in {n, Nothing}}
  /\ pc = IF Targets = << >> THEN "done" ELSE "loop"
  /\ at = 1 /\ server = 1
  /\ byName = [n \in ServerNames |-> Nothing]
  /\ lookups = [n \in ServerNames |-> 0]
  /\ failures = [n \in ServerNames |-> 0]
  /\ sock = FALSE /\ left = 0
  /\ elapsed = 0

Over == pc = "done" /\ UNCHANGED vars

\* What the program and the clock do with no answer from anybody.
Unaided == \/ Skip \/ Literal \/ Lookup \/ NextTarget
           \/ (pc = "udp" /\ Ask) \/ Tick \/ DeadlinePasses

Next == Unaided \/ Ask \/ AskFails \/ HearUDP \/ HearTCP \/ HearFails \/ Over

Spec == Init /\ [][Next]_vars /\ WF_vars(Unaided)

----------------------------------------------------------------------------
(* Properties.                                                             *)

TypeOK ==
  /\ pc \in {"loop", "udp", "tcp", "next", "done"}
  /\ at \in 1..(Len(Targets) + 1)
  /\ server \in 1..Servers
  /\ byName \in [ServerNames -> Names \cup {Nothing, Base}]
  /\ lookups \in [ServerNames -> Nat]
  /\ failures \in [ServerNames -> 0..Servers]
  /\ sock \in BOOLEAN
  /\ left \in Nat /\ elapsed \in Nat

\* A target is offered ECH with the whole config its own name publishes, and
\* with no other: not half of it, not another name's, not one that came in
\* answer to another question.  Any of these fails inside the handshake,
\* where it would be read as the endpoint's doing.
OwnConfig ==
  \A n \in ServerNames :
     byName[n] \notin {Nothing, Base} => n \in Names /\ byName[n] = published[n]

\* A name that publishes a config goes without it only if no resolver would
\* tell: an answer that was late, refused or cut short at one is asked for
\* at every other.
NoneMissed ==
  \A n \in Names :
     byName[n] = Base /\ published[n] # Nothing => failures[n] = Servers

\* A fleet behind one name asks once, whatever the answer was, and an address
\* is never asked about.
OneLookupEach ==
  /\ \A n \in Names : lookups[n] <= 1
  /\ \A n \in Literals : lookups[n] = 0

\* Before the first handshake, silence costs at most two exchanges and a
\* connection for each resolver and each name, however many targets bear it.
WithinBudget ==
  elapsed <= Cardinality(Names) * Servers * (2 * Patience + Connect)

\* The state is well formed, and no target is offered a config of others.
LookupInv == TypeOK /\ OwnConfig

\* The resolvers are asked little: once per name, and not for long.
AsksLittle == OneLookupEach /\ WithinBudget

\* The lookups end, and then every target has its profiles.
Returns == <>(pc = "done" /\ \A i \in DOMAIN Targets : byName[Targets[i]] # Nothing)
=============================================================================
