------------------------------- MODULE Dialer -------------------------------
(***************************************************************************)
(* One (target, profile) attempt as Dialer.DoConfirmed makes it: Do dials, *)
(* perhaps through a SOCKS5 proxy, perhaps through a plaintext upgrade,    *)
(* then shakes hands; an abrupt failure is dialled once more before it is  *)
(* believed.                                                               *)
(*                                                                         *)
(* The network is an adversary.  At every point where Do waits, the        *)
(* resolver, the proxy or the peer may answer in any way it can, or stay   *)
(* silent for ever.  Time is a count of ticks: Timeout of them for each    *)
(* dial's context, Delay between the two dials.  Time does not pass an     *)
(* expired timer before the program has acted on it.                       *)
(***************************************************************************)
EXTENDS Kinds, Integers

CONSTANTS Timeout,   \* Dialer.Timeout, in ticks
          Delay      \* Dialer.ConfirmDelay, in ticks

ASSUME TimesAssumption == Timeout \in Nat \ {0} /\ Delay \in Nat \ {0}

VARIABLES
  opts,       \* the Dialer's options and the profile's, fixed for the attempt
  pc,         \* where the goroutine is
  attempt,    \* the dial in progress, or the last one: 1 or 2
  left,       \* ticks before the dial's context expires
  pause,      \* ticks left of the confirm delay
  cancelled,  \* the caller's context is done
  sock,       \* a connection is open
  deadline,   \* SetDeadline is in force on it
  wire,       \* what was seen of this dial: hellos written, certificate asked
  contact,    \* the farthest party this dial has sent a packet to
  elapsed,    \* ticks since DoConfirmed was called
  ends,       \* how each finished dial ended, and at whose hand
  result      \* what DoConfirmed returns; a stored first result before that

vars == << opts, pc, attempt, left, pause, cancelled, sock, deadline, wire,
           contact, elapsed, ends, result >>

Options == [confirm : BOOLEAN, socks5 : BOOLEAN, startTLS : BOOLEAN,
            ech : BOOLEAN]

Phases == {"resolve", "connect", "proxy", "starttls", "handshake"}

\* Who made the dial end: the peer inside TLS, the peer or the path without
\* a TLS answer, the deadline, the caller, the plaintext protocol, the proxy,
\* or something local to the prober (its resolver, its routes).
Causes == {"answer", "cut", "clock", "caller", "plaintext", "proxy", "local"}

Ends == [kind : Kind, cause : Causes, phase : Phases, hellos : 0..2,
         contact : {"nobody", "proxy", "endpoint"}]

Results == [ok : BOOLEAN, kind : Kind, attempts : 0..2,
            firstKind : Kind \cup {"none"}, reproduced : BOOLEAN,
            flapped : BOOLEAN, hellos : 0..2, hrr : BOOLEAN,
            clientCertRequested : BOOLEAN]

NoResult == [ok |-> FALSE, kind |-> "other", attempts |-> 0,
             firstKind |-> "none", reproduced |-> FALSE, flapped |-> FALSE,
             hellos |-> 0, hrr |-> FALSE, clientCertRequested |-> FALSE]

Untouched == [hellos |-> 0, certRequest |-> FALSE]

----------------------------------------------------------------------------
(* The end of Do, and what DoConfirmed makes of it.                        *)

\* Do's Result for a dial that ended with kind k.
ResultOf(k) ==
  [ok |-> k = "ok", kind |-> k, attempts |-> 1, firstKind |-> "none",
   reproduced |-> FALSE, flapped |-> FALSE, hellos |-> wire.hellos,
   hrr |-> wire.hellos > 1, clientCertRequested |-> wire.certRequest]

\* Only an abrupt failure is worth a second dial, and only if asked for.
Believed(r) == ~opts.confirm \/ r.ok \/ ~Abrupt(r.kind)

\* Mutant: any second failure counts as the first one reproduced.
ConfirmedByAnyFailure(first, second) ==
  [second EXCEPT !.attempts = 2, !.firstKind = first.kind,
                 !.flapped = second.ok, !.reproduced = ~second.ok]

\* Mutant: a failure that a second dial did not repeat is forgotten.
ConfirmedForgetful(first, second) ==
  [second EXCEPT !.attempts = 2, !.firstKind = first.kind,
                 !.reproduced = ~second.ok /\ Abrupt(second.kind)]

\* The second dial's result, with what the first one was.
Confirmed(first, second) ==
  [second EXCEPT !.attempts = 2, !.firstKind = first.kind,
                 !.flapped = second.ok,
                 !.reproduced = ~second.ok /\ Abrupt(second.kind)]

\* Mutant: dials for as long as it fails abruptly.
AfterEvery(k) == IF ~Believed(ResultOf(k)) THEN "pause" ELSE "done"

\* Where DoConfirmed goes once a dial has ended with kind k.
After(k) == IF attempt = 1 /\ ~Believed(ResultOf(k)) THEN "pause" ELSE "done"

\* Mutant: an error path returns without closing.
CloseForgotten == UNCHANGED <<sock, deadline>>

\* The deferred Close.
Close == sock' = FALSE /\ deadline' = FALSE

\* Do returns, and DoConfirmed carries on.
Return(k, cause) ==
  /\ Close
  /\ ends' = Append(ends, [kind |-> k, cause |-> cause, phase |-> pc,
                           hellos |-> wire.hellos, contact |-> contact])
  /\ result' = IF attempt = 1 THEN ResultOf(k)
                              ELSE Confirmed(result, ResultOf(k))
  /\ pc' = After(k)
  /\ UNCHANGED <<opts, attempt, left, pause, cancelled, wire, contact, elapsed>>

----------------------------------------------------------------------------
(* DialContext: resolve, then connect.                                     *)

Resolved ==
  /\ pc = "resolve"
  /\ pc' = "connect"
  /\ contact' = IF opts.socks5 THEN "proxy" ELSE "endpoint"
  /\ UNCHANGED <<opts, attempt, left, pause, cancelled, sock, deadline, wire,
                 elapsed, ends, result>>

\* Mutant: a dial that failed through the proxy is classified like any other.
DialFailsBlindly(err, cause) == Return(classify(err), cause)

\* A failed dial: classified, except that through a proxy whatever went
\* wrong is the proxy's.
DialFails(err, cause) ==
  Return(IF opts.socks5 THEN "proxy" ELSE classify(err),
         IF opts.socks5 THEN "proxy" ELSE cause)

\* No name, no route, or no address in the pinned family: nothing was sent.
ResolveFails ==
  /\ pc = "resolve"
  /\ \E err \in {{"DNSError"}, {"NoRoute"}, {"NoFamily"}} :
       DialFails(err, "local")

ConnectFails ==
  /\ pc = "connect"
  /\ \/ \E err \in {{"ECONNREFUSED"}, {"ECONNRESET"}} : DialFails(err, "cut")
     \/ DialFails({"NoRoute"}, "local")

\* Mutant: the plaintext negotiation reads without a deadline.
ArmedForProxy == opts.socks5

\* socks5Connect and the plaintext negotiation both put the context's
\* deadline on the socket before they read from it.
Armed == opts.socks5 \/ opts.startTLS

Connected ==
  /\ pc = "connect"
  /\ sock' = TRUE
  /\ deadline' = Armed
  /\ pc' = IF opts.socks5 THEN "proxy"
           ELSE IF opts.startTLS THEN "starttls" ELSE "handshake"
  /\ UNCHANGED <<opts, attempt, left, pause, cancelled, wire, contact,
                 elapsed, ends, result>>

----------------------------------------------------------------------------
(* The conversations before TLS: the proxy's, then the peer's plaintext    *)
(* one.  Neither watches the context; only the socket's deadline ends a    *)
(* silence.                                                                *)

\* The proxy connected us through.  Its deadline comes off, and goes back on
\* at once if a plaintext negotiation follows.
ProxyGrants ==
  /\ pc = "proxy"
  /\ contact' = "endpoint"
  /\ deadline' = opts.startTLS
  /\ pc' = IF opts.startTLS THEN "starttls" ELSE "handshake"
  /\ UNCHANGED <<opts, attempt, left, pause, cancelled, sock, wire, elapsed,
                 ends, result>>

ProxyFails ==
  /\ pc = "proxy"
  /\ Return("proxy", "proxy")

Upgraded ==
  /\ pc = "starttls"
  /\ deadline' = FALSE
  /\ pc' = "handshake"
  /\ UNCHANGED <<opts, attempt, left, pause, cancelled, sock, wire, contact,
                 elapsed, ends, result>>

UpgradeFails ==
  /\ pc = "starttls"
  /\ Return("starttls", "plaintext")

----------------------------------------------------------------------------
(* The TLS handshake.                                                      *)

\* The first ClientHello, or the second one a HelloRetryRequest asks for:
\* wireConn counts what is written.
WriteHello ==
  /\ pc = "handshake"
  /\ wire.hellos < 2
  /\ wire' = [wire EXCEPT !.hellos = @ + 1]
  /\ UNCHANGED <<opts, pc, attempt, left, pause, cancelled, sock, deadline,
                 contact, elapsed, ends, result>>

\* The peer sent a CertificateRequest: crypto/tls calls GetClientCertificate.
CertificateRequested ==
  /\ pc = "handshake"
  /\ wire.hellos > 0
  /\ ~wire.certRequest
  /\ wire' = [wire EXCEPT !.certRequest = TRUE]
  /\ UNCHANGED <<opts, pc, attempt, left, pause, cancelled, sock, deadline,
                 contact, elapsed, ends, result>>

\* The one error Do reads for itself: a certificate that does not verify can
\* only be the ECH public name's, because nothing else is verified.
KindOf(err) ==
  IF opts.ech /\ classify(err) = "other" /\ "certificate text" \in err
  THEN "ech-reject" ELSE classify(err)

HandshakeCompletes ==
  /\ pc = "handshake"
  /\ wire.hellos > 0
  /\ Return("ok", "answer")

\* The peer declines in TLS: an alert crypto/tls names in a text classify
\* knows or does not know, or a retry config for ECH.
HandshakeDeclined ==
  /\ pc = "handshake"
  /\ wire.hellos > 0
  /\ \E err \in {{"alert text"}, {}} \cup
                (IF opts.ech
                 THEN {{"ECHRejection", "alert text"}, {"certificate text"}}
                 ELSE {}) :
       Return(KindOf(err), "answer")

\* The peer, or something on the path, ends it without a TLS answer.
HandshakeCut ==
  /\ pc = "handshake"
  /\ \/ \E err \in {{"ECONNRESET"}, {"EOF"}} : Return(KindOf(err), "cut")
     \/ wire.hellos > 0 /\ Return(KindOf({"RecordHeader"}), "cut")

----------------------------------------------------------------------------
(* The context ends first.  DialContext and HandshakeContext return its    *)
(* error; the two conversations in between only ever see the deadline they *)
(* put on the socket.                                                      *)

DeadlinePasses ==
  /\ left = 0
  /\ \/ pc = "resolve" /\ DialFails({"DNSError", "Timeout"}, "clock")
     \/ pc = "connect" /\ DialFails({"Timeout"}, "clock")
     \/ pc = "proxy" /\ deadline /\ Return("proxy", "clock")
     \/ pc = "starttls" /\ deadline /\ Return("starttls", "clock")
     \/ pc = "handshake" /\ Return(KindOf({"Timeout"}), "clock")

CancelSeen ==
  /\ cancelled
  /\ \/ pc = "resolve" /\ \E err \in {{"DNSError"}, {}} : DialFails(err, "caller")
     \/ pc = "connect" /\ DialFails({}, "caller")
     \/ pc = "handshake" /\ Return(KindOf({}), "caller")

----------------------------------------------------------------------------
(* Between the two dials.                                                  *)

\* The context wins the select: the first result goes out as it stands.
PauseCancelled ==
  /\ pc = "pause"
  /\ cancelled
  /\ pc' = "done"
  /\ UNCHANGED <<opts, attempt, left, pause, cancelled, sock, deadline, wire,
                 contact, elapsed, ends, result>>

\* The timer wins it, and Do runs again with a context of its own.
Redial ==
  /\ pc = "pause"
  /\ pause = 0
  /\ pc' = "resolve"
  /\ attempt' = 2
  /\ left' = Timeout
  /\ wire' = Untouched
  /\ contact' = "nobody"
  /\ UNCHANGED <<opts, pause, cancelled, sock, deadline, elapsed, ends,
                 result>>

----------------------------------------------------------------------------
(* The world: time, and the caller.                                        *)

Tick ==
  /\ \/ /\ pc \in Phases
        /\ left > 0
        /\ left' = left - 1
        /\ UNCHANGED pause
     \/ /\ pc = "pause"
        /\ pause > 0
        /\ pause' = pause - 1
        /\ UNCHANGED left
  /\ elapsed' = elapsed + 1
  /\ UNCHANGED <<opts, pc, attempt, cancelled, sock, deadline, wire, contact,
                 ends, result>>

Cancel ==
  /\ pc # "done"
  /\ ~cancelled
  /\ cancelled' = TRUE
  /\ UNCHANGED <<opts, pc, attempt, left, pause, sock, deadline, wire,
                 contact, elapsed, ends, result>>

Init ==
  /\ opts \in Options
  /\ pc = "resolve"
  /\ attempt = 1
  /\ left = Timeout
  /\ pause = Delay
  /\ cancelled = FALSE
  /\ sock = FALSE
  /\ deadline = FALSE
  /\ wire = Untouched
  /\ contact = "nobody"
  /\ elapsed = 0
  /\ ends = << >>
  /\ result = NoResult

Terminated == pc = "done" /\ UNCHANGED vars

Peer == \/ Resolved \/ ResolveFails \/ Connected \/ ConnectFails
        \/ ProxyGrants \/ ProxyFails \/ Upgraded \/ UpgradeFails
        \/ CertificateRequested
        \/ HandshakeCompletes \/ HandshakeDeclined \/ HandshakeCut

\* What happens without anybody's help: time passes, and a timer that has
\* run out is acted on.
Unaided == Tick \/ DeadlinePasses \/ Redial

Next == \/ Peer \/ WriteHello \/ Unaided \/ CancelSeen \/ PauseCancelled
        \/ Cancel \/ Terminated

\* The peer, the proxy and the caller owe nothing: only time is fair.
Spec == Init /\ [][Next]_vars /\ WF_vars(Unaided)

----------------------------------------------------------------------------
(* Properties.                                                             *)

TypeOK ==
  /\ opts \in Options
  /\ pc \in Phases \cup {"pause", "done"}
  /\ attempt \in 1..2
  /\ left \in 0..Timeout
  /\ pause \in 0..Delay
  /\ cancelled \in BOOLEAN
  /\ sock \in BOOLEAN
  /\ deadline \in BOOLEAN
  /\ wire \in [hellos : 0..2, certRequest : BOOLEAN]
  /\ contact \in {"nobody", "proxy", "endpoint"}
  /\ elapsed \in Nat
  /\ ends \in Seq(Ends)
  /\ result \in Results

\* An abrupt kind is an accusation (pq-intolerant is built on it), so it is
\* only ever recorded of a dial that put packets on the endpoint's own
\* address and that the caller did not cut short: never of the resolver, the
\* proxy, the plaintext conversation or a missing route.
AbruptIsTheEndpoints ==
  \A i \in DOMAIN ends :
     Abrupt(ends[i].kind) => /\ ends[i].contact = "endpoint"
                             /\ ends[i].cause \in {"cut", "clock"}
                             /\ ends[i].phase \in {"connect", "handshake"}

\* "Reproduced" and "flapped" are claims about two dials, and both dials were
\* made and ended that way.  A wall is two abrupt endings, neither of them
\* the caller's doing; a flap is an abrupt one and then a handshake.
TwoDialClaims ==
  pc = "done" =>
     /\ result.reproduced <=> /\ Len(ends) = 2
                              /\ \A i \in 1..2 : /\ Abrupt(ends[i].kind)
                                                 /\ ends[i].cause # "caller"
     /\ result.flapped <=> /\ Len(ends) = 2
                           /\ Abrupt(ends[1].kind)
                           /\ ends[2].kind = "ok"
     /\ result.attempts = Len(ends)
     /\ result.kind = ends[Len(ends)].kind
     /\ Len(ends) = 2 => result.firstKind = ends[1].kind

\* A peer that answered in TLS, yes or no, is not dialled again: nobody who
\* refuses politely is contacted twice for it.
AnAnswerIsFinal ==
  \A i \in DOMAIN ends :
     ends[i].cause = "answer" => i = Len(ends) /\ pc = "done"

\* The two dials of an attempt never overlap, and nothing DoConfirmed opened
\* outlives it: while it pauses, and once it has returned, no socket is open.
NoSocketLeft == pc \in {"resolve", "connect", "pause", "done"} => ~sock

\* However silent the other side is, in whichever phase, one attempt costs
\* at most two timeouts and the pause between them.
WithinBudget == elapsed <= 2 * Timeout + Delay

\* A declined ECH offer is a civil answer to the offer that was made: it is
\* read only on a profile that offers ECH, from a peer that saw a hello.
ECHRejectIsAnAnswer ==
  \A i \in DOMAIN ends :
     ends[i].kind = "ech-reject" => /\ opts.ech
                                    /\ ends[i].cause = "answer"
                                    /\ ends[i].hellos > 0

\* What is recorded of a dial names who ended it: the endpoint, or nobody it
\* could be blamed on; the two kinds that are easiest to earn wrongly.
KindsAreEarned == AbruptIsTheEndpoints /\ ECHRejectIsAnAnswer

\* The attempt returns, whatever the peer, the proxy and the resolver do.
Returns == <>(pc = "done")

----------------------------------------------------------------------------
(* The refinement: the dials' kinds, and the word the returned result says *)
(* by its flags alone.                                                     *)

WordOf(r) ==
  CASE r.flapped                 -> "flap"
    [] r.reproduced              -> "wall"
    [] r.ok /\ ~r.flapped        -> "answered"
    [] Abrupt(r.kind) /\ ~r.reproduced -> "unconfirmed"
    [] OTHER                     -> "civil"

Seen == [i \in DOMAIN ends |-> ends[i].kind]

Word == IF pc = "done" THEN WordOf(result) ELSE "pending"

Promise == INSTANCE Confirm WITH seen <- Seen, word <- Word

\* DoConfirmed keeps its promise: the flags of the result it returns say what
\* its dials support and nothing else, and it does return one.
KeepsPromise == Promise!Spec
=============================================================================
