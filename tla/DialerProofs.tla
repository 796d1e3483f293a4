---------------------------- MODULE DialerProofs ----------------------------
(***************************************************************************)
(* What Dialer's runs show for one timeout and one delay, proved for every *)
(* timeout and every delay.                                                *)
(*                                                                         *)
(* All nine ways a dial can end go through Return, so they are reduced to  *)
(* it once (EveryEnding); an invariant's step then has one case for Return *)
(* and one for each action that ends nothing.                              *)
(***************************************************************************)
EXTENDS Dialer, TLAPS

\* What classify makes of every error Do can meet: the kinds the actions of
\* Dialer record.
LEMMA Classified ==
  /\ classify({}) = "other"
  /\ classify({"certificate text"}) = "other"
  /\ classify({"DNSError"}) = "dns"
  /\ classify({"DNSError", "Timeout"}) = "dns"
  /\ classify({"Timeout"}) = "timeout"
  /\ classify({"ECONNREFUSED"}) = "refused"
  /\ classify({"NoRoute"}) = "unroutable"
  /\ classify({"NoFamily"}) = "unroutable"
  /\ classify({"ECONNRESET"}) = "reset"
  /\ classify({"EOF"}) = "eof"
  /\ classify({"ECHRejection", "alert text"}) = "ech-reject"
  /\ classify({"alert text"}) = "alert"
  /\ classify({"RecordHeader"}) = "record"
BY DEF classify

----------------------------------------------------------------------------
(* Every ending.                                                           *)

\* Where a dial is says whom it has reached.
Reached ==
  /\ pc = "connect" => contact = IF opts.socks5 THEN "proxy" ELSE "endpoint"
  /\ pc \in {"starttls", "handshake"} => contact = "endpoint"

\* A kind and a cause that may be recorded where the dial is now.
Fitting(k, c) ==
  /\ k \in Kind
  /\ c \in Causes
  /\ pc \in Phases
  /\ Abrupt(k) => /\ contact = "endpoint"
                  /\ c \in {"cut", "clock"}
                  /\ pc \in {"connect", "handshake"}
  /\ k = "ech-reject" => opts.ech /\ c = "answer" /\ wire.hellos > 0

Endings == \/ ResolveFails \/ ConnectFails \/ ProxyFails \/ UpgradeFails
           \/ HandshakeCompletes \/ HandshakeDeclined \/ HandshakeCut
           \/ DeadlinePasses \/ CancelSeen

\* Whatever ends a dial returns from Do with a kind and a cause that fit.
LEMMA EveryEnding ==
  ASSUME TypeOK, Reached, Endings
  PROVE  \E k, c : Fitting(k, c) /\ Return(k, c)
<1> USE DEF Fitting, Phases, Kind, Failures, Causes, Abrupt
<1>1. CASE ResolveFails
  <2> SUFFICES ASSUME NEW err \in {{"DNSError"}, {"NoRoute"}, {"NoFamily"}},
                      pc = "resolve", DialFails(err, "local")
               PROVE  \E k, c : Fitting(k, c) /\ Return(k, c)
    BY <1>1 DEF ResolveFails
  <2>1. classify(err) \in {"dns", "unroutable"}
    BY Classified
  <2> QED
    BY <2>1 DEF DialFails
<1>2. CASE ConnectFails
  <2> SUFFICES ASSUME NEW err, NEW cause, pc = "connect",
                      \/ err \in {{"ECONNREFUSED"}, {"ECONNRESET"}} /\ cause = "cut"
                      \/ err = {"NoRoute"} /\ cause = "local",
                      DialFails(err, cause)
               PROVE  \E k, c : Fitting(k, c) /\ Return(k, c)
    BY <1>2 DEF ConnectFails
  <2>1. /\ classify(err) \in {"refused", "reset", "unroutable"}
        /\ classify(err) = "reset" => cause = "cut"
    BY Classified
  <2> QED
    BY <2>1 DEF DialFails, Reached
<1>3. CASE ProxyFails
  BY <1>3 DEF ProxyFails
<1>4. CASE UpgradeFails
  BY <1>4 DEF UpgradeFails
<1>5. CASE HandshakeCompletes
  BY <1>5 DEF HandshakeCompletes
<1>6. CASE HandshakeDeclined
  <2> SUFFICES ASSUME NEW err, pc = "handshake", wire.hellos > 0,
                      \/ err = {"alert text"} \/ err = {}
                      \/ opts.ech /\ err = {"ECHRejection", "alert text"}
                      \/ opts.ech /\ err = {"certificate text"},
                      Return(KindOf(err), "answer")
               PROVE  \E k, c : Fitting(k, c) /\ Return(k, c)
    BY <1>6 DEF HandshakeDeclined
  <2>1. /\ KindOf(err) \in {"alert", "other", "ech-reject"}
        /\ KindOf(err) = "ech-reject" => opts.ech
    BY Classified DEF KindOf
  <2> QED
    BY <2>1
<1>7. CASE HandshakeCut
  <2> SUFFICES ASSUME NEW err \in {{"ECONNRESET"}, {"EOF"}, {"RecordHeader"}},
                      pc = "handshake", Return(KindOf(err), "cut")
               PROVE  \E k, c : Fitting(k, c) /\ Return(k, c)
    BY <1>7 DEF HandshakeCut
  <2>1. KindOf(err) \in {"reset", "eof", "record"}
    BY Classified DEF KindOf
  <2> QED
    BY <2>1 DEF Reached
<1>8. CASE DeadlinePasses
  <2>1. KindOf({"Timeout"}) = "timeout"
    BY Classified DEF KindOf
  <2> QED
    BY <1>8, <2>1, Classified DEF DeadlinePasses, DialFails, Reached
<1>9. CASE CancelSeen
  <2>1. KindOf({}) = "other"
    BY Classified DEF KindOf
  <2> QED
    BY <1>9, <2>1, Classified DEF CancelSeen, DialFails
<1> QED
  BY <1>1, <1>2, <1>3, <1>4, <1>5, <1>6, <1>7, <1>8, <1>9 DEF Endings

\* The other steps end no dial.
Steps == \/ Resolved \/ Connected \/ ProxyGrants \/ Upgraded
         \/ WriteHello \/ CertificateRequested
         \/ PauseCancelled \/ Redial \/ Tick \/ Cancel

\* A step of the system ends a dial, is one of those, or changes nothing.
LEMMA EveryStep ==
  ASSUME TypeOK, Reached, [Next]_vars
  PROVE  \/ \E k, c : Fitting(k, c) /\ Return(k, c)
         \/ Steps
         \/ UNCHANGED vars
<1>1. Endings \/ Steps \/ UNCHANGED vars
  BY DEF Next, Peer, Unaided, Endings, Steps, Terminated
<1> QED
  BY <1>1, EveryEnding

----------------------------------------------------------------------------
(* Types, and whom a dial has reached.                                     *)

\* At the start nobody has been contacted.
LEMMA ReachedInit == Init => Reached
BY DEF Init, Reached

\* Contact is made where the phase changes, and nowhere else.
LEMMA ReachedStep ==
  ASSUME TypeOK, Reached, [Next]_vars
  PROVE  Reached'
<1>1. ASSUME NEW k, NEW c, Fitting(k, c), Return(k, c)
      PROVE  Reached'
  BY <1>1 DEF Return, After, Reached
<1>2. CASE Steps
  BY <1>2 DEF Steps, Resolved, Connected, ProxyGrants, Upgraded, WriteHello,
              CertificateRequested, PauseCancelled, Redial, Tick, Cancel,
              Reached, TypeOK, Phases
<1>3. CASE UNCHANGED vars
  BY <1>3 DEF vars, Reached
<1> QED
  BY <1>1, <1>2, <1>3, EveryStep

\* The first state of an attempt is well typed.
LEMMA TypeInit == Init => TypeOK
<1> SUFFICES ASSUME Init
             PROVE  TypeOK
  OBVIOUS
<1>1. NoResult \in Results
  BY DEF NoResult, Results, Kind, Failures
<1>2. /\ left \in 0..Timeout /\ pause \in 0..Delay /\ attempt \in 1..2
      /\ elapsed \in Nat /\ wire \in [hellos : 0..2, certRequest : BOOLEAN]
  BY TimesAssumption DEF Init, Untouched
<1>3. ends \in Seq(Ends)
  BY DEF Init
<1> QED
  BY <1>1, <1>2, <1>3 DEF Init, TypeOK, Phases

\* Do's result for a dial is a result, and so is what the second of two makes
\* of the first.
LEMMA ResultType ==
  ASSUME TypeOK, NEW k \in Kind
  PROVE  /\ ResultOf(k) \in Results
         /\ Confirmed(result, ResultOf(k)) \in Results
<1>1. ResultOf(k) \in Results
  <2>1. /\ (k = "ok") \in BOOLEAN /\ (wire.hellos > 1) \in BOOLEAN
        /\ wire.hellos \in 0..2 /\ wire.certRequest \in BOOLEAN
    BY DEF TypeOK
  <2> QED
    BY <2>1 DEF Results, ResultOf
<1>2. ASSUME NEW r \in Results
      PROVE  Confirmed(result, r) \in Results
  <2> DEFINE r1 == [r EXCEPT !.attempts = 2]
             r2 == [r1 EXCEPT !.firstKind = result.kind]
             r3 == [r2 EXCEPT !.flapped = r.ok]
             r4 == [r3 EXCEPT !.reproduced = ~r.ok /\ Abrupt(r.kind)]
  <2>1. r1 \in Results
    BY DEF Results
  <2>2. r2 \in Results
    BY <2>1 DEF Results, TypeOK
  <2>3. r3 \in Results
    BY <2>2 DEF Results
  <2>4. r4 \in Results
    BY <2>3 DEF Results
  <2> QED
    BY <2>4 DEF Confirmed
<1> QED
  BY <1>1, <1>2

\* No step of Do, DoConfirmed, the network or the caller leaves the types.
LEMMA TypeStep ==
  ASSUME TypeOK, Reached, [Next]_vars
  PROVE  TypeOK'
<1>1. ASSUME NEW k, NEW c, Fitting(k, c), Return(k, c)
      PROVE  TypeOK'
  <2>1. k \in Kind /\ c \in Causes /\ pc \in Phases
    BY <1>1 DEF Fitting
  <2>2. ends' \in Seq(Ends)
    <3>1. [kind |-> k, cause |-> c, phase |-> pc, hellos |-> wire.hellos,
           contact |-> contact] \in Ends
      BY <2>1 DEF TypeOK, Ends
    <3> QED
      BY <1>1, <3>1 DEF Return, TypeOK
  <2>3. result' \in Results
    BY <1>1, <2>1, ResultType DEF Return
  <2>4. pc' \in Phases \cup {"pause", "done"}
    BY <1>1 DEF Return, After
  <2>5. UNCHANGED <<opts, attempt, left, pause, cancelled, wire, contact, elapsed>>
        /\ sock' = FALSE /\ deadline' = FALSE
    BY <1>1 DEF Return, Close
  <2> QED
    BY <2>2, <2>3, <2>4, <2>5 DEF TypeOK
<1>2. CASE Steps
  <2> USE DEF TypeOK, Phases
  <2>1. CASE Resolved
    BY <2>1 DEF Resolved
  <2>2. CASE Connected
    BY <2>2 DEF Connected, Armed, Options
  <2>3. CASE ProxyGrants
    BY <2>3 DEF ProxyGrants, Options
  <2>4. CASE Upgraded
    BY <2>4 DEF Upgraded
  <2>5. CASE WriteHello
    BY <2>5 DEF WriteHello
  <2>6. CASE CertificateRequested
    BY <2>6 DEF CertificateRequested
  <2>7. CASE PauseCancelled
    BY <2>7 DEF PauseCancelled
  <2>8. CASE Redial
    BY <2>8, TimesAssumption DEF Redial, Untouched
  <2>9. CASE Tick
    BY <2>9, TimesAssumption DEF Tick
  <2>10. CASE Cancel
    BY <2>10 DEF Cancel
  <2> QED
    BY <1>2, <2>1, <2>2, <2>3, <2>4, <2>5, <2>6, <2>7, <2>8, <2>9, <2>10
       DEF Steps
<1>3. CASE UNCHANGED vars
  BY <1>3 DEF vars, TypeOK
<1> QED
  BY <1>1, <1>2, <1>3, EveryStep

----------------------------------------------------------------------------
(* The inductive invariant.                                                *)

\* One dial is over, the verdict on it is not out, and the stored result is
\* what that dial alone supports.
OneBehind ==
  /\ Len(ends) = 1
  /\ Abrupt(ends[1].kind)
  /\ result.kind = ends[1].kind
  /\ result.attempts = 1
  /\ ~result.ok
  /\ ~result.reproduced
  /\ ~result.flapped

\* How many dials are behind each place in DoConfirmed.
History ==
  /\ attempt = 1 /\ pc \in Phases => ends = << >>
  /\ pc = "pause" => attempt = 1 /\ OneBehind
  /\ attempt = 2 /\ pc \in Phases => OneBehind
  /\ pc = "done" => \/ Len(ends) = 1
                    \/ Len(ends) = 2 /\ Abrupt(ends[1].kind)

\* The clock: a dial's time is its timeout, and the pause's its delay.
Budget ==
  /\ attempt = 1 /\ pc \in Phases => elapsed + left <= Timeout /\ pause = Delay
  /\ pc = "pause" => elapsed + pause <= Timeout + Delay
  /\ attempt = 2 /\ pc \in Phases => elapsed + left <= 2 * Timeout + Delay
  /\ pc = "done" => elapsed <= 2 * Timeout + Delay

IInv == /\ TypeOK /\ Reached /\ History /\ Budget /\ NoSocketLeft
        /\ AbruptIsTheEndpoints /\ ECHRejectIsAnAnswer /\ TwoDialClaims

\* The inductive invariant holds before the first dial.
LEMMA IInvInit == Init => IInv
<1> SUFFICES ASSUME Init
             PROVE  IInv
  OBVIOUS
<1>1. TypeOK /\ Reached
  BY TypeInit, ReachedInit
<1>2. History /\ Budget /\ NoSocketLeft
  BY TimesAssumption DEF Init, History, Budget, NoSocketLeft, Phases
<1>3. AbruptIsTheEndpoints /\ ECHRejectIsAnAnswer /\ TwoDialClaims
  BY DEF Init, AbruptIsTheEndpoints, ECHRejectIsAnAnswer, TwoDialClaims
<1> QED
  BY <1>1, <1>2, <1>3 DEF IInv

\* What Return adds to the history, and what it does not touch.
LEMMA ReturnAppends ==
  ASSUME TypeOK, NEW k, NEW c, Fitting(k, c), Return(k, c)
  PROVE  /\ Len(ends) \in Nat /\ Len(ends') = Len(ends) + 1
         /\ DOMAIN ends = 1..Len(ends) /\ DOMAIN ends' = 1..(Len(ends) + 1)
         /\ \A i \in 1..Len(ends) : ends'[i] = ends[i]
         /\ ends'[Len(ends) + 1] =
              [kind |-> k, cause |-> c, phase |-> pc, hellos |-> wire.hellos,
               contact |-> contact]
<1>1. ends \in Seq(Ends)
  BY DEF TypeOK
<1>2. [kind |-> k, cause |-> c, phase |-> pc, hellos |-> wire.hellos,
       contact |-> contact] \in Ends
  BY DEF TypeOK, Fitting, Ends
<1> QED
  BY <1>1, <1>2 DEF Return

\* Each ending fits when it is recorded, and nothing recorded changes.
LEMMA EndsStep ==
  ASSUME IInv, [Next]_vars
  PROVE  AbruptIsTheEndpoints' /\ ECHRejectIsAnAnswer'
<1> USE DEF IInv
<1>1. ASSUME NEW k, NEW c, Fitting(k, c), Return(k, c)
      PROVE  AbruptIsTheEndpoints' /\ ECHRejectIsAnAnswer'
  BY <1>1, ReturnAppends
     DEF AbruptIsTheEndpoints, ECHRejectIsAnAnswer, Fitting, Return
<1>2. CASE Steps \/ UNCHANGED vars
  <2>1. UNCHANGED <<ends, opts>>
    BY <1>2 DEF Steps, Resolved, Connected, ProxyGrants, Upgraded, WriteHello,
                CertificateRequested, PauseCancelled, Redial, Tick, Cancel, vars
  <2> QED
    BY <2>1 DEF AbruptIsTheEndpoints, ECHRejectIsAnAnswer
<1> QED
  BY <1>1, <1>2, EveryStep

\* An abrupt first ending is what a pause, and a second dial, come after.
LEMMA HistoryStep ==
  ASSUME IInv, [Next]_vars
  PROVE  History'
<1> USE DEF IInv, History, OneBehind
<1>1. ASSUME NEW k, NEW c, Fitting(k, c), Return(k, c)
      PROVE  History'
  <2>1. pc \in Phases /\ attempt \in 1..2 /\ attempt' = attempt
    BY <1>1 DEF Fitting, TypeOK, Return
  <2>2. pc' \in {"pause", "done"}
    BY <1>1 DEF Return, After
  <2>3. CASE attempt = 1
    <3>1. Len(ends') = 1 /\ ends'[1].kind = k /\ result' = ResultOf(k)
      BY <1>1, <2>1, <2>3, ReturnAppends DEF Return
    <3>2. pc' = "pause" => Abrupt(k)
      BY <1>1, <2>3 DEF Return, After, Believed, ResultOf
    <3> QED
      BY <2>1, <2>2, <2>3, <3>1, <3>2 DEF ResultOf, Phases, Abrupt
  <2>4. CASE attempt = 2
    <3>0. Len(ends) = 1 /\ Abrupt(ends[1].kind)
      BY <2>1, <2>4
    <3>1. Len(ends') = Len(ends) + 1 /\ \A i \in 1..Len(ends) : ends'[i] = ends[i]
      BY <1>1, ReturnAppends
    <3>2. pc' = "done"
      BY <1>1, <2>4 DEF Return, After
    <3> QED
      BY <2>1, <2>4, <3>0, <3>1, <3>2 DEF Phases
  <2> QED
    BY <2>1, <2>3, <2>4
<1>2. CASE Steps
  BY <1>2 DEF Steps, Resolved, Connected, ProxyGrants, Upgraded, WriteHello,
              CertificateRequested, PauseCancelled, Redial, Tick, Cancel,
              Phases, TypeOK
<1>3. CASE UNCHANGED vars
  BY <1>3 DEF vars
<1> QED
  BY <1>1, <1>2, <1>3, EveryStep

\* What is returned is said of dials that were made.
LEMMA ClaimsStep ==
  ASSUME IInv, [Next]_vars
  PROVE  TwoDialClaims'
<1> USE DEF IInv, History, OneBehind
<1>1. ASSUME NEW k, NEW c, Fitting(k, c), Return(k, c)
      PROVE  TwoDialClaims'
  <2>1. pc \in Phases /\ attempt \in 1..2
    BY <1>1 DEF Fitting, TypeOK
  <2>2. CASE attempt = 1
    <3>1. Len(ends') = 1 /\ ends'[1].kind = k /\ result' = ResultOf(k)
      BY <1>1, <2>1, <2>2, ReturnAppends DEF Return
    <3> QED
      BY <3>1 DEF ResultOf, TwoDialClaims
  <2>3. CASE attempt = 2
    <3>0. Len(ends) = 1 /\ Abrupt(ends[1].kind)
      BY <2>1, <2>3
    <3>a. /\ Len(ends') = Len(ends) + 1
          /\ \A i \in 1..Len(ends) : ends'[i] = ends[i]
          /\ ends'[Len(ends) + 1] =
               [kind |-> k, cause |-> c, phase |-> pc, hellos |-> wire.hellos,
                contact |-> contact]
      BY <1>1, ReturnAppends
    <3>1. /\ Len(ends') = 2 /\ ends'[1] = ends[1]
          /\ ends'[2].kind = k /\ ends'[2].cause = c
      BY <3>0, <3>a
    <3>2. /\ ends[1].cause # "caller"
          /\ Abrupt(k) => c # "caller"
      BY <1>1, <3>0, ReturnAppends DEF AbruptIsTheEndpoints, Fitting
    <3>3. /\ result' = Confirmed(result, ResultOf(k))
          /\ result.kind = ends[1].kind
      BY <1>1, <2>1, <2>3 DEF Return
    <3>4. /\ result'.attempts = 2 /\ result'.kind = k
          /\ result'.firstKind = ends[1].kind
          /\ result'.flapped <=> k = "ok"
          /\ result'.reproduced <=> k # "ok" /\ Abrupt(k)
      BY <3>3 DEF Confirmed, ResultOf
    <3>5. k = "ok" => ~Abrupt(k)
      BY DEF Abrupt
    <3> QED
      BY <3>0, <3>1, <3>2, <3>4, <3>5 DEF TwoDialClaims
  <2> QED
    BY <2>1, <2>2, <2>3
<1>2. CASE PauseCancelled
  <2>1. /\ Len(ends) = 1 /\ Len(ends) # 2
        /\ result.kind = ends[1].kind /\ result.attempts = 1
        /\ ~result.reproduced /\ ~result.flapped
    BY <1>2 DEF PauseCancelled
  <2>2. ends' = ends /\ result' = result
    BY <1>2 DEF PauseCancelled
  <2> HIDE DEF IInv, History, OneBehind
  <2> QED
    BY <2>1, <2>2, Zenon DEF TwoDialClaims
<1>3. CASE Steps /\ ~PauseCancelled
  BY <1>3 DEF Steps, Resolved, Connected, ProxyGrants, Upgraded, WriteHello,
              CertificateRequested, Redial, Tick, Cancel, Phases, TwoDialClaims
<1>4. CASE UNCHANGED vars
  BY <1>4 DEF vars, TwoDialClaims
<1> QED
  BY <1>1, <1>2, <1>3, <1>4, EveryStep

\* Each tick is taken from the dial's time or from the pause's, and Redial
\* starts the second dial's only when the pause is used up.
LEMMA BudgetStep ==
  ASSUME IInv, [Next]_vars
  PROVE  Budget'
<1> USE DEF IInv, Budget
<1>1. ASSUME NEW k, NEW c, Fitting(k, c), Return(k, c)
      PROVE  Budget'
  <2>1. /\ pc \in Phases /\ attempt \in 1..2 /\ left \in 0..Timeout
        /\ elapsed \in Nat
    BY <1>1 DEF Fitting, TypeOK
  <2>2. /\ pc' \in {"pause", "done"}
        /\ pc' = "pause" => attempt = 1
        /\ UNCHANGED <<attempt, left, pause, elapsed>>
    BY <1>1 DEF Return, After
  <2> QED
    BY <2>1, <2>2, TimesAssumption DEF Phases
<1>2. CASE Redial
  BY <1>2, TimesAssumption DEF Redial, History, TypeOK, Phases
<1>3. CASE Tick
  BY <1>3, TimesAssumption DEF Tick, TypeOK, Phases
<1>4. CASE PauseCancelled
  BY <1>4, TimesAssumption DEF PauseCancelled, TypeOK, Phases
<1>5. CASE Steps /\ ~Redial /\ ~Tick /\ ~PauseCancelled
  <2>1. /\ UNCHANGED <<attempt, left, pause, elapsed>>
        /\ pc' = pc \/ (pc \in Phases /\ pc' \in Phases)
    BY <1>5 DEF Steps, Resolved, Connected, ProxyGrants, Upgraded, WriteHello,
                CertificateRequested, Cancel, Phases
  <2> QED
    BY <2>1 DEF Phases
<1>6. CASE UNCHANGED vars
  BY <1>6 DEF vars
<1> QED
  BY <1>1, <1>2, <1>3, <1>4, <1>5, <1>6, EveryStep

\* Only Connected opens a socket, and every way out of Do closes it.
LEMMA SocketStep ==
  ASSUME IInv, [Next]_vars
  PROVE  NoSocketLeft'
<1> USE DEF IInv, NoSocketLeft
<1>1. ASSUME NEW k, NEW c, Fitting(k, c), Return(k, c)
      PROVE  NoSocketLeft'
  BY <1>1 DEF Return, Close
<1>2. CASE Steps
  BY <1>2 DEF Steps, Resolved, Connected, ProxyGrants, Upgraded, WriteHello,
              CertificateRequested, PauseCancelled, Redial, Tick, Cancel
<1>3. CASE UNCHANGED vars
  BY <1>3 DEF vars
<1> QED
  BY <1>1, <1>2, <1>3, EveryStep

----------------------------------------------------------------------------
(* The theorems.                                                           *)

\* IInv is inductive.
LEMMA IInvStep == IInv /\ [Next]_vars => IInv'
BY TypeStep, ReachedStep, EndsStep, HistoryStep, ClaimsStep, BudgetStep,
   SocketStep DEF IInv

\* Every reachable state of an attempt satisfies the inductive invariant.
THEOREM Invariant == Spec => []IInv
<1>1. Init => IInv
  BY IInvInit
<1>2. IInv /\ [Next]_vars => IInv'
  BY IInvStep
<1> QED
  BY <1>1, <1>2, PTL DEF Spec

\* The state of an attempt has its types, whatever the network answers.
THEOREM TypeCorrect == Spec => []TypeOK
<1>1. IInv => TypeOK
  BY DEF IInv
<1> QED
  BY <1>1, Invariant, PTL

\* An abrupt kind is recorded only of a dial that reached the endpoint and
\* that the caller did not cut short.
THEOREM AbruptIsEarned == Spec => []AbruptIsTheEndpoints
<1>1. IInv => AbruptIsTheEndpoints
  BY DEF IInv
<1> QED
  BY <1>1, Invariant, PTL

\* A wall is two abrupt dials, a flap an abrupt one and a handshake: what
\* DoConfirmed returns is said of dials that were made.
THEOREM ClaimsAreTrue == Spec => []TwoDialClaims
<1>1. IInv => TwoDialClaims
  BY DEF IInv
<1> QED
  BY <1>1, Invariant, PTL

\* For every timeout and every delay, one attempt costs at most two timeouts
\* and the pause between them.
THEOREM AttemptIsBounded == Spec => []WithinBudget
<1>1. IInv => WithinBudget
  <2> SUFFICES ASSUME IInv
               PROVE  WithinBudget
    OBVIOUS
  <2>1. /\ pc \in Phases \cup {"pause", "done"} /\ attempt \in 1..2
        /\ left \in 0..Timeout /\ pause \in 0..Delay /\ elapsed \in Nat
    BY DEF IInv, TypeOK
  <2>2. Budget
    BY DEF IInv
  <2> QED
    BY <2>1, <2>2, TimesAssumption DEF Budget, WithinBudget
<1> QED
  BY <1>1, Invariant, PTL

\* A peer that answered in TLS is never dialled again.
THEOREM AnsweredOnce == Spec => []AnAnswerIsFinal
<1>1. IInv => AnAnswerIsFinal
  <2> SUFFICES ASSUME IInv, NEW i \in DOMAIN ends, ends[i].cause = "answer"
               PROVE  i = Len(ends) /\ pc = "done"
    BY DEF AnAnswerIsFinal
  <2>1. ~Abrupt(ends[i].kind)
    BY DEF IInv, AbruptIsTheEndpoints
  <2>2. /\ pc \in Phases \cup {"pause", "done"} /\ attempt \in 1..2
        /\ i \in 1..Len(ends) /\ Len(ends) \in Nat
    BY DEF IInv, TypeOK
  <2>3. Len(ends) = 1 \/ (Len(ends) = 2 /\ Abrupt(ends[1].kind))
    <3>1. ends # << >>
      BY <2>2
    <3> QED
      BY <2>2, <3>1 DEF IInv, History, OneBehind
  <2>4. CASE pc = "done"
    <3>1. CASE Len(ends) = 1
      BY <2>2, <2>4, <3>1
    <3>2. CASE Len(ends) = 2 /\ Abrupt(ends[1].kind)
      <4>1. i \in 1..2 /\ i # 1
        BY <2>1, <2>2, <3>2
      <4> QED
        BY <2>4, <3>2, <4>1
    <3> QED
      BY <2>3, <3>1, <3>2
  <2>5. CASE pc # "done"
    <3>1. Len(ends) = 1 /\ Abrupt(ends[1].kind)
      BY <2>2, <2>5 DEF IInv, History, OneBehind
    <3> QED
      BY <2>1, <2>2, <3>1
  <2> QED
    BY <2>4, <2>5
<1> QED
  BY <1>1, Invariant, PTL

\* No socket outlives its dial: none is open while an attempt pauses, while
\* its second dial resolves, or once it has returned.
THEOREM SocketsAreClosed == Spec => []NoSocketLeft
<1>1. IInv => NoSocketLeft
  BY DEF IInv
<1> QED
  BY <1>1, Invariant, PTL

\* A declined ECH offer is read only where one was made and answered.
THEOREM ECHRejectIsEarned == Spec => []ECHRejectIsAnAnswer
<1>1. IInv => ECHRejectIsAnAnswer
  BY DEF IInv
<1> QED
  BY <1>1, Invariant, PTL

\* What a dial is recorded as names the party that is responsible.
THEOREM KindsAreTrue == Spec => []KindsAreEarned
<1>1. AbruptIsTheEndpoints /\ ECHRejectIsAnAnswer => KindsAreEarned
  BY DEF KindsAreEarned
<1> QED
  BY <1>1, AbruptIsEarned, ECHRejectIsEarned, PTL

----------------------------------------------------------------------------
(* Dialer implements Confirm, fairness apart.                              *)

\* An attempt that has not dialled yet is an abstract one that has not.
LEMMA PromiseInit == Init => Promise!Init
BY DEF Init, Promise!Init, Seen, Word

\* What a result says by its flags, one case for each way they come out.
LEMMA Said ==
  ASSUME NEW r
  PROVE  /\ r.ok /\ r.flapped /\ ~r.reproduced /\ ~Abrupt(r.kind)
              => WordOf(r) = "flap"
         /\ ~r.ok /\ ~r.flapped /\ r.reproduced => WordOf(r) = "wall"
         /\ ~r.ok /\ ~r.flapped /\ ~r.reproduced /\ ~Abrupt(r.kind)
              => WordOf(r) = "civil"
         /\ ~r.ok /\ ~r.flapped /\ ~r.reproduced /\ Abrupt(r.kind)
              => WordOf(r) = "unconfirmed"
         /\ r.ok /\ ~r.flapped /\ ~r.reproduced /\ ~Abrupt(r.kind)
              => WordOf(r) = "answered"
BY DEF WordOf

\* The word a history supports, one case for each way it ends.
LEMMA Supported ==
  ASSUME NEW s
  PROVE  /\ Len(s) = 1 /\ s[1] = "ok" /\ ~Promise!Abrupt(s[1])
              => Promise!WordFor(s) = "answered"
         /\ Len(s) = 1 /\ s[1] # "ok" /\ Promise!Abrupt(s[1])
              => Promise!WordFor(s) = "unconfirmed"
         /\ Len(s) = 1 /\ s[1] # "ok" /\ ~Promise!Abrupt(s[1])
              => Promise!WordFor(s) = "civil"
         /\ Len(s) = 2 /\ s[2] = "ok" /\ ~Promise!Abrupt(s[2])
              => Promise!WordFor(s) = "flap"
         /\ Len(s) = 2 /\ s[2] # "ok" /\ Promise!Abrupt(s[2])
              => Promise!WordFor(s) = "wall"
         /\ Len(s) = 2 /\ s[2] # "ok" /\ ~Promise!Abrupt(s[2])
              => Promise!WordFor(s) = "civil"
BY DEF Promise!WordFor

\* A dial's ending is the next word of the history; a result that is returned
\* says the word that history supports.
LEMMA PromiseReturn ==
  ASSUME IInv, NEW k, NEW c, Fitting(k, c), Return(k, c)
  PROVE  Promise!Next
<1>1. pc \in Phases /\ attempt \in 1..2 /\ k \in Kind
  BY DEF IInv, TypeOK, Fitting
<1>2. /\ Len(ends) \in Nat /\ Len(ends') = Len(ends) + 1
      /\ DOMAIN ends = 1..Len(ends) /\ DOMAIN ends' = 1..(Len(ends) + 1)
      /\ \A i \in 1..Len(ends) : ends'[i] = ends[i]
      /\ ends'[Len(ends) + 1] =
           [kind |-> k, cause |-> c, phase |-> pc, hellos |-> wire.hellos,
            contact |-> contact]
  BY ReturnAppends DEF IInv
<1>3. Word = "pending"
  BY <1>1 DEF Word, Phases
<1>4. CASE attempt = 1
  <2>1. Len(ends) = 0 /\ Seen = << >> /\ Seen' = <<k>>
    BY <1>1, <1>2, <1>4 DEF IInv, History, Seen
  <2>2. result' = ResultOf(k)
    BY <1>4 DEF Return
  <2>3. CASE pc' = "pause"
    <3>1. Abrupt(k)
      BY <1>4, <2>3 DEF Return, After, Believed, ResultOf
    <3>2. Word' = "pending"
      BY <2>3 DEF Word
    <3> QED
      BY <1>1, <1>3, <2>1, <3>1, <3>2
         DEF Promise!Next, Promise!DialAndDoubt, Promise!Abrupt, Promise!Kind,
             Promise!Failures, Abrupt, Kind, Failures
  <2>4. CASE pc' = "done"
    <3>1. Word' = WordOf(ResultOf(k))
      BY <2>2, <2>4 DEF Word
    <3>2. WordOf(ResultOf(k)) = Promise!WordFor(<<k>>)
      <4> DEFINE r == ResultOf(k)
                 s == <<k>>
      <4>1. /\ r.ok <=> k = "ok"
            /\ r.kind = k /\ ~r.flapped /\ ~r.reproduced
        BY DEF ResultOf
      <4>2. Len(s) = 1 /\ s[1] = k
        OBVIOUS
      <4>3. /\ Abrupt(k) => k # "ok"
            /\ Promise!Abrupt(k) <=> Abrupt(k)
        BY DEF Abrupt, Promise!Abrupt
      <4> HIDE DEF r, s
      <4>4. WordOf(r) = Promise!WordFor(s)
        <5>1. CASE k = "ok"
          BY <4>1, <4>2, <4>3, <5>1, Said, Supported
        <5>2. CASE k # "ok" /\ Abrupt(k)
          BY <4>1, <4>2, <4>3, <5>2, Said, Supported
        <5>3. CASE k # "ok" /\ ~Abrupt(k)
          BY <4>1, <4>2, <4>3, <5>3, Said, Supported
        <5> QED
          BY <5>1, <5>2, <5>3
      <4> QED
        BY <4>4 DEF r, s
    <3> QED
      BY <1>1, <1>3, <2>1, <3>1, <3>2
         DEF Promise!Next, Promise!DialAndSay, Promise!Kind, Promise!Failures,
             Kind, Failures
  <2> QED
    BY <2>3, <2>4 DEF Return, After
<1>5. CASE attempt = 2
  <2>1. Len(ends) = 1 /\ Abrupt(ends[1].kind)
    BY <1>1, <1>5 DEF IInv, History, OneBehind
  <2>2. Seen = <<ends[1].kind>> /\ Seen' = <<ends[1].kind, k>>
    BY <1>2, <2>1 DEF Seen
  <2>3. result' = Confirmed(result, ResultOf(k)) /\ pc' = "done"
    BY <1>5 DEF Return, After
  <2>4. Word' = WordOf(Confirmed(result, ResultOf(k)))
    BY <2>3 DEF Word
  <2>5. WordOf(Confirmed(result, ResultOf(k)))
          = Promise!WordFor(<<ends[1].kind, k>>)
    <3> DEFINE r == Confirmed(result, ResultOf(k))
               s == <<ends[1].kind, k>>
    <3>1. /\ r.ok <=> k = "ok"
          /\ r.flapped <=> k = "ok"
          /\ r.kind = k
          /\ r.reproduced <=> k # "ok" /\ Abrupt(k)
      BY DEF ResultOf, Confirmed
    <3>2. Len(s) = 2 /\ s[2] = k
      OBVIOUS
    <3>3. /\ Abrupt(k) => k # "ok"
          /\ Promise!Abrupt(k) <=> Abrupt(k)
      BY DEF Abrupt, Promise!Abrupt
    <3> HIDE DEF r, s
    <3>4. WordOf(r) = Promise!WordFor(s)
      <4>1. CASE k = "ok"
        <5>1. r.ok /\ r.flapped /\ ~r.reproduced /\ ~Abrupt(r.kind)
          BY <3>1, <3>3, <4>1
        <5> QED
          BY <3>2, <3>3, <4>1, <5>1, Said, Supported
      <4>2. CASE k # "ok" /\ Abrupt(k)
        <5>1. ~r.ok /\ ~r.flapped /\ r.reproduced
          BY <3>1, <4>2
        <5> QED
          BY <3>2, <3>3, <4>2, <5>1, Said, Supported
      <4>3. CASE k # "ok" /\ ~Abrupt(k)
        <5>1. ~r.ok /\ ~r.flapped /\ ~r.reproduced /\ ~Abrupt(r.kind)
          BY <3>1, <4>3
        <5> QED
          BY <3>2, <3>3, <4>3, <5>1, Said, Supported
      <4> QED
        BY <4>1, <4>2, <4>3
    <3> QED
      BY <3>4 DEF r, s
  <2> QED
    BY <1>1, <1>3, <2>2, <2>4, <2>5
       DEF Promise!Next, Promise!DialAndSay, Promise!Kind, Promise!Failures,
           Kind, Failures
<1> QED
  BY <1>1, <1>4, <1>5

\* Every step of an attempt is a step of its promise, or none of its business.
LEMMA PromiseStep ==
  ASSUME IInv, [Next]_vars
  PROVE  [Promise!Next]_(Promise!confirmVars)
<1>1. ASSUME NEW k, NEW c, Fitting(k, c), Return(k, c)
      PROVE  Promise!Next
  BY <1>1, PromiseReturn
<1>2. CASE PauseCancelled
  <2>1. OneBehind /\ pc' = "done" /\ pc = "pause"
        /\ ends' = ends /\ result' = result
    BY <1>2 DEF PauseCancelled, IInv, History
  <2>2. Word = "pending" /\ Word' = "unconfirmed"
    <3>1. /\ ~result.ok /\ ~result.flapped /\ ~result.reproduced
          /\ Abrupt(result.kind)
      BY <2>1 DEF OneBehind
    <3>2. Word = "pending" /\ Word' = WordOf(result)
      BY <2>1 DEF Word
    <3> QED
      BY <3>1, <3>2, Said
  <2>3. Seen' = Seen /\ Seen # << >>
    BY <2>1 DEF Seen, OneBehind
  <2> QED
    BY <2>2, <2>3 DEF Promise!Next, Promise!SayUnconfirmed
<1>3. CASE (Steps /\ ~PauseCancelled) \/ UNCHANGED vars
  <2>1. /\ ends' = ends /\ result' = result
        /\ pc' = "done" <=> pc = "done"
    BY <1>3 DEF Steps, Resolved, Connected, ProxyGrants, Upgraded, WriteHello,
                CertificateRequested, Redial, Tick, Cancel, Phases, vars
  <2> QED
    BY <2>1 DEF Promise!confirmVars, Seen, Word
<1>4. TypeOK /\ Reached
  BY DEF IInv
<1> QED
  BY <1>1, <1>2, <1>3, <1>4, EveryStep

\* Whatever the network does, DoConfirmed says one word about one or two
\* dials, and it is the word they support: the safety half of KeepsPromise.
THEOREM PromiseIsKept ==
  Spec => Promise!Init /\ [][Promise!Next]_(Promise!confirmVars)
<1>1. Init => Promise!Init
  BY PromiseInit
<1>2. IInv /\ [Next]_vars => [Promise!Next]_(Promise!confirmVars)
  BY PromiseStep
<1> QED
  BY <1>1, <1>2, Invariant, PTL DEF Spec
=============================================================================
