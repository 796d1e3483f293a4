------------------------------- MODULE Verdict -------------------------------
(***************************************************************************)
(* What internal/verdict concludes from one endpoint's results, and what   *)
(* it says when two runs differ.  A result is a record with the profile    *)
(* dialled, ok, kind, version, pq, certRequested and how many attempts it  *)
(* stands for; `results` is the sequence a run collected.  A finding is    *)
(* its check, its severity and what it claims, without the wording.        *)
(***************************************************************************)
EXTENDS Kinds, Profiles

Grades == {"pq-ready", "pq-capable", "pq-blind", "no-tls13",
           "pq-intolerant", "pq-refusing"}

Class == Grades \cup {"pq-other-hybrid", "unreachable", "no-tls",
                      "mtls-required", "tls-broken"}

----------------------------------------------------------------------------

\* The results of one pass: the clients, or one family of probes.
Pass(results, pass) ==
  {results[i] : i \in {j \in DOMAIN results : results[j].profile.pass = pass}}

anyOK(rs) == \E r \in rs : r.ok

allKinds(rs, kinds) == rs # {} /\ \A r \in rs : r.kind \in kinds

anyClientCertRequested(rs) == \E r \in rs : r.certRequested

\* A single-group probe that went through in a hybrid no browser sends.
otherHybrid(groups) ==
  \E r \in groups : r.ok /\ r.pq /\ r.profile.name # "X25519MLKEM768"

\* Mutant: silence counts as absence.
AbsentOrSilent == {"dns", "refused", "unroutable", "timeout"}

\* The kinds that say nobody is there.
Absent == {"dns", "refused", "unroutable"}

\* Nothing completed a handshake, so there is nothing to grade, only a
\* reason.  The code assigns these in turn, the last assignment wins.
Ungraded(client, groups) ==
  IF allKinds(client, Absent) THEN "unreachable"
  ELSE IF anyClientCertRequested(client) THEN "mtls-required"
  ELSE IF allKinds(client, {"starttls"}) THEN "no-tls"
  ELSE IF otherHybrid(groups) THEN "pq-other-hybrid"
  ELSE "tls-broken"

\* Something did: compare the baseline with the post-quantum clients.
Graded(client) ==
  LET Of(name)  == {r \in client : r.profile.name = name}
      baseline  == {r \in Of("classic") : r.ok}
      preferred == Of("pq-preferred")
      onlyOK    == \E r \in Of("pq-only") : r.ok
  IN  IF \E r \in baseline : r.version = 12 THEN "no-tls13"
      ELSE IF baseline # {} /\ \E r \in preferred : ~r.ok
           THEN IF \E r \in preferred : Abrupt(r.kind)
                THEN "pq-intolerant" ELSE "pq-refusing"
      ELSE IF \E r \in preferred : r.ok /\ r.pq
           THEN IF onlyOK THEN "pq-ready" ELSE "pq-capable"
      ELSE IF \E r \in preferred : r.ok THEN "pq-blind"
      ELSE IF onlyOK THEN "pq-ready"
      ELSE "pq-blind"

----------------------------------------------------------------------------
(* The paired and swept measurements.  Each is a set of at most one        *)
(* finding: there may be nothing to say.                                   *)

MaxOf(S) == CHOOSE n \in S : \A m \in S : m <= n
MinOf(S) == CHOOSE n \in S : \A m \in S : n <= m

\* Mutant: the largest hello sent.
largestSent(sizes) == MaxOf({0} \cup {r.hello : r \in sizes})

largestOK(sizes) == MaxOf({0} \cup {r.hello : r \in {s \in sizes : s.ok}})

\* Where the peer stopped answering, between the largest hello it took and
\* the smallest it did not.  A hello that never left measures nothing.
sizeFinding(sizes) ==
  LET refused == {r.hello : r \in {s \in sizes : ~s.ok}} \ {0}
      unsent == \E r \in sizes : ~r.ok /\ r.hello = 0
  IN  IF \A r \in sizes : r.hello = 0 THEN {}
      ELSE {[check |-> "size-limit", lastOK |-> largestOK(sizes),
             firstBad |-> IF refused = {} THEN 0 ELSE MinOf(refused),
             status |-> IF refused # {} THEN "BAD"
                        ELSE IF unsent THEN "WARN" ELSE "OK"]}

\* The same client with and without an ALPN list.
alpnFinding(bare, listed) ==
  LET say(status, bytes) ==
        {[check |-> "alpn", status |-> status, bytes |-> bytes]}
  IN  CASE bare.ok /\ ~listed.ok ->
             IF 0 \in {bare.hello, listed.hello} \/ listed.hello < bare.hello
             THEN say("WARN", 0) ELSE say("BAD", listed.hello - bare.hello)
        [] ~bare.ok /\ listed.ok  -> say("WARN", 0)
        [] bare.ok /\ listed.ok   -> say("OK", 0)
        [] ~bare.ok /\ ~listed.ok -> {}

\* ... when both were dialled.
alpnPair(bares, lists) ==
  UNION {alpnFinding(bare, listed) : bare \in bares, listed \in lists}

\* Mutant: does not ask whether the plain half went through.
cutOffAlone(off, on) == Abrupt(on.kind)

\* It is the ECH half that was cut, and only it.
cutOff(off, on) == off.ok /\ Abrupt(on.kind)

\* The same client with and without ECH; never a grade.
echFinding(off, on) ==
  LET say(status, event, bytes) ==
        {[check |-> "ech", status |-> status, event |-> event, bytes |-> bytes]}
      cost == IF on.hello > off.hello THEN on.hello - off.hello ELSE 0
  IN  CASE on.ok /\ on.echAccepted ->
             say("OK", "accepted", IF off.hello = 0 THEN 0 ELSE cost)
        [] on.ok /\ ~on.echAccepted -> say("OK", "ignored", 0)
        [] ~on.ok /\ cutOff(off, on) -> say("WARN", "cut off", cost)
        [] ~on.ok /\ ~cutOff(off, on) -> say("OK", "declined", 0)

\* ... when both were dialled.
echPair(offs, ons) ==
  UNION {echFinding(off, on) : off \in offs, on \in ons}

----------------------------------------------------------------------------
(* What was seen, one attempt or one pass at a time.  None of it moves the *)
(* class.                                                                  *)

\* One attempt, and whether it took two dials to say it.
handshakeFinding(r) ==
  [check |-> "handshake", profile |-> r.profile, attempt |-> r.attempt,
   status |-> IF r.ok /\ r.attempt # "flapped" THEN "OK" ELSE "WARN"]

\* The map of the groups that were each offered alone.
groupsFinding(groups) ==
  LET names(rs) == {r.profile.name : r \in rs}
      accepted  == {r \in groups : r.ok}
      cut       == {r \in groups : Abrupt(r.kind)}
  IN  IF groups = {} THEN {}
      ELSE {[check |-> "groups", accepted |-> names(accepted),
             cutOff |-> names(cut), byAlert |-> names(groups \ (accepted \cup cut)),
             status |-> IF accepted = {} \/ cut # {} THEN "WARN" ELSE "OK"]}

\* Said whether the class is about it or not; browsersToo when it is not.
hybridFinding(client, groups) ==
  IF otherHybrid(groups) /\ (anyOK(client) \/ Ungraded(client, groups) = "pq-other-hybrid")
  THEN {[check |-> "hybrid", status |-> "WARN", browsersToo |-> anyOK(client)]}
  ELSE {}

clientAuthFinding(client) ==
  IF anyClientCertRequested(client)
  THEN {[check |-> "client-auth",
         status |-> IF anyOK(client) THEN "OK" ELSE "WARN"]}
  ELSE {}

\* The two version edges, when both were dialled; an endpoint that gave no
\* handshake at all has been reported before it comes to this.
versionFinding(client) ==
  LET went(name, ok) == \E r \in client : r.profile.name = name /\ r.ok = ok
  IN  IF went("tls13-only", FALSE) /\ went("tls12", TRUE)
      THEN {[check |-> "tls-version", status |-> "WARN"]} ELSE {}

Measured(results) ==
  LET of(name) == {r \in {results[i] : i \in DOMAIN results} :
                     r.profile.name = name}
      client == Pass(results, "client")
      groups == Pass(results, "group")
  IN  {handshakeFinding(r) : r \in client}
      \cup groupsFinding(groups)
      \cup hybridFinding(client, groups)
      \cup clientAuthFinding(client)
      \cup versionFinding(client)
      \cup sizeFinding(Pass(results, "size"))
      \cup alpnPair(of("pq-preferred"), Pass(results, "alpn"))
      \cup echPair(of("ech:off"), of("ech:on"))

----------------------------------------------------------------------------

Evaluate(results) ==
  LET client == Pass(results, "client")
  IN  IF anyOK(client) THEN Graded(client)
      ELSE Ungraded(client, Pass(results, "group"))

----------------------------------------------------------------------------

Status == {"OK", "WARN", "BAD", "ERROR"}

Rank(s) == CASE s = "OK" -> 0 [] s = "WARN" -> 1 [] s = "BAD" -> 2
             [] s = "ERROR" -> 3

AtLeast(s, t) == Rank(s) >= Rank(t)

StatusOf(c) ==
  CASE c \in {"pq-blind", "pq-capable", "no-tls13"}               -> "WARN"
    [] c \in {"pq-intolerant", "pq-refusing", "pq-other-hybrid"}  -> "BAD"
    [] c \in {"unreachable", "tls-broken", "mtls-required", "no-tls"} -> "ERROR"
    [] OTHER                                                      -> "OK"

\* Mutant: only what got worse, or stayed as bad, is said.
TransitionsDownward(was, now) ==
  {[target |-> t, event |-> "moved", from |-> was[t], to |-> now[t],
    status |-> StatusOf(now[t])] :
      t \in {u \in DOMAIN now \cap DOMAIN was :
               now[u] # was[u] /\ AtLeast(StatusOf(now[u]), StatusOf(was[u]))}}

\* Mutant: asks of the class before whether it is the worse one.
TransitionsSwapped(was, now) ==
  {[target |-> t, event |-> "moved", from |-> was[t], to |-> now[t],
    status |-> IF AtLeast(StatusOf(was[t]), StatusOf(now[t]))
               THEN StatusOf(now[t]) ELSE "OK"] :
      t \in {u \in DOMAIN now \cap DOMAIN was : now[u] # was[u]}}

\* What two runs, each a function from targets to classes, say when put side
\* by side: one line per endpoint that is new, that moved, or that is gone.
Transitions(was, now) ==
  {[target |-> t, event |-> "new", from |-> "none", to |-> now[t],
    status |-> "OK"] : t \in DOMAIN now \ DOMAIN was}
  \cup
  {[target |-> t, event |-> "moved", from |-> was[t], to |-> now[t],
    status |-> IF AtLeast(StatusOf(now[t]), StatusOf(was[t]))
               THEN StatusOf(now[t]) ELSE "OK"] :
      t \in {u \in DOMAIN now \cap DOMAIN was : now[u] # was[u]}}
  \cup
  {[target |-> t, event |-> "gone", from |-> was[t], to |-> "none",
    status |-> "WARN"] : t \in DOMAIN was \ DOMAIN now}
=============================================================================
