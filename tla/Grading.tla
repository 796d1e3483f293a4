------------------------------- MODULE Grading -------------------------------
(***************************************************************************)
(* One endpoint's turn in a run: its profiles dialled one after another,   *)
(* each confirmed as Dialer confirms it, and the results graded.  The peer *)
(* on the other side has a configuration nobody told the program, so the   *)
(* class can be held against what is really there.  The path may also      *)
(* fault: a connection cut for reasons that are gone a moment later.       *)
(***************************************************************************)
EXTENDS Verdict, Peer

CONSTANTS Trials,     \* sets of peers, each with the profile sequences a
                      \* run may ask of them
          MaxFaults   \* passing faults during one run

\* What there may be at the other end, and what the command may dial: a client
\* at least, the single groups and the sizes all of them or none, and the
\* sizes in their order.
Endpoints ==
  PeersWith({"listening", "closed", "blackhole", "noroute", "noname"}, SUBSET Group, Nat,
            {"any", "h2", "other"}, {"accepts", "declines", "ignores"})

Offered ==
  {All[i] : i \in DOMAIN All} \cup {CustomProfile(gs) : gs \in SUBSET Group \ {{}}}
  \cup {GroupProbe(g) : g \in Group} \cup {SizeProbe(n) : n \in SizeTargets}
  \cup {ALPNProbe, ECHOff, ECHOn}

Assembled(p) ==
  LET dials(pass) == {p[i] : i \in {j \in DOMAIN p : p[j].pass = pass}}
  IN /\ p \in Seq(Offered)
     /\ dials("client") # {}
     /\ dials("group") # {} => \A g \in Group : GroupProbe(g) \in dials("group")
     /\ dials("size") # {} => \A n \in SizeTargets : SizeProbe(n) \in dials("size")
     /\ \A i, j \in DOMAIN p : i < j /\ IsSizeProbe(p[i]) /\ IsSizeProbe(p[j])
                                 => p[i].size < p[j].size

ASSUME GradingAssumption ==
  /\ MaxFaults \in Nat
  /\ \A trial \in Trials : /\ trial.peers \subseteq Endpoints
                             /\ \A p \in trial.plans : Assembled(p)

VARIABLES peer, plan, confirm, faults, next, stopped, results, class,
          measured

vars == <<peer, plan, confirm, faults, next, stopped, results, class,
          measured>>

Init ==
  /\ \E trial \in Trials : peer \in trial.peers /\ plan \in trial.plans
  /\ confirm \in BOOLEAN
  /\ faults = 0
  /\ next = 1
  /\ stopped = FALSE
  /\ results = << >>
  /\ class = "none"
  /\ measured = {}

More == next <= Len(plan)

\* Once a padded hello has gone unanswered, the larger ones are not sent.
Skipped(p) == stopped /\ IsSizeProbe(p)

\* One profile's result is in.
Collect(r) ==
  /\ results' = Append(results, r)
  /\ stopped' = (stopped \/ (IsSizeProbe(plan[next]) /\ ~r.ok))
  /\ next' = next + 1
  /\ UNCHANGED <<peer, plan, confirm, class, measured>>

\* What a second dial after an abrupt one says: the endpoint works and is
\* unstable, or it happened twice, or it is some other answer.
Redialled(r) ==
  [r EXCEPT !.attempt = IF r.ok THEN "flapped"
                        ELSE IF Abrupt(r.kind) THEN "twice" ELSE "once"]

\* The peer alone decides how the dial ends; a second dial, if there is one,
\* ends the same way.
Dial ==
  /\ More
  /\ ~Skipped(plan[next])
  /\ \E r \in Handshake(peer, plan[next]) :
       Collect(IF confirm /\ Abrupt(r.kind) THEN Redialled(r) ELSE r)
  /\ UNCHANGED faults

\* A fault cuts the first dial.  Abrupt, so it is dialled again if the run
\* confirms, and then the peer's own answer is the result.
DialThroughFault ==
  /\ More
  /\ ~Skipped(plan[next])
  /\ faults < MaxFaults
  /\ faults' = faults + 1
  /\ \E r \in IF confirm THEN {Redialled(s) : s \in Handshake(peer, plan[next])}
              ELSE {Failed(plan[next], "reset")} : Collect(r)

SkipSize ==
  /\ More
  /\ Skipped(plan[next])
  /\ next' = next + 1
  /\ UNCHANGED <<peer, plan, confirm, faults, stopped, results, class,
                 measured>>

Grade ==
  /\ ~More
  /\ class = "none"
  /\ class' = Evaluate(results)
  /\ measured' = Measured(results)
  /\ UNCHANGED <<peer, plan, confirm, faults, next, stopped, results>>

Reported == class # "none" /\ UNCHANGED vars

Next == Dial \/ DialThroughFault \/ SkipSize \/ Grade \/ Reported

Spec == Init /\ [][Next]_vars

----------------------------------------------------------------------------
(* Properties.                                                             *)

TypeOK ==
  /\ class \in Class \cup {"none"}
  /\ faults \in 0..MaxFaults
  /\ next \in 1..Len(plan) + 1
  /\ stopped \in BOOLEAN
  /\ \A f \in measured : f.status \in Status
  /\ \A i \in DOMAIN results :
       /\ results[i].kind \in Kind
       /\ results[i].ok <=> results[i].kind = "ok"

Dials(p) == \E i \in DOMAIN plan : plan[i] = p

\* A run nothing disturbed, or one that dialled every disturbance twice.
Sound == faults = 0 \/ confirm

CutBySize(p) == peer.up = "listening" /\ p.size > peer.limit

\* The padded client reaches this peer when its size does.
Takes13Hybrid ==
  /\ 13 \in peer.versions
  /\ ~peer.declines
  /\ peer.alpn = "any"
  /\ peer.groups \cap Browser # {}

\* A wall is a wall: pq-intolerant is said of a peer that takes the classical
\* hello and whose path drops the hybrid one for its size, and of no other.
\* A single reset that a second dial does not repeat never earns it.
WallsAreReal ==
  class = "pq-intolerant" /\ Sound =>
     Connects(peer, classic) /\ CutBySize(pqPreferred)

\* ... and it is said of every such peer that speaks TLS 1.3.
WallsAreFound ==
  (class # "none" /\ Sound /\ Dials(classic) /\ Dials(pqPreferred) /\
   Connects(peer, classic) /\ 13 \in peer.versions /\ CutBySize(pqPreferred))
     => class = "pq-intolerant"

\* pq-refusing is a policy at the peer, never a size and never the path.
RefusalsAreThePeers ==
  class = "pq-refusing" /\ Sound =>
     peer.up = "listening" /\ peer.declines /\ ~CutBySize(pqPreferred)

\* Nobody answers this hello, however often it is sent.
Silent(p) == CutBySize(p) \/ peer.up = "blackhole"

\* "Twice" is said of a hello that nobody answers, whatever cut the first dial;
\* "only on the second attempt" of one that is answered, and only when
\* something did; and no hello that nobody answers is left at one dial.
AttemptsAreTrue ==
  \A f \in measured :
     f.check = "handshake" =>
        /\ f.attempt = "twice"   => Silent(f.profile)
        /\ f.attempt = "flapped" => faults > 0 /\ Connects(peer, f.profile)
        /\ (f.attempt = "once" /\ f.status = "WARN" /\ confirm) => ~Silent(f.profile)

\* The map puts under "cut off" the groups whose hello the path drops, and
\* under "declined" none that met silence.  Not all of those were declined:
\* the groups of an endpoint that refused the connection, or has no name or
\* route, are there too.
RefusalsAreApart ==
  \A f \in measured :
     f.check = "groups" /\ Sound =>
        /\ \A g \in f.cutOff  : Silent(GroupProbe(g))
        /\ \A g \in f.byAlert : ~Silent(GroupProbe(g))

\* "A wall" is said of the paths that have one, and "refuses" of the peers
\* that do; of a class, of one attempt and of one group.
WallsAreTrue ==
  /\ WallsAreReal
  /\ WallsAreFound
  /\ RefusalsAreThePeers
  /\ AttemptsAreTrue
  /\ RefusalsAreApart

\* What the map accepts, the peer takes when it is offered alone; a hybrid no
\* browser sends is there when it is said to be, and is said when it was
\* asked for, unless all there is to say is that a certificate is missing;
\* TLS 1.3 is missing when it is said to be.
CapabilitiesAreReal ==
  \A f \in measured :
     /\ f.check = "groups" =>
          /\ \A g \in f.accepted : Connects(peer, GroupProbe(g))
          /\ Sound => \A g \in Group \ f.accepted : ~Connects(peer, GroupProbe(g))
          /\ (f.accepted \cap (Hybrid \ Browser) # {}) =>
               class = "mtls-required" \/ \E h \in measured : h.check = "hybrid"
     /\ f.check = "hybrid" => 13 \in peer.versions /\ peer.groups \cap (Hybrid \ Browser) # {}
     /\ f.check = "client-auth" => peer.mtls
     /\ f.check = "tls-version" /\ Sound => 13 \notin peer.versions

\* A grade that praises is a capability the peer has: it really completes a
\* hybrid handshake with the client the class is about, in TLS 1.3.  So is
\* every capability the findings name.
PraiseIsEarned ==
  /\ CapabilitiesAreReal
  /\ class = "pq-ready" => Connects(peer, pqOnly)
  /\ class \in {"pq-ready", "pq-capable", "pq-other-hybrid"} =>
        13 \in peer.versions /\ peer.groups \cap Hybrid # {}

\* An endpoint that refuses every connection, has no name or no route is
\* unreachable, and one that listens never is, whatever its path does to the
\* hellos.  Of a host that drops everything, see BrokenAnswered.
UnreachableIsNotThePeer ==
  class # "none" /\ Sound =>
     /\ peer.up \in {"closed", "noroute", "noname"} => class = "unreachable"
     /\ peer.up = "listening" => class # "unreachable"

\* A peer that only lacks our certificate is not called broken, and a peer
\* that speaks a hybrid no browser sends is not either once the per-group
\* pass has asked.
BrokenHasNoExcuse ==
  class = "tls-broken" /\ Sound /\ peer.up = "listening" =>
     /\ \A i \in DOMAIN plan :
          plan[i].pass = "client" => ~Connects(peer, plan[i])
     /\ \A g \in Hybrid \ {"X25519MLKEM768"} :
          Dials(GroupProbe(g)) => ~Connects(peer, GroupProbe(g))

\* "tls-broken" is said of an endpoint that answers, as TLSBroken's comment and
\* the table of docs/findings.md have it.  Evaluate's list of kinds that make an
\* endpoint unreachable leaves a host that drops every packet out.
BrokenAnswered == class = "tls-broken" /\ Sound => peer.up = "listening"

\* The state is well formed, and a class that says nothing worked says so of
\* the right party.
GradeInv == TypeOK /\ UnreachableIsNotThePeer /\ BrokenHasNoExcuse

\* The sweep brackets the path's limit when it is the path that stops it: the
\* largest hello answered fits, the smallest refused does not, and no size of
\* the sweep lies between the two; "no limit" is said only of a path that
\* carried every size.
SweepBrackets ==
  \A f \in measured :
     (f.check = "size-limit" /\ Sound /\ Takes13Hybrid) =>
        /\ f.lastOK <= peer.limit
        /\ f.status = "BAD" <=> peer.limit < MaxOf(SizeTargets)
        /\ f.status = "BAD" =>
             /\ peer.limit < f.firstBad
             /\ \A n \in SizeTargets : ~(f.lastOK < n /\ n < f.firstBad)

\* "cut off with ECH" is said only where the limit lies between the two
\* hellos of the pair, and "accepted" only where the peer decrypted it.  It
\* says nothing of "declined", which is also said where both halves were cut.
ECHIsWhatHappened ==
  \A f \in measured :
     f.check = "ech" /\ Sound =>
        /\ f.event = "cut off"  => peer.limit \in ECHOff.size..(ECHOn.size - 1)
        /\ f.event = "accepted" => peer.ech = "accepts" /\ f.bytes > 0
=============================================================================
