--------------------------- MODULE GradingProofs ---------------------------
(***************************************************************************)
(* What Grading's run shows for lists of peers and plans, proved for every *)
(* peer there may be, every plan the command assembles and any number of   *)
(* faults: what is said of an endpoint is true of it.                      *)
(*                                                                         *)
(* The invariant is about single results: each is the peer's answer to its *)
(* profile, or a fault nobody looked at twice.  The theorems are what      *)
(* Evaluate and the findings make of any set of such results.              *)
(***************************************************************************)
EXTENDS Grading, FiniteSetTheorems, TLAPS

----------------------------------------------------------------------------
(* Numbers.                                                                *)

\* A set of numbers has a least one.
LEMMA LeastNumber ==
  ASSUME NEW S \in SUBSET Nat, S # {}
  PROVE  MinOf(S) \in S /\ \A k \in S : MinOf(S) <= k
<1> DEFINE R == StrictSubsetOrdering(Nat)
           F == FiniteSubsetsOf(Nat)
           T == {0..m : m \in S}
<1>1. IsWellFoundedOn(R, F)
  BY FS_StrictSubsetOrderingWellFounded
<1>2. T \subseteq F /\ T # {}
  <2>1. ASSUME NEW m \in S
        PROVE  0..m \in F
    BY FS_Interval DEF FiniteSubsetsOf
  <2> QED
    BY <2>1
<1> HIDE DEF R, F, T
<1>3. PICK x \in T : \A y \in T : <<y, x>> \notin R
  BY <1>1, <1>2, WFMin
<1>4. PICK m \in S : x = 0..m
  BY DEF T
<1>5. ASSUME NEW k \in S, k < m
      PROVE  FALSE
  <2>1. 0..k \in T /\ <<0..k, 0..m>> \notin R
    BY <1>3, <1>4 DEF T
  <2>2. 0..k \subseteq 0..m /\ 0..k # 0..m /\ 0..k \subseteq Nat /\ 0..m \subseteq Nat
    BY <1>5
  <2> QED
    BY <2>1, <2>2 DEF R, StrictSubsetOrdering
<1>6. \A k \in S : m <= k
  BY <1>5
<1> QED
  BY <1>6 DEF MinOf

\* A set of numbers with a bound has a greatest one.
LEMMA GreatestNumber ==
  ASSUME NEW S \in SUBSET Nat, S # {}, NEW b \in Nat, \A k \in S : k <= b
  PROVE  MaxOf(S) \in S /\ \A k \in S : k <= MaxOf(S)
<1> DEFINE D == {b - k : k \in S}
<1>1. \A k \in S : k \in Nat /\ b - k \in Nat
  OBVIOUS
<1>2. D \in SUBSET Nat /\ D # {}
  BY <1>1
<1>3. \A k \in S : b - k \in D
  OBVIOUS
<1>4. \A d \in D : \E k \in S : d = b - k
  OBVIOUS
<1> HIDE DEF D
<1>5. MinOf(D) \in D /\ \A d \in D : MinOf(D) <= d
  BY <1>2, LeastNumber
<1>6. PICK m \in S : MinOf(D) = b - m
  BY <1>4, <1>5
<1>7. ASSUME NEW k \in S
      PROVE  k <= m
  BY <1>1, <1>3, <1>5, <1>6
<1> QED
  BY <1>7 DEF MaxOf

----------------------------------------------------------------------------
(* Profiles.                                                               *)

\* Everything a profile may be, without saying which.
Shaped(p) ==
  /\ p.pass \in {"client", "group", "size", "alpn", "ech"}
  /\ p.groups \subseteq Group
  /\ p.versions \subseteq {12, 13}
  /\ p.size \in Nat \ {0}

\* Which hellos carry a hybrid share.
LEMMA Hellos ==
  /\ HelloSize({"X25519", "P-256"}) = 1
  /\ HelloSize(Browser) = 2
  /\ HelloSize({"X25519MLKEM768"}) = 2
  /\ \A gs : HelloSize(gs) \in {1, 2}
<1>1. {"X25519", "P-256"} \cap Hybrid = {}
  BY DEF Hybrid
<1>2. "X25519MLKEM768" \in Hybrid /\ "X25519MLKEM768" \in Browser
  BY DEF Hybrid, Browser
<1> QED
  BY <1>1, <1>2 DEF HelloSize, Small, Large

\* The five clients, field by field.
LEMMA Clients ==
  /\ classic = [name |-> "classic", pass |-> "client", groups |-> {"X25519", "P-256"},
                versions |-> {12, 13}, size |-> 1]
  /\ pqPreferred = [name |-> "pq-preferred", pass |-> "client", groups |-> Browser,
                    versions |-> {12, 13}, size |-> 2]
  /\ pqOnly = [name |-> "pq-only", pass |-> "client", groups |-> {"X25519MLKEM768"},
               versions |-> {13}, size |-> 2]
  /\ tls13Only = [name |-> "tls13-only", pass |-> "client",
                  groups |-> {"X25519", "P-256"}, versions |-> {13}, size |-> 1]
  /\ tls12 = [name |-> "tls12", pass |-> "client", groups |-> {"X25519", "P-256"},
              versions |-> {12}, size |-> 1]
BY Hellos DEF Client, classic, pqPreferred, pqOnly, tls13Only, tls12

\* The probes that are pq-preferred with something added.
LEMMA Additions ==
  /\ /\ ALPNProbe.name = "pq-preferred+alpn" /\ ALPNProbe.pass = "alpn"
     /\ ALPNProbe.groups = Browser /\ ALPNProbe.versions = {12, 13} /\ ALPNProbe.size = 3
  /\ /\ ECHOff.name = "ech:off" /\ ECHOff.pass = "ech"
     /\ ECHOff.groups = Browser /\ ECHOff.versions = {13} /\ ECHOff.size = 2
  /\ /\ ECHOn.name = "ech:on" /\ ECHOn.pass = "ech"
     /\ ECHOn.groups = Browser /\ ECHOn.versions = {13} /\ ECHOn.size = 4
BY Hellos DEF ALPNProbe, ECHOff, ECHOn, Large, pqPreferred, Client

\* What a name or a pass says of the profile that has it.
Named(p) ==
  /\ p.name = "classic"      => p = classic
  /\ p.name = "pq-preferred" => p = pqPreferred
  /\ p.name = "pq-only"      => p = pqOnly
  /\ p.name = "tls13-only"   => p = tls13Only
  /\ p.name = "tls12"        => p = tls12
  /\ p.name = "ech:off"      => p = ECHOff
  /\ p.name = "ech:on"       => p = ECHOn
  /\ p.pass = "group" => p.name \in Group /\ p = GroupProbe(p.name)
  /\ p.pass = "size"  => p.size \in SizeTargets /\ p = SizeProbe(p.size)

\* What the command may dial is a profile, and the names Evaluate looks for
\* belong to one profile each.
LEMMA NameAndPass ==
  ASSUME NEW p \in Offered
  PROVE  Shaped(p) /\ Named(p)
<1>1. {"X25519", "P-256"} \subseteq Group /\ Browser \subseteq Group
      /\ {"X25519MLKEM768"} \subseteq Group
  BY DEF Browser, Group, Classical, Hybrid
<1>2. CASE p \in {classic, pqPreferred, pqOnly, tls13Only, tls12}
  BY <1>1, <1>2, Clients DEF Shaped, Named
<1>3. CASE p \in {CustomProfile(gs) : gs \in SUBSET Group \ {{}}}
  <2>1. PICK gs \in SUBSET Group : p = CustomProfile(gs)
    BY <1>3
  <2>2. p = [name |-> "custom", pass |-> "client", groups |-> gs,
             versions |-> {12, 13}, size |-> HelloSize(gs)]
    BY <2>1, Clients DEF CustomProfile, Client
  <2>3. HelloSize(gs) \in Nat \ {0}
    BY Hellos
  <2> QED
    BY <2>2, <2>3 DEF Shaped, Named
<1>4. CASE p \in {GroupProbe(g) : g \in Group}
  <2>1. PICK g \in Group : p = GroupProbe(g)
    BY <1>4
  <2>2. p = [name |-> g, pass |-> "group", groups |-> {g}, versions |-> {13},
             size |-> HelloSize({g})]
    BY <2>1 DEF GroupProbe
  <2>3. HelloSize({g}) \in Nat \ {0}
    BY Hellos
  <2>4. g \notin {"classic", "pq-preferred", "pq-only", "tls13-only", "tls12",
                     "ech:off", "ech:on"}
    BY DEF Group, Classical, Hybrid
  <2>5. p.name = g /\ p.pass = "group" /\ p.groups = {g} /\ p.versions = {13}
        /\ p.size = HelloSize({g})
    BY <2>2
  <2>6. Shaped(p)
    BY <2>3, <2>5 DEF Shaped
  <2>7. Named(p)
    BY <2>1, <2>4, <2>5 DEF Named
  <2> QED
    BY <2>6, <2>7
<1>5. CASE p \in {SizeProbe(n) : n \in SizeTargets}
  <2>1. PICK n \in SizeTargets : p = SizeProbe(n)
    BY <1>5
  <2>2. p = [name |-> "size", pass |-> "size", groups |-> Browser, versions |-> {13},
             size |-> n]
    BY <2>1 DEF SizeProbe
  <2>3. p.name = "size" /\ p.pass = "size" /\ p.groups = Browser /\ p.versions = {13}
        /\ p.size = n
    BY <2>2
  <2>4. Shaped(p)
    BY <1>1, <2>3 DEF Shaped, SizeTargets
  <2>5. Named(p)
    BY <2>1, <2>3 DEF Named
  <2> QED
    BY <2>4, <2>5
<1>6. CASE p \in {ALPNProbe, ECHOff, ECHOn}
  BY <1>1, <1>6, Additions DEF Shaped, Named
<1>7. {All[i] : i \in DOMAIN All} = {classic, pqPreferred, pqOnly, tls13Only, tls12}
  <2>1. DOMAIN All = 1..5
    BY DEF All
  <2> QED
    BY <2>1 DEF All
<1> QED
  BY <1>2, <1>3, <1>4, <1>5, <1>6, <1>7 DEF Offered
----------------------------------------------------------------------------
(* Peers, and what they say.                                               *)

\* The fields of an endpoint.
LEMMA EndpointFields ==
  ASSUME NEW pe \in Endpoints
  PROVE  /\ pe.up \in {"listening", "closed", "blackhole", "noroute", "noname"}
         /\ pe.groups \subseteq Group
         /\ pe.versions \subseteq {12, 13}
         /\ pe.limit \in Nat
         /\ pe.cut \in {"reset", "timeout"}
BY DEF Endpoints, PeersWith

\* A peer that lets the hello through refuses it.
Refuses(pe, p) ==
  \/ pe.declines /\ p.groups \cap Hybrid # {}
  \/ p.pass = "alpn" /\ pe.alpn = "other"
  \/ p.pass = "size" /\ pe.alpn # "any"
  \/ Common(pe, p) = {}

\* The one kind with which a dial of p can end.
KindOf(pe, p) ==
  CASE pe.up = "closed"    -> "refused"
    [] pe.up = "noroute"   -> "unroutable"
    [] pe.up = "noname"    -> "dns"
    [] pe.up = "blackhole" -> "timeout"
    [] pe.up = "listening" -> IF p.size > pe.limit THEN pe.cut
                              ELSE IF Refuses(pe, p) THEN "alert"
                              ELSE IF p = ECHOn /\ pe.ech = "declines" THEN "ech-reject"
                              ELSE IF Agreed(pe, p) = 12 /\ pe.mtls THEN "alert"
                              ELSE "ok"

\* The result is the peer's own answer.
Told(pe, r) ==
  /\ r.kind = KindOf(pe, r.profile)
  /\ r.ok = (r.kind = "ok")
  /\ r.hello = IF pe.up = "listening" THEN r.profile.size ELSE 0
  /\ r.certRequested => pe.mtls
  /\ r.ok => /\ r.version = Agreed(pe, r.profile)
             /\ \E g \in Common(pe, r.profile) : r.pq = IsPQ(g)
             /\ r.echAccepted => pe.ech = "accepts"

\* Whoever is at the other end, a dial ends in the kind that is its own.
LEMMA HandshakeTells ==
  ASSUME NEW pe \in Endpoints, NEW p \in Offered, NEW r \in Handshake(pe, p)
  PROVE  Told(pe, r) /\ r.profile = p /\ r.attempt = "once"
<1>0. pe.up \in {"listening", "closed", "blackhole", "noroute", "noname"}
      /\ pe.cut \in {"reset", "timeout"}
  BY EndpointFields
<1>1. CASE pe.up # "listening"
  <2>1. PICK k \in {"refused", "unroutable", "dns", "timeout"} :
          KindOf(pe, p) = k /\ r = Unsent(p, k)
    BY <1>0, <1>1 DEF Handshake, KindOf
  <2>2. /\ r.profile = p /\ r.attempt = "once" /\ r.kind = k /\ r.ok = FALSE
        /\ r.hello = 0 /\ r.certRequested = FALSE
    BY <2>1 DEF Unsent
  <2> QED
    BY <1>1, <2>1, <2>2 DEF Told
<1>2. CASE pe.up = "listening" /\ p.size > pe.limit
  BY <1>0, <1>2 DEF Handshake, Failed, Unsent, Told, KindOf
<1>3. CASE pe.up = "listening" /\ ~(p.size > pe.limit)
  <2>0. r \in Answers(pe, p)
    BY <1>3 DEF Handshake
  <2>1. CASE Refuses(pe, p)
    BY <1>3, <2>0, <2>1 DEF Answers, Refuses, Failed, Unsent, Told, KindOf
  <2>2. CASE ~Refuses(pe, p) /\ p = ECHOn /\ pe.ech = "declines"
    BY <1>3, <2>0, <2>2 DEF Answers, Refuses, Failed, Unsent, Told, KindOf
  <2>3. CASE /\ ~Refuses(pe, p) /\ ~(p = ECHOn /\ pe.ech = "declines")
             /\ Agreed(pe, p) = 12 /\ pe.mtls
    BY <1>3, <2>0, <2>3 DEF Answers, Refuses, Failed, Unsent, Told, KindOf
  <2>4. CASE /\ ~Refuses(pe, p) /\ ~(p = ECHOn /\ pe.ech = "declines")
             /\ ~(Agreed(pe, p) = 12 /\ pe.mtls)
    <3>1. PICK g \in Common(pe, p) : r = Completed(pe, p, Agreed(pe, p), g)
      BY <2>0, <2>4 DEF Answers, Refuses
    <3>2. /\ r.profile = p /\ r.attempt = "once" /\ r.kind = "ok" /\ r.ok = TRUE
          /\ r.hello = p.size /\ r.version = Agreed(pe, p) /\ r.pq = IsPQ(g)
          /\ r.certRequested = pe.mtls
          /\ r.echAccepted = (p = ECHOn /\ pe.ech = "accepts")
      BY <3>1 DEF Completed, Failed, Unsent
    <3>3. KindOf(pe, p) = "ok"
      BY <1>3, <2>4 DEF KindOf
    <3> QED
      BY <1>3, <3>1, <3>2, <3>3 DEF Told
  <2> QED
    BY <2>1, <2>2, <2>3, <2>4
<1> QED
  BY <1>1, <1>2, <1>3

\* A profile gets through exactly when that kind is "ok".
LEMMA ConnectsIsOK ==
  ASSUME NEW pe \in Endpoints, NEW p \in Offered
  PROVE  Connects(pe, p) <=> KindOf(pe, p) = "ok"
<1>1. ASSUME Connects(pe, p)
      PROVE  KindOf(pe, p) = "ok"
  <2>1. PICK r \in Handshake(pe, p) : r.ok
    BY <1>1 DEF Connects
  <2>2. Told(pe, r) /\ r.profile = p
    BY <2>1, HandshakeTells
  <2> QED
    BY <2>1, <2>2 DEF Told
<1>2. ASSUME KindOf(pe, p) = "ok"
      PROVE  Connects(pe, p)
  <2>1. /\ pe.up = "listening" /\ ~(p.size > pe.limit) /\ ~Refuses(pe, p)
        /\ ~(p = ECHOn /\ pe.ech = "declines")
        /\ ~(Agreed(pe, p) = 12 /\ pe.mtls)
    BY <1>2, EndpointFields DEF KindOf
  <2>2. PICK g \in Common(pe, p) : TRUE
    BY <2>1 DEF Refuses
  <2>3. Completed(pe, p, Agreed(pe, p), g) \in Handshake(pe, p)
    BY <2>1, <2>2 DEF Handshake, Answers, Refuses
  <2>4. Completed(pe, p, Agreed(pe, p), g).ok = TRUE
    BY DEF Completed, Failed, Unsent
  <2> QED
    BY <2>3, <2>4 DEF Connects
<1> QED
  BY <1>1, <1>2

\* What each group of kinds says of the peer.
LEMMA WhatKindsSay ==
  ASSUME NEW pe \in Endpoints, NEW p \in Offered
  PROVE  /\ KindOf(pe, p) \in Kind \ {"starttls"}
         /\ KindOf(pe, p) \in Absent <=> pe.up \in {"closed", "noroute", "noname"}
         /\ Abrupt(KindOf(pe, p)) <=>
              pe.up = "blackhole" \/ (pe.up = "listening" /\ p.size > pe.limit)
         /\ KindOf(pe, p) = "ok" =>
              /\ pe.up = "listening" /\ p.size <= pe.limit /\ ~Refuses(pe, p)
              /\ Common(pe, p) # {} /\ ~(Agreed(pe, p) = 12 /\ pe.mtls)
<1>1. /\ pe.up \in {"listening", "closed", "blackhole", "noroute", "noname"}
      /\ pe.cut \in {"reset", "timeout"} /\ pe.limit \in Nat /\ p.size \in Nat
  BY EndpointFields, NameAndPass DEF Shaped
<1>2. CASE pe.up # "listening"
  BY <1>1, <1>2 DEF KindOf, Kind, Failures, Absent, Abrupt
<1>3. CASE pe.up = "listening" /\ p.size > pe.limit
  BY <1>1, <1>3 DEF KindOf, Kind, Failures, Absent, Abrupt
<1>4. CASE pe.up = "listening" /\ ~(p.size > pe.limit)
  <2>1. KindOf(pe, p) \in {"alert", "ech-reject", "ok"}
    BY <1>4 DEF KindOf
  <2>2. KindOf(pe, p) = "ok" => ~Refuses(pe, p) /\ ~(Agreed(pe, p) = 12 /\ pe.mtls)
    BY <1>4 DEF KindOf
  <2>3. ~Refuses(pe, p) => Common(pe, p) # {}
    BY DEF Refuses
  <2> QED
    BY <1>1, <1>4, <2>1, <2>2, <2>3 DEF Kind, Failures, Absent, Abrupt
<1> QED
  BY <1>2, <1>3, <1>4
----------------------------------------------------------------------------
(* The invariant.                                                          *)

\* Everything a result may be.
Result ==
  [profile : Offered, ok : BOOLEAN, kind : Kind, version : {0, 12, 13}, pq : BOOLEAN,
   certRequested : BOOLEAN, hello : Nat, echAccepted : BOOLEAN,
   attempt : {"once", "twice", "flapped"}]

\* The results that are in.
Got == {results[k] : k \in DOMAIN results}

\* The peer's own answer, and as many dials as it stands for.
Dialled(r) ==
  /\ Told(peer, r)
  /\ r.attempt = "twice" => Abrupt(r.kind)
  /\ r.attempt = "flapped" => r.ok /\ faults > 0
  /\ r.attempt = "once" /\ confirm => ~Abrupt(r.kind)

\* A passing fault, in a run that does not look twice.
Faulted(r) ==
  /\ ~confirm /\ faults > 0
  /\ ~r.ok /\ r.kind = "reset" /\ ~r.certRequested /\ r.attempt = "once"

Answered(p) == \E r \in Got : r.profile = p

\* The sweep got stuck at the n-th profile.
StuckAt(n) == IsSizeProbe(plan[n]) /\ \E r \in Got : r.profile = plan[n] /\ ~r.ok

Typed ==
  /\ peer \in Endpoints /\ Assembled(plan)
  /\ confirm \in BOOLEAN /\ stopped \in BOOLEAN
  /\ faults \in 0..MaxFaults
  /\ next \in 1..Len(plan) + 1
  /\ results \in Seq(Result)

\* Every result is one or the other, of a profile that was dialled.
Accounted ==
  \A r \in Got : /\ \E i \in DOMAIN plan : r.profile = plan[i]
                 /\ Dialled(r) \/ Faulted(r)

\* Every profile that was come to has its result, unless it is a size after
\* one that failed.
NoneForgotten ==
  \A i \in 1..(next - 1) :
     Answered(plan[i]) \/ (IsSizeProbe(plan[i]) /\ \E j \in 1..(i - 1) : StuckAt(j))

StoppedForAReason == stopped => \E j \in 1..(next - 1) : StuckAt(j)

\* A class is given once everything is in, and is what Evaluate makes of it.
GradedLast ==
  \/ class = "none" /\ measured = {}
  \/ /\ next = Len(plan) + 1
     /\ class = Evaluate(results)
     /\ measured = Measured(results)

IInv == Typed /\ Accounted /\ NoneForgotten /\ StoppedForAReason /\ GradedLast
\* A dial ends in a result.
LEMMA HandshakeResult ==
  ASSUME NEW pe \in Endpoints, NEW p \in Offered, NEW r \in Handshake(pe, p)
  PROVE  r \in Result
<1>1. /\ pe.up \in {"listening", "closed", "blackhole", "noroute", "noname"}
      /\ pe.cut \in Kind /\ pe.mtls \in BOOLEAN
  BY DEF Endpoints, PeersWith, Kind, Failures
<1>2. p.size \in Nat /\ Agreed(pe, p) \in {0, 12, 13}
  BY NameAndPass DEF Shaped, Agreed
<1>3. ASSUME NEW k \in Kind
      PROVE  Unsent(p, k) \in Result /\ Failed(p, k) \in Result
  BY <1>2, <1>3 DEF Unsent, Failed, Result
<1>4. {"refused", "unroutable", "dns", "timeout", "alert", "ech-reject"} \subseteq Kind
  BY DEF Kind, Failures
<1>5. CASE pe.up # "listening" \/ p.size > pe.limit
  BY <1>1, <1>3, <1>4, <1>5 DEF Handshake
<1>6. CASE pe.up = "listening" /\ ~(p.size > pe.limit)
  <2>1. r \in Answers(pe, p)
    BY <1>6 DEF Handshake
  <2>2. CASE r = Failed(p, "alert") \/ r = Failed(p, "ech-reject")
    BY <1>3, <1>4, <2>2
  <2>3. CASE r = [Failed(p, "alert") EXCEPT !.certRequested = TRUE]
    BY <1>2, <1>4, <2>3 DEF Failed, Unsent, Result
  <2>4. CASE \E g \in Common(pe, p) : r = Completed(pe, p, Agreed(pe, p), g)
    <3>1. PICK g : r = Completed(pe, p, Agreed(pe, p), g)
      BY <2>4
    <3>2. IsPQ(g) \in BOOLEAN /\ (p = ECHOn /\ pe.ech = "accepts") \in BOOLEAN
      BY DEF IsPQ
    <3>3. "ok" \in Kind
      BY DEF Kind
    <3> QED
      BY <1>1, <1>2, <3>1, <3>2, <3>3 DEF Completed, Failed, Unsent, Result
  <2> QED
    BY <2>1, <2>2, <2>3, <2>4 DEF Answers
<1> QED
  BY <1>5, <1>6

LEMMA IInvInit ==
  Init => IInv
<1> SUFFICES ASSUME Init
             PROVE  IInv
  OBVIOUS
<1>1. PICK trial \in Trials : peer \in trial.peers /\ plan \in trial.plans
  BY DEF Init
<1>2. peer \in Endpoints /\ Assembled(plan) /\ MaxFaults \in Nat
  BY <1>1, GradingAssumption
<1>3. Len(plan) \in Nat
  BY <1>2 DEF Assembled
<1>4. Got = {}
  BY DEF Init, Got
<1>5. /\ << >> \in Seq(Result)
      /\ results = << >> /\ faults = 0 /\ next = 1 /\ stopped = FALSE /\ confirm \in BOOLEAN
  BY DEF Init
<1>6. results \in Seq(Result) /\ faults \in 0..MaxFaults /\ next \in 1..Len(plan) + 1
  BY <1>2, <1>3, <1>5
<1>7. Typed
  BY <1>2, <1>5, <1>6 DEF Typed
<1> QED
  BY <1>4, <1>7 DEF Init, IInv, Accounted, NoneForgotten, StoppedForAReason, GradedLast

\* A result joins those that are in.
LEMMA OneMore ==
  ASSUME results \in Seq(Result), NEW r \in Result, results' = Append(results, r)
  PROVE  results' \in Seq(Result) /\ Got' = Got \cup {r}
<1>1. /\ results' \in Seq(Result)
      /\ DOMAIN results = 1..Len(results) /\ DOMAIN results' = 1..(Len(results) + 1)
      /\ results'[Len(results) + 1] = r
      /\ \A k \in 1..Len(results) : results'[k] = results[k]
      /\ Len(results) \in Nat
  OBVIOUS
<1> QED
  BY <1>1 DEF Got

\* Collecting a result that is accounted for keeps the invariant.
LEMMA CollectKeeps ==
  ASSUME IInv, More, NEW r \in Result, Collect(r), r.profile = plan[next],
         faults' \in faults..MaxFaults, Dialled(r)' \/ Faulted(r)'
  PROVE  IInv'
<1> USE DEF IInv
<1>0. Typed
  OBVIOUS
<1>1. /\ results' = Append(results, r) /\ next' = next + 1
      /\ stopped' = (stopped \/ (IsSizeProbe(plan[next]) /\ ~r.ok))
      /\ peer' = peer /\ plan' = plan /\ confirm' = confirm
      /\ class' = class /\ measured' = measured
  BY DEF Collect
<1>2. results' \in Seq(Result) /\ Got' = Got \cup {r}
  BY <1>0, <1>1, OneMore DEF Typed
<1>3. Len(plan) \in Nat /\ next \in 1..Len(plan) /\ DOMAIN plan = 1..Len(plan)
  BY <1>0 DEF Typed, Assembled, More
<1>4. Typed'
  BY <1>0, <1>1, <1>2, <1>3 DEF Typed
<1>5. Accounted'
  <2>1. \A s \in Got : (Dialled(s) => Dialled(s)') /\ (Faulted(s) => Faulted(s)')
    BY <1>0, <1>1 DEF Dialled, Faulted, Typed
  <2> QED
    BY <1>1, <1>2, <1>3, <2>1 DEF Accounted
<1>6. \A n : StuckAt(n) => StuckAt(n)'
  BY <1>1, <1>2 DEF StuckAt
<1>7. \A p : Answered(p) => Answered(p)'
  BY <1>2 DEF Answered
<1>8. PICK n : n = next
  OBVIOUS
<1>9. Answered(plan[n])'
  BY <1>1, <1>2, <1>8 DEF Answered
<1>10. NoneForgotten'
  <2> SUFFICES ASSUME NEW i \in 1..next
               PROVE  \/ Answered(plan[i])'
                      \/ IsSizeProbe(plan[i]) /\ \E j \in 1..(i - 1) : StuckAt(j)'
    BY <1>1, <1>3 DEF NoneForgotten
  <2>1. CASE i = next
    BY <1>1, <1>8, <1>9, <2>1
  <2>2. CASE i # next
    <3>1. i \in 1..(next - 1)
      BY <1>3, <2>2
    <3> QED
      BY <3>1, <1>1, <1>6, <1>7 DEF NoneForgotten
  <2> QED
    BY <2>1, <2>2
<1>11. StoppedForAReason'
  <2>1. CASE stopped
    <3>1. PICK j \in 1..(next - 1) : StuckAt(j)
      BY <2>1 DEF StoppedForAReason
    <3>2. j \in 1..(next' - 1)
      BY <1>1, <1>3
    <3> QED
      BY <1>6, <3>1, <3>2 DEF StoppedForAReason
  <2>2. CASE ~stopped
    <3>1. stopped' => StuckAt(n)'
      BY <1>1, <1>2, <1>8, <2>2 DEF StuckAt
    <3>2. n \in 1..(next' - 1)
      BY <1>1, <1>3, <1>8
    <3> QED
      BY <3>1, <3>2 DEF StoppedForAReason
  <2> QED
    BY <2>1, <2>2
<1>12. GradedLast'
  BY <1>1, <1>3 DEF GradedLast
<1> QED
  BY <1>4, <1>5, <1>10, <1>11, <1>12
\* A second dial says how often, and nothing else.
LEMMA RedialledTells ==
  ASSUME NEW pe, NEW r \in Result, Told(pe, r)
  PROVE  LET s == Redialled(r)
         IN  /\ s \in Result /\ Told(pe, s) /\ s.profile = r.profile
             /\ s.ok = r.ok /\ s.kind = r.kind
             /\ s.attempt = IF r.ok THEN "flapped"
                            ELSE IF Abrupt(r.kind) THEN "twice" ELSE "once"
<1> DEFINE s == Redialled(r)
<1>1. /\ s \in Result /\ s.profile = r.profile /\ s.ok = r.ok /\ s.kind = r.kind
      /\ s.hello = r.hello /\ s.certRequested = r.certRequested /\ s.pq = r.pq
      /\ s.version = r.version /\ s.echAccepted = r.echAccepted
      /\ s.attempt = IF r.ok THEN "flapped"
                     ELSE IF Abrupt(r.kind) THEN "twice" ELSE "once"
  BY DEF Redialled, Result
<1> HIDE DEF s
<1>2. Told(pe, s)
  BY <1>1 DEF Told
<1> QED
  BY <1>1, <1>2 DEF s

LEMMA IInvStep ==
  IInv /\ [Next]_vars => IInv'
<1> SUFFICES ASSUME IInv, [Next]_vars
             PROVE  IInv'
  OBVIOUS
<1>0. Typed /\ Accounted /\ NoneForgotten /\ StoppedForAReason /\ GradedLast
  BY DEF IInv
<1>1. /\ Len(plan) \in Nat /\ DOMAIN plan = 1..Len(plan) /\ MaxFaults \in Nat
      /\ \A i \in DOMAIN plan : plan[i] \in Offered
      /\ next \in 1..Len(plan) + 1 /\ faults \in 0..MaxFaults /\ peer \in Endpoints
  BY <1>0, GradingAssumption DEF Typed, Assembled
<1>2. CASE Dial
  <2>1. PICK r \in Handshake(peer, plan[next]) :
          Collect(IF confirm /\ Abrupt(r.kind) THEN Redialled(r) ELSE r)
    BY <1>2 DEF Dial
  <2>2. plan[next] \in Offered /\ More /\ faults' = faults
    BY <1>1, <1>2 DEF Dial, More
  <2>3. r \in Result /\ Told(peer, r) /\ r.profile = plan[next] /\ r.attempt = "once"
    BY <1>1, <2>1, <2>2, HandshakeTells, HandshakeResult
  <2>4. confirm' = confirm /\ peer' = peer /\ faults' \in faults..MaxFaults
    BY <1>1, <2>1, <2>2 DEF Collect
  <2>5. r.ok => ~Abrupt(r.kind)
    BY <2>3 DEF Told, Abrupt
  <2>6. CASE confirm /\ Abrupt(r.kind)
    <3> DEFINE s == Redialled(r)
    <3>1. s \in Result /\ Told(peer, s) /\ s.profile = plan[next]
          /\ s.attempt = "twice" /\ s.kind = r.kind
      BY <2>3, <2>5, <2>6, RedialledTells
    <3>2. Collect(s)
      BY <2>1, <2>6
    <3> HIDE DEF s
    <3>3. PICK t : t = s
      OBVIOUS
    <3>4. Dialled(t)'
      BY <2>4, <2>6, <3>1, <3>3 DEF Dialled
    <3> QED
      BY <2>2, <2>4, <3>1, <3>2, <3>3, <3>4, CollectKeeps
  <2>7. CASE ~(confirm /\ Abrupt(r.kind))
    <3>1. Collect(r)
      BY <2>1, <2>7
    <3>2. Dialled(r)'
      BY <2>3, <2>4, <2>7 DEF Dialled
    <3> QED
      BY <2>2, <2>3, <2>4, <3>1, <3>2, CollectKeeps
  <2> QED
    BY <2>6, <2>7
<1>3. CASE DialThroughFault
  <2>1. /\ plan[next] \in Offered /\ More
        /\ faults' = faults + 1 /\ faults' \in faults..MaxFaults
    BY <1>1, <1>3 DEF DialThroughFault, More
  <2>2. CASE confirm
    <3>1. PICK r \in Handshake(peer, plan[next]) : Collect(Redialled(r))
      BY <1>3, <2>2 DEF DialThroughFault
    <3>2. r \in Result /\ Told(peer, r) /\ r.profile = plan[next]
      BY <1>1, <2>1, <3>1, HandshakeTells, HandshakeResult
    <3> DEFINE s == Redialled(r)
    <3>3. /\ s \in Result /\ Told(peer, s) /\ s.profile = plan[next]
          /\ s.ok = r.ok /\ s.kind = r.kind
          /\ s.attempt = IF r.ok THEN "flapped"
                         ELSE IF Abrupt(r.kind) THEN "twice" ELSE "once"
      BY <3>2, RedialledTells
    <3>4. Collect(s)
      BY <3>1
    <3> HIDE DEF s
    <3>5. PICK t : t = s
      OBVIOUS
    <3>6. confirm' = confirm /\ peer' = peer /\ faults' > 0
      BY <1>1, <2>1, <3>4 DEF Collect
    <3>7. Dialled(t)'
      BY <3>3, <3>5, <3>6 DEF Dialled
    <3> QED
      BY <2>1, <3>3, <3>4, <3>5, <3>7, CollectKeeps
  <2>3. CASE ~confirm
    <3>1. PICK t : t = Failed(plan[next], "reset")
      OBVIOUS
    <3>2. Collect(t)
      BY <1>3, <2>3, <3>1 DEF DialThroughFault
    <3>3. plan[next].size \in Nat /\ "reset" \in Kind
      BY <2>1, NameAndPass DEF Shaped, Kind, Failures
    <3>4. /\ t \in Result /\ t.profile = plan[next] /\ ~t.ok /\ t.kind = "reset"
          /\ ~t.certRequested /\ t.attempt = "once"
      BY <2>1, <3>1, <3>3 DEF Failed, Unsent, Result
    <3>5. confirm' = confirm /\ faults' > 0
      BY <1>1, <2>1, <3>2 DEF Collect
    <3>6. Faulted(t)'
      BY <2>3, <3>4, <3>5 DEF Faulted
    <3> QED
      BY <2>1, <3>2, <3>4, <3>6, CollectKeeps
  <2> QED
    BY <2>2, <2>3
<1>4. CASE SkipSize
  <2>1. /\ next \in 1..Len(plan) /\ stopped /\ IsSizeProbe(plan[next])
        /\ next' = next + 1 /\ class = "none"
        /\ UNCHANGED <<peer, plan, confirm, faults, stopped, results, class, measured>>
    BY <1>0, <1>1, <1>4 DEF SkipSize, Skipped, More, GradedLast
  <2>2. PICK j \in 1..(next - 1) : StuckAt(j)
    BY <1>0, <2>1 DEF StoppedForAReason
  <2>3. Got' = Got /\ \A n : StuckAt(n)' <=> StuckAt(n)
    BY <2>1 DEF Got, StuckAt
  <2>4. \A p : Answered(p)' <=> Answered(p)
    BY <2>3 DEF Answered
  <2>5. Typed'
    BY <1>0, <1>1, <2>1 DEF Typed
  <2>6. Accounted'
    BY <1>0, <2>1, <2>3 DEF Accounted, Dialled, Faulted
  <2>7. NoneForgotten'
    <3> SUFFICES ASSUME NEW i \in 1..next
                 PROVE  \/ Answered(plan[i])'
                        \/ IsSizeProbe(plan[i]) /\ \E n \in 1..(i - 1) : StuckAt(n)
      BY <1>1, <2>1, <2>3 DEF NoneForgotten
    <3>1. CASE i = next
      BY <2>1, <2>2, <3>1
    <3>2. CASE i # next
      <4>1. i \in 1..(next - 1)
        BY <1>1, <3>2
      <4> QED
        BY <1>0, <4>1, <2>1, <2>4 DEF NoneForgotten
    <3> QED
      BY <3>1, <3>2
  <2>8. StoppedForAReason'
    <3>1. j \in 1..(next' - 1)
      BY <1>1, <2>1
    <3> QED
      BY <2>2, <2>3, <3>1 DEF StoppedForAReason
  <2>9. GradedLast'
    BY <1>0, <1>1, <2>1 DEF GradedLast
  <2> QED
    BY <2>5, <2>6, <2>7, <2>8, <2>9 DEF IInv
<1>5. CASE Grade
  <2>1. /\ next = Len(plan) + 1 /\ class' = Evaluate(results) /\ measured' = Measured(results)
        /\ UNCHANGED <<peer, plan, confirm, faults, next, stopped, results>>
    BY <1>1, <1>5 DEF Grade, More
  <2>2. Got' = Got /\ \A n : StuckAt(n)' <=> StuckAt(n)
    BY <2>1 DEF Got, StuckAt
  <2> QED
    BY <1>0, <2>1, <2>2
    DEF IInv, Typed, Accounted, Dialled, Faulted, NoneForgotten, Answered,
        StoppedForAReason, GradedLast
<1>6. CASE UNCHANGED vars
  <2>1. UNCHANGED <<peer, plan, confirm, faults, next, stopped, results, class, measured>>
    BY <1>6 DEF vars
  <2>2. Got' = Got /\ \A n : StuckAt(n)' <=> StuckAt(n)
    BY <2>1 DEF Got, StuckAt
  <2> QED
    BY <1>0, <2>1, <2>2
    DEF IInv, Typed, Accounted, Dialled, Faulted, NoneForgotten, Answered,
        StoppedForAReason, GradedLast
<1> QED
  BY <1>2, <1>3, <1>4, <1>5, <1>6 DEF Next, Reported

\* At every moment of a run, whatever the peer, the plan and the faults.
THEOREM Invariant ==
  Spec => []IInv
<1>1. Init => IInv
  BY IInvInit
<1>2. IInv /\ [Next]_vars => IInv'
  BY IInvStep
<1> QED
  BY <1>1, <1>2, PTL DEF Spec
----------------------------------------------------------------------------
(* What is known when a class is given.                                    *)

\* The results of a pass, without their order.
LEMMA PassOfGot ==
  \A x : Pass(results, x) = {r \in Got : r.profile.pass = x}
BY DEF Pass, Got

\* A result is of a profile that may be dialled, and what went through, or was
\* not disturbed, is the peer's own answer.
LEMMA ResultIs ==
  ASSUME IInv, NEW r \in Got
  PROVE  /\ r \in Result /\ r.profile \in Offered /\ Shaped(r.profile) /\ Named(r.profile)
         /\ Dialled(r) \/ Faulted(r)
         /\ r.ok \/ Sound => Told(peer, r)
         /\ Faulted(r) => ~Sound /\ ~r.ok
         /\ r.ok => Connects(peer, r.profile)
         /\ Sound /\ Connects(peer, r.profile) => r.ok
<1>1. peer \in Endpoints /\ faults \in Nat
  BY GradingAssumption DEF IInv, Typed
<1>2. r \in Result
  BY DEF IInv, Typed, Got
<1>3. r.profile \in Offered /\ r.ok \in BOOLEAN
  BY <1>2 DEF Result
<1>4. Dialled(r) \/ Faulted(r)
  BY DEF IInv, Accounted
<1>5. Faulted(r) => ~Sound /\ ~r.ok
  BY <1>1 DEF Faulted, Sound
<1>6. r.ok \/ Sound => Told(peer, r)
  BY <1>4, <1>5 DEF Dialled
<1>7. Connects(peer, r.profile) <=> KindOf(peer, r.profile) = "ok"
  BY <1>1, <1>3, ConnectsIsOK
<1>8. r.ok => Connects(peer, r.profile)
  BY <1>6, <1>7 DEF Told
<1>9. Sound /\ Connects(peer, r.profile) => r.ok
  BY <1>6, <1>7 DEF Told
<1> QED
  BY <1>2, <1>3, <1>4, <1>5, <1>6, <1>8, <1>9, NameAndPass

\* When the class is given, everything but a size after a failed one has been
\* asked.
LEMMA AllAsked ==
  ASSUME IInv, class # "none"
  PROVE  /\ class = Evaluate(results) /\ measured = Measured(results)
         /\ DOMAIN plan = 1..Len(plan) /\ Len(plan) \in Nat
         /\ \A i \in DOMAIN plan : ~IsSizeProbe(plan[i]) => Answered(plan[i])
         /\ \A i \in DOMAIN plan : IsSizeProbe(plan[i]) =>
              Answered(plan[i]) \/ \E j \in 1..(i - 1) : StuckAt(j)
<1>1. /\ next = Len(plan) + 1 /\ class = Evaluate(results) /\ measured = Measured(results)
      /\ DOMAIN plan = 1..Len(plan) /\ Len(plan) \in Nat
  BY DEF IInv, GradedLast, Typed, Assembled
<1>2. 1..(next - 1) = DOMAIN plan
  BY <1>1
<1> QED
  BY <1>1, <1>2 DEF IInv, NoneForgotten

\* Some client has been asked.
LEMMA SomeClient ==
  ASSUME IInv, class # "none"
  PROVE  \E r \in Got : r.profile.pass = "client"
<1>1. PICK i \in DOMAIN plan : plan[i].pass = "client"
  BY DEF IInv, Typed, Assembled
<1>2. Answered(plan[i])
  BY <1>1, AllAsked DEF IsSizeProbe
<1> QED
  BY <1>1, <1>2 DEF Answered

\* What each grade rests on.
LEMMA GradesRest ==
  ASSUME NEW client, NEW c, c = Graded(client)
  PROVE  LET has(name, A(_)) == \E r \in client : r.profile.name = name /\ A(r)
             Works(r)  == r.ok
             Old(r)    == r.ok /\ r.version = 12
             Fails(r)  == ~r.ok
             Cut(r)    == Abrupt(r.kind)
             PQ(r)     == r.ok /\ r.pq
         IN  /\ c \in Grades
             /\ c = "pq-intolerant" =>
                  has("classic", Works) /\ has("pq-preferred", Cut)
             /\ has("classic", Works) /\ ~has("classic", Old) /\ has("pq-preferred", Fails)
                /\ has("pq-preferred", Cut) => c = "pq-intolerant"
             /\ c = "pq-refusing" =>
                  has("classic", Works) /\ has("pq-preferred", Fails)
                  /\ ~has("pq-preferred", Cut)
             /\ c = "pq-ready" => has("pq-only", Works)
             /\ c = "pq-capable" => has("pq-preferred", PQ)
BY DEF Graded, Grades

\* Which finding speaks of what.
LEMMA FindingsSpeak ==
  ASSUME NEW f \in measured, measured = Measured(results),
         \A r \in Got : r \in Result
  PROVE  LET client == Pass(results, "client")
             groups == Pass(results, "group")
         IN  /\ f.check = "handshake" => \E r \in client : f = handshakeFinding(r)
             /\ f.check = "groups" => f \in groupsFinding(groups)
             /\ f.check = "hybrid" => otherHybrid(groups)
             /\ f.check = "client-auth" => anyClientCertRequested(client)
             /\ f.check = "tls-version" => versionFinding(client) # {}
             /\ f.check = "size-limit" => f \in sizeFinding(Pass(results, "size"))
             /\ f.check = "ech" =>
                  \E off, on \in Got : /\ off.profile.name = "ech:off"
                                       /\ on.profile.name = "ech:on"
                                       /\ f \in echFinding(off, on)
             /\ f.status \in Status
<1> DEFINE client == Pass(results, "client")
           groups == Pass(results, "group")
           sizes == Pass(results, "size")
           of(name) == {r \in Got : r.profile.name = name}
           attempts == {handshakeFinding(r) : r \in client}
           paired == alpnPair(of("pq-preferred"), Pass(results, "alpn"))
           halved == echPair(of("ech:off"), of("ech:on"))
<1>1. Measured(results) = attempts \cup groupsFinding(groups)
        \cup hybridFinding(client, groups) \cup clientAuthFinding(client)
        \cup versionFinding(client) \cup sizeFinding(sizes) \cup paired \cup halved
  BY DEF Measured, Got
<1> USE DEF Status
<1>2. CASE f \in attempts
  <2>1. PICK r \in client : f = handshakeFinding(r)
    BY <1>2
  <2>2. f.check = "handshake" /\ f.status \in {"OK", "WARN"}
    BY <2>1 DEF handshakeFinding
  <2> QED
    BY <2>1, <2>2
<1>3. CASE f \in groupsFinding(groups)
  <2>1. f.check = "groups" /\ f.status \in {"OK", "WARN"}
    BY <1>3 DEF groupsFinding
  <2> QED
    BY <1>3, <2>1
<1>4. CASE f \in hybridFinding(client, groups)
  <2>1. f.check = "hybrid" /\ f.status = "WARN" /\ otherHybrid(groups)
    BY <1>4 DEF hybridFinding
  <2> QED
    BY <2>1
<1>5. CASE f \in clientAuthFinding(client)
  <2>1. f.check = "client-auth" /\ f.status \in {"OK", "WARN"}
        /\ anyClientCertRequested(client)
    BY <1>5 DEF clientAuthFinding
  <2> QED
    BY <2>1
<1>6. CASE f \in versionFinding(client)
  <2>1. f.check = "tls-version" /\ f.status = "WARN"
    BY <1>6 DEF versionFinding
  <2> QED
    BY <1>6, <2>1
<1>7. CASE f \in sizeFinding(sizes)
  <2>1. f.check = "size-limit" /\ f.status \in {"BAD", "WARN", "OK"}
    BY <1>7 DEF sizeFinding
  <2> QED
    BY <1>7, <2>1
<1>8. CASE f \in paired
  <2>1. PICK bare \in Got, listed \in Pass(results, "alpn") : f \in alpnFinding(bare, listed)
    BY <1>8 DEF alpnPair
  <2>2. bare.ok \in BOOLEAN /\ listed.ok \in BOOLEAN
    BY <2>1, PassOfGot DEF Result
  <2>3. f.check = "alpn" /\ f.status \in {"BAD", "WARN", "OK"}
    BY <2>1, <2>2 DEF alpnFinding
  <2> QED
    BY <2>3
<1>9. CASE f \in halved
  <2>1. PICK off \in of("ech:off"), on \in of("ech:on") : f \in echFinding(off, on)
    BY <1>9 DEF echPair
  <2>2. /\ on.ok \in BOOLEAN /\ on.echAccepted \in BOOLEAN /\ cutOff(off, on) \in BOOLEAN
    BY <2>1 DEF Result, cutOff, Abrupt
  <2>3. f.check = "ech" /\ f.status \in {"WARN", "OK"}
    <3>1. CASE on.ok /\ on.echAccepted
      BY <2>1, <2>2, <3>1 DEF echFinding
    <3>2. CASE on.ok /\ ~on.echAccepted
      BY <2>1, <2>2, <3>2 DEF echFinding
    <3>3. CASE ~on.ok /\ cutOff(off, on)
      <4>1. echFinding(off, on) =
              {[check |-> "ech", status |-> "WARN", event |-> "cut off",
                bytes |-> IF on.hello > off.hello THEN on.hello - off.hello ELSE 0]}
        BY <3>3 DEF echFinding
      <4> DEFINE cost == IF on.hello > off.hello THEN on.hello - off.hello ELSE 0
      <4>2. f = [check |-> "ech", status |-> "WARN", event |-> "cut off", bytes |-> cost]
        BY <2>1, <4>1
      <4> HIDE DEF cost, of
      <4> QED
        BY <4>2
    <3>4. CASE ~on.ok /\ ~cutOff(off, on)
      BY <2>1, <2>2, <3>4 DEF echFinding
    <3> QED
      BY <2>2, <3>1, <3>2, <3>3, <3>4
  <2>4. /\ off \in Got /\ off.profile.name = "ech:off"
        /\ on \in Got /\ on.profile.name = "ech:on"
    BY <2>1
  <2> QED
    BY <2>1, <2>3, <2>4
<1>10. \/ f \in attempts \/ f \in groupsFinding(groups)
       \/ f \in hybridFinding(client, groups) \/ f \in clientAuthFinding(client)
       \/ f \in versionFinding(client) \/ f \in sizeFinding(sizes)
       \/ f \in paired \/ f \in halved
  <2> HIDE DEF client, groups, sizes, attempts, paired, halved
  <2> QED
    BY <1>1
<1> QED
  BY <1>2, <1>3, <1>4, <1>5, <1>6, <1>7, <1>8, <1>9, <1>10
----------------------------------------------------------------------------
(* The class and the findings are true of the peer.                        *)

LEMMA TypeIsOK ==
  IInv => TypeOK
<1> SUFFICES ASSUME IInv
             PROVE  TypeOK
  OBVIOUS
<1>1. /\ faults \in 0..MaxFaults /\ next \in 1..Len(plan) + 1 /\ stopped \in BOOLEAN
  BY DEF IInv, Typed
<1>2. class \in Class \cup {"none"}
  <2>1. Graded(Pass(results, "client")) \in Class
    BY GradesRest DEF Class
  <2>2. Ungraded(Pass(results, "client"), Pass(results, "group")) \in Class
    BY DEF Ungraded, Class
  <2> QED
    BY <2>1, <2>2 DEF IInv, GradedLast, Evaluate
<1>3. ASSUME NEW f \in measured
      PROVE  f.status \in Status
  <2>1. measured = Measured(results)
    BY <1>3 DEF IInv, GradedLast
  <2> QED
    BY <2>1, ResultIs, FindingsSpeak
<1>4. ASSUME NEW i \in DOMAIN results
      PROVE  results[i].kind \in Kind /\ (results[i].ok <=> results[i].kind = "ok")
  <2>1. results[i] \in Got
    BY DEF Got
  <2>2. results[i].kind \in Kind /\ (Dialled(results[i]) \/ Faulted(results[i]))
    BY <2>1, ResultIs DEF Result
  <2> QED
    BY <2>2 DEF Dialled, Faulted, Told
<1> QED
  BY <1>1, <1>2, <1>3, <1>4 DEF TypeOK

LEMMA UnreachableIsTrue ==
  IInv => UnreachableIsNotThePeer
<1> SUFFICES ASSUME IInv, class # "none", Sound
             PROVE  /\ peer.up \in {"closed", "noroute", "noname"} => class = "unreachable"
                    /\ peer.up = "listening" => class # "unreachable"
  BY DEF UnreachableIsNotThePeer
<1> DEFINE client == Pass(results, "client")
           groups == Pass(results, "group")
<1>1. class = IF anyOK(client) THEN Graded(client) ELSE Ungraded(client, groups)
  BY AllAsked DEF Evaluate
<1>2. client # {} /\ client \subseteq Got
  BY SomeClient, PassOfGot
<1>3. \A r \in client : r.kind \in Absent <=> peer.up \in {"closed", "noroute", "noname"}
  <2>1. ASSUME NEW r \in client
        PROVE  r.profile \in Offered /\ r.kind = KindOf(peer, r.profile)
    BY <1>2, ResultIs DEF Told
  <2> QED
    BY <2>1, WhatKindsSay DEF IInv, Typed
<1>4. \A r \in client : r.kind \in Absent => ~r.ok
  BY <1>2, ResultIs DEF Told, Absent
<1>5. CASE peer.up \in {"closed", "noroute", "noname"}
  BY <1>1, <1>2, <1>3, <1>4, <1>5 DEF anyOK, Ungraded, allKinds
<1>6. CASE peer.up \notin {"closed", "noroute", "noname"}
  <2>1. Ungraded(client, groups) # "unreachable"
    BY <1>2, <1>3, <1>6 DEF Ungraded, allKinds
  <2>2. Graded(client) # "unreachable"
    BY GradesRest DEF Grades
  <2> QED
    BY <1>1, <1>6, <2>1, <2>2
<1> QED
  BY <1>5, <1>6

\* A group probe that connects does so in TLS 1.3, in its own group.
LEMMA GroupConnects ==
  ASSUME NEW pe \in Endpoints, NEW g \in Group, Connects(pe, GroupProbe(g))
  PROVE  13 \in pe.versions /\ Common(pe, GroupProbe(g)) = {g} /\ g \in pe.groups
         /\ pe.up = "listening"
<1>1. GroupProbe(g) \in Offered
  BY DEF Offered
<1>2. Common(pe, GroupProbe(g)) # {} /\ pe.up = "listening"
  BY <1>1, ConnectsIsOK, WhatKindsSay
<1>3. GroupProbe(g).groups = {g} /\ GroupProbe(g).versions = {13}
  BY DEF GroupProbe
<1>4. Agreed(pe, GroupProbe(g)) \in {13, 0} /\ (Agreed(pe, GroupProbe(g)) = 13 => 13 \in pe.versions)
  BY <1>3 DEF Agreed
<1>5. Common(pe, GroupProbe(g)) \subseteq {g} \cap pe.groups
  BY <1>3 DEF Common
<1>6. Agreed(pe, GroupProbe(g)) = 13
  BY <1>2, <1>4 DEF Common
<1> QED
  BY <1>2, <1>4, <1>5, <1>6

LEMMA BrokenIsTrue ==
  IInv => BrokenHasNoExcuse
<1> SUFFICES ASSUME IInv, class = "tls-broken", Sound
             PROVE  /\ \A i \in DOMAIN plan :
                         plan[i].pass = "client" => ~Connects(peer, plan[i])
                    /\ \A g \in Hybrid \ {"X25519MLKEM768"} :
                         Dials(GroupProbe(g)) => ~Connects(peer, GroupProbe(g))
  BY DEF BrokenHasNoExcuse
<1> DEFINE client == Pass(results, "client")
           groups == Pass(results, "group")
<1>1. class = IF anyOK(client) THEN Graded(client) ELSE Ungraded(client, groups)
  BY AllAsked DEF Evaluate
<1>2. ~anyOK(client) /\ ~otherHybrid(groups)
  <2>1. Graded(client) # "tls-broken"
    BY GradesRest DEF Grades
  <2> QED
    BY <1>1, <2>1 DEF Ungraded
<1>3. ASSUME NEW i \in DOMAIN plan, plan[i].pass = "client"
      PROVE  ~Connects(peer, plan[i])
  <2>1. Answered(plan[i])
    BY <1>3, AllAsked DEF IsSizeProbe
  <2>2. PICK r \in Got : r.profile = plan[i]
    BY <2>1 DEF Answered
  <2>3. r \in client /\ ~r.ok
    BY <1>2, <1>3, <2>2, PassOfGot DEF anyOK
  <2> QED
    BY <2>2, <2>3, ResultIs
<1>4. ASSUME NEW g \in Hybrid \ {"X25519MLKEM768"}, Dials(GroupProbe(g)),
             Connects(peer, GroupProbe(g))
      PROVE  FALSE
  <2>1. GroupProbe(g).pass = "group" /\ GroupProbe(g).name = g
    BY DEF GroupProbe
  <2>2. Answered(GroupProbe(g))
    BY <1>4, <2>1, AllAsked DEF IsSizeProbe, Dials
  <2>3. PICK r \in Got : r.profile = GroupProbe(g)
    BY <2>2 DEF Answered
  <2>4. r \in groups /\ r.ok /\ Told(peer, r)
    BY <1>4, <2>1, <2>3, ResultIs, PassOfGot
  <2>5. Common(peer, GroupProbe(g)) = {g}
    BY <1>4, GroupConnects DEF Group, IInv, Typed
  <2>6. r.pq
    BY <2>3, <2>4, <2>5 DEF Told, IsPQ
  <2> QED
    BY <1>2, <2>1, <2>3, <2>4, <2>6 DEF otherHybrid
<1> QED
  BY <1>3, <1>4

\* The state is well formed, and a class that says nothing worked says so of
\* the right party, for every peer, plan and pattern of faults: Evaluate's
\* "unreachable" and "tls-broken" are earned.
THEOREM NothingWorkedIsTrue ==
  Spec => []GradeInv
<1>1. IInv => GradeInv
  BY TypeIsOK, UnreachableIsTrue, BrokenIsTrue DEF GradeInv
<1> QED
  BY <1>1, Invariant, PTL
\* The clients of the class may be dialled.
LEMMA ClientsOffered ==
  {classic, pqPreferred, pqOnly, tls13Only, tls12} \subseteq Offered
<1>1. DOMAIN All = 1..5
  BY DEF All
<1>2. \A i \in 1..5 : All[i] \in Offered
  BY <1>1 DEF Offered
<1>3. /\ All[1] = classic /\ All[2] = pqPreferred /\ All[3] = pqOnly
      /\ All[4] = tls13Only /\ All[5] = tls12
  BY DEF All
<1> QED
  BY <1>2, <1>3

\* What was said of a named client was said of that client.
LEMMA ClientNamed ==
  ASSUME IInv, NEW r \in Pass(results, "client")
  PROVE  /\ r \in Got /\ r.profile.pass = "client"
         /\ r.profile.name = "classic"      => r.profile = classic
         /\ r.profile.name = "pq-preferred" => r.profile = pqPreferred
         /\ r.profile.name = "pq-only"      => r.profile = pqOnly
         /\ r.profile.name = "tls13-only"   => r.profile = tls13Only
         /\ r.profile.name = "tls12"        => r.profile = tls12
<1>1. r \in Got /\ r.profile.pass = "client"
  BY PassOfGot
<1> QED
  BY <1>1, ResultIs DEF Named

\* The class is a grade only when a client got through.
LEMMA GradeOrReason ==
  ASSUME IInv, class # "none"
  PROVE  LET client == Pass(results, "client")
             groups == Pass(results, "group")
         IN  /\ anyOK(client) => class = Graded(client)
             /\ ~anyOK(client) => class = Ungraded(client, groups)
             /\ class \in Grades => anyOK(client)
             /\ class \notin Grades => ~anyOK(client)
<1> DEFINE client == Pass(results, "client")
           groups == Pass(results, "group")
<1>1. class = IF anyOK(client) THEN Graded(client) ELSE Ungraded(client, groups)
  BY AllAsked DEF Evaluate
<1>2. Graded(client) \in Grades
  BY GradesRest
<1>3. Ungraded(client, groups) \notin Grades
  BY DEF Ungraded, Grades
<1> QED
  BY <1>1, <1>2, <1>3

\* A client that gets through to a listening peer, for those that follow.
LEMMA WorksMeans ==
  ASSUME NEW pe \in Endpoints, NEW p \in Offered, Connects(pe, p)
  PROVE  /\ pe.up = "listening" /\ p.size <= pe.limit /\ ~Refuses(pe, p)
         /\ Common(pe, p) # {} /\ ~(Agreed(pe, p) = 12 /\ pe.mtls)
BY ConnectsIsOK, WhatKindsSay

LEMMA WallIsReal ==
  IInv => WallsAreReal
<1> SUFFICES ASSUME IInv, class = "pq-intolerant", Sound
             PROVE  Connects(peer, classic) /\ CutBySize(pqPreferred)
  BY DEF WallsAreReal
<1> DEFINE client == Pass(results, "client")
<1>1. class = Graded(client)
  BY GradeOrReason DEF Grades
<1>2. /\ \E r \in client : r.profile.name = "classic" /\ r.ok
      /\ \E r \in client : r.profile.name = "pq-preferred" /\ Abrupt(r.kind)
  BY <1>1, GradesRest
<1>3. PICK b \in client : b.profile.name = "classic" /\ b.ok
  BY <1>2
<1>4. PICK r \in client : r.profile.name = "pq-preferred" /\ Abrupt(r.kind)
  BY <1>2
<1>5. Connects(peer, classic)
  BY <1>3, ClientNamed, ResultIs
<1>6. Abrupt(KindOf(peer, pqPreferred))
  BY <1>4, ClientNamed, ResultIs DEF Told
<1>7. peer.up = "listening"
  BY <1>5, WorksMeans, ClientsOffered DEF IInv, Typed
<1> QED
  BY <1>5, <1>6, <1>7, WhatKindsSay, ClientsOffered DEF CutBySize, IInv, Typed

LEMMA WallIsFound ==
  IInv => WallsAreFound
<1> SUFFICES ASSUME IInv, class # "none", Sound, Dials(classic), Dials(pqPreferred),
                    Connects(peer, classic), 13 \in peer.versions,
                    CutBySize(pqPreferred)
             PROVE  class = "pq-intolerant"
  BY DEF WallsAreFound
<1> DEFINE client == Pass(results, "client")
<1>0. peer \in Endpoints
  BY DEF IInv, Typed
<1>1. classic.pass = "client" /\ pqPreferred.pass = "client"
      /\ classic.name = "classic" /\ pqPreferred.name = "pq-preferred"
      /\ classic.versions = {12, 13}
  BY Clients
<1>2. Answered(classic) /\ Answered(pqPreferred)
  BY <1>1, AllAsked DEF Dials, IsSizeProbe
<1>3. PICK b \in Got : b.profile = classic
  BY <1>2 DEF Answered
<1>4. PICK r \in Got : r.profile = pqPreferred
  BY <1>2 DEF Answered
<1>5. b \in client /\ b.ok /\ r \in client
  BY <1>1, <1>3, <1>4, ResultIs, PassOfGot
<1>6. Abrupt(KindOf(peer, pqPreferred))
  BY <1>0, WhatKindsSay, ClientsOffered DEF CutBySize
<1>7. Abrupt(r.kind) /\ ~r.ok
  BY <1>4, <1>6, ResultIs DEF Told, Abrupt
<1>8. Agreed(peer, classic) = 13
  BY <1>1 DEF Agreed
<1>9. ASSUME NEW s \in client, s.profile.name = "classic", s.ok
      PROVE  s.version = 13
  BY <1>8, <1>9, ClientNamed, ResultIs DEF Told
<1>10. anyOK(client)
  BY <1>5 DEF anyOK
<1>11. class = Graded(client)
  BY <1>10, GradeOrReason
<1>12. /\ \E s \in client : s.profile.name = "classic" /\ s.ok
       /\ ~ \E s \in client : s.profile.name = "classic" /\ s.ok /\ s.version = 12
       /\ \E s \in client : s.profile.name = "pq-preferred" /\ ~s.ok
       /\ \E s \in client : s.profile.name = "pq-preferred" /\ Abrupt(s.kind)
  BY <1>1, <1>3, <1>4, <1>5, <1>7, <1>9
<1> QED
  BY <1>11, <1>12, GradesRest

LEMMA RefusalIsThePeers ==
  IInv => RefusalsAreThePeers
<1> SUFFICES ASSUME IInv, class = "pq-refusing", Sound
             PROVE  peer.up = "listening" /\ peer.declines /\ ~CutBySize(pqPreferred)
  BY DEF RefusalsAreThePeers
<1> DEFINE client == Pass(results, "client")
<1>0. peer \in Endpoints /\ classic \in Offered /\ pqPreferred \in Offered
  BY ClientsOffered DEF IInv, Typed
<1>1. class = Graded(client)
  BY GradeOrReason DEF Grades
<1>2. /\ \E r \in client : r.profile.name = "classic" /\ r.ok
      /\ \E r \in client : r.profile.name = "pq-preferred" /\ ~r.ok
      /\ ~ \E r \in client : r.profile.name = "pq-preferred" /\ Abrupt(r.kind)
  BY <1>1, GradesRest
<1>3. PICK b \in client : b.profile.name = "classic" /\ b.ok
  BY <1>2
<1>4. PICK r \in client : r.profile.name = "pq-preferred" /\ ~r.ok /\ ~Abrupt(r.kind)
  BY <1>2
<1>5. Connects(peer, classic)
  BY <1>3, ClientNamed, ResultIs
<1>6. r.profile = pqPreferred /\ r.kind = KindOf(peer, pqPreferred) /\ r.kind # "ok"
  BY <1>4, ClientNamed, ResultIs DEF Told
<1>7. /\ peer.up = "listening" /\ Common(peer, classic) # {}
      /\ ~(Agreed(peer, classic) = 12 /\ peer.mtls)
  BY <1>0, <1>5, WorksMeans
<1>8. ~(pqPreferred.size > peer.limit)
  BY <1>0, <1>4, <1>6, <1>7, WhatKindsSay
<1>9. Agreed(peer, pqPreferred) = Agreed(peer, classic)
  BY Clients DEF Agreed
<1>10. Common(peer, pqPreferred) # {}
  <2>1. classic.groups \subseteq pqPreferred.groups
    BY Clients DEF Browser
  <2> QED
    BY <1>7, <1>9, <2>1 DEF Common
<1>11. pqPreferred # ECHOn /\ pqPreferred.pass = "client"
  BY Clients, Additions
<1>12. Refuses(peer, pqPreferred)
  BY <1>6, <1>7, <1>8, <1>9, <1>11 DEF KindOf
<1> QED
  BY <1>7, <1>8, <1>10, <1>11, <1>12 DEF Refuses, CutBySize

\* Nobody answers what ends abruptly, and the other way round.
LEMMA SilentIsAbrupt ==
  ASSUME IInv, NEW p \in Offered
  PROVE  Silent(p) <=> Abrupt(KindOf(peer, p))
BY WhatKindsSay DEF Silent, CutBySize, IInv, Typed

LEMMA AttemptIsTrue ==
  IInv => AttemptsAreTrue
<1> SUFFICES ASSUME IInv, NEW f \in measured, f.check = "handshake"
             PROVE  /\ f.attempt = "twice"   => Silent(f.profile)
                    /\ f.attempt = "flapped" => faults > 0 /\ Connects(peer, f.profile)
                    /\ (f.attempt = "once" /\ f.status = "WARN" /\ confirm)
                         => ~Silent(f.profile)
  BY DEF AttemptsAreTrue
<1>1. measured = Measured(results)
  BY DEF IInv, GradedLast
<1>2. PICK r \in Pass(results, "client") : f = handshakeFinding(r)
  BY <1>1, ResultIs, FindingsSpeak
<1>3. r \in Got
  BY <1>2, PassOfGot
<1>4. /\ f.profile = r.profile /\ f.attempt = r.attempt
      /\ f.status = "WARN" => ~r.ok \/ r.attempt = "flapped"
  BY <1>2 DEF handshakeFinding
<1>5. r.profile \in Offered /\ (Dialled(r) \/ Faulted(r))
  BY <1>3, ResultIs
<1>6. Dialled(r) => (Silent(r.profile) <=> Abrupt(r.kind))
  BY <1>5, SilentIsAbrupt DEF Dialled, Told
<1>7. f.attempt = "twice" => Silent(f.profile)
  BY <1>4, <1>5, <1>6 DEF Dialled, Faulted
<1>8. f.attempt = "flapped" => faults > 0 /\ Connects(peer, f.profile)
  BY <1>3, <1>4, <1>5, ResultIs DEF Dialled, Faulted
<1>9. f.attempt = "once" /\ confirm => ~Silent(f.profile)
  BY <1>4, <1>5, <1>6 DEF Dialled, Faulted
<1> QED
  BY <1>7, <1>8, <1>9

LEMMA RefusalIsApart ==
  IInv => RefusalsAreApart
<1> SUFFICES ASSUME IInv, NEW f \in measured, f.check = "groups", Sound
             PROVE  /\ \A g \in f.cutOff  : Silent(GroupProbe(g))
                    /\ \A g \in f.byAlert : ~Silent(GroupProbe(g))
  BY DEF RefusalsAreApart
<1> DEFINE groups == Pass(results, "group")
<1>1. measured = Measured(results)
  BY DEF IInv, GradedLast
<1>2. f \in groupsFinding(groups)
  BY <1>1, ResultIs, FindingsSpeak
<1>3. /\ f.cutOff = {r.profile.name : r \in {s \in groups : Abrupt(s.kind)}}
      /\ \A g \in f.byAlert : \E r \in groups : r.profile.name = g /\ ~Abrupt(r.kind)
  BY <1>2 DEF groupsFinding
<1>4. ASSUME NEW r \in groups
      PROVE  Silent(GroupProbe(r.profile.name)) <=> Abrupt(r.kind)
  <2>1. r \in Got /\ r.profile.pass = "group"
    BY PassOfGot
  <2>2. r.profile = GroupProbe(r.profile.name) /\ r.profile \in Offered
        /\ r.kind = KindOf(peer, r.profile)
    BY <2>1, ResultIs DEF Named, Told
  <2> QED
    BY <2>2, SilentIsAbrupt
<1> QED
  BY <1>3, <1>4

\* "A wall" is said of the paths that have one and "refuses" of the peers that
\* do, of a class, of one attempt and of one group: no fault, no path and no
\* policy is mistaken for another, whatever the peer and the plan.
THEOREM AWallIsAWall ==
  Spec => []WallsAreTrue
<1>1. IInv => WallsAreTrue
  BY WallIsReal, WallIsFound, RefusalIsThePeers, AttemptIsTrue, RefusalIsApart
  DEF WallsAreTrue
<1> QED
  BY <1>1, Invariant, PTL
\* A hybrid no browser sends, seen by a probe, is there.
LEMMA OtherHybridIsThere ==
  ASSUME IInv, otherHybrid(Pass(results, "group"))
  PROVE  13 \in peer.versions /\ peer.groups \cap (Hybrid \ Browser) # {}
<1>1. PICK r \in Pass(results, "group") :
        r.ok /\ r.pq /\ r.profile.name # "X25519MLKEM768"
  BY DEF otherHybrid
<1>2. r \in Got /\ r.profile.pass = "group"
  BY PassOfGot
<1>3. PICK g : g = r.profile.name
  OBVIOUS
<1>4. /\ g \in Group /\ r.profile = GroupProbe(g) /\ Told(peer, r)
      /\ Connects(peer, GroupProbe(g))
  BY <1>1, <1>2, <1>3, ResultIs DEF Named
<1>5. 13 \in peer.versions /\ g \in peer.groups /\ Common(peer, GroupProbe(g)) = {g}
  BY <1>4, GroupConnects DEF IInv, Typed
<1>6. IsPQ(g)
  BY <1>1, <1>4, <1>5 DEF Told
<1>7. g \in Hybrid \ Browser
  BY <1>1, <1>3, <1>6 DEF IsPQ, Browser, Hybrid
<1> QED
  BY <1>5, <1>7

\* Findings come with a class.
LEMMA FoundIsGraded ==
  ASSUME IInv, NEW f \in measured
  PROVE  measured = Measured(results) /\ class # "none"
<1>1. Graded(Pass(results, "client")) # "none"
  BY GradesRest DEF Grades
<1>2. Ungraded(Pass(results, "client"), Pass(results, "group")) # "none"
  BY DEF Ungraded
<1> QED
  BY <1>1, <1>2 DEF IInv, GradedLast, Evaluate

\* What hybridFinding finds is among the findings.
LEMMA HybridIsMeasured ==
  ASSUME NEW b,
         hybridFinding(Pass(results, "client"), Pass(results, "group")) =
           {[check |-> "hybrid", status |-> "WARN", browsersToo |-> b]}
  PROVE  \E h \in Measured(results) : h.check = "hybrid"
<1> DEFINE h == [check |-> "hybrid", status |-> "WARN", browsersToo |-> b]
<1>1. h.check = "hybrid"
  OBVIOUS
<1> HIDE DEF h
<1>2. hybridFinding(Pass(results, "client"), Pass(results, "group")) = {h}
  BY DEF h
<1>3. h \in Measured(results)
  BY <1>2 DEF Measured
<1> QED
  BY <1>1, <1>3

LEMMA MapIsTrue ==
  ASSUME IInv, NEW f \in measured, f.check = "groups"
  PROVE  /\ \A g \in f.accepted : Connects(peer, GroupProbe(g))
         /\ Sound => \A g \in Group \ f.accepted : ~Connects(peer, GroupProbe(g))
         /\ (f.accepted \cap (Hybrid \ Browser) # {}) =>
              class = "mtls-required" \/ \E h \in measured : h.check = "hybrid"
<1> DEFINE client == Pass(results, "client")
           groups == Pass(results, "group")
<1>0. peer \in Endpoints
  BY DEF IInv, Typed
<1>1. measured = Measured(results) /\ class # "none"
  BY FoundIsGraded
<1>2. f \in groupsFinding(groups)
  BY <1>1, ResultIs, FindingsSpeak
<1>3. groups # {} /\ f.accepted = {r.profile.name : r \in {s \in groups : s.ok}}
  BY <1>2 DEF groupsFinding
<1>4. ASSUME NEW r \in groups
      PROVE  /\ r \in Got /\ r.profile.name \in Group
             /\ r.profile = GroupProbe(r.profile.name)
  BY PassOfGot, ResultIs DEF Named
<1>5. \A g \in f.accepted : g \in Group /\ Connects(peer, GroupProbe(g))
  <2>1. ASSUME NEW r \in groups, r.ok
        PROVE  r.profile.name \in Group /\ Connects(peer, GroupProbe(r.profile.name))
    BY <1>4, <2>1, ResultIs
  <2> QED
    BY <1>3, <2>1
<1>6. ASSUME Sound, NEW g \in Group, Connects(peer, GroupProbe(g))
      PROVE  g \in f.accepted
  <2>1. PICK s \in groups : TRUE
    BY <1>3
  <2>2. s \in Got /\ s.profile.pass = "group"
    BY PassOfGot
  <2>3. \E i \in DOMAIN plan : plan[i].pass = "group"
    BY <2>2 DEF IInv, Accounted
  <2>4. PICK i \in DOMAIN plan : plan[i] = GroupProbe(g)
    BY <2>3 DEF IInv, Typed, Assembled
  <2>5. GroupProbe(g).pass = "group" /\ GroupProbe(g).name = g
    BY DEF GroupProbe
  <2>6. Answered(GroupProbe(g))
    BY <1>1, <2>4, <2>5, AllAsked DEF IsSizeProbe
  <2>7. PICK r \in Got : r.profile = GroupProbe(g)
    BY <2>6 DEF Answered
  <2>8. r.ok /\ r \in groups /\ r.profile.name = g
    BY <1>6, <2>5, <2>7, ResultIs, PassOfGot
  <2> QED
    BY <1>3, <2>8
<1>7. ASSUME f.accepted \cap (Hybrid \ Browser) # {}, class # "mtls-required"
      PROVE  \E h \in measured : h.check = "hybrid"
  <2>1. PICK r \in groups : r.ok /\ r.profile.name \in Hybrid \ Browser
    BY <1>3, <1>7
  <2>2. PICK g : g = r.profile.name
    OBVIOUS
  <2>3. r \in Got /\ g \in Group /\ r.profile = GroupProbe(g) /\ g \in Hybrid \ Browser
    BY <1>4, <2>1, <2>2
  <2>4. Told(peer, r) /\ Connects(peer, GroupProbe(g))
    BY <2>1, <2>3, ResultIs
  <2>5. Common(peer, GroupProbe(g)) = {g} /\ peer.up = "listening"
    BY <1>0, <2>3, <2>4, GroupConnects
  <2>6. r.pq
    BY <2>1, <2>3, <2>4, <2>5 DEF Told, IsPQ
  <2>7. g # "X25519MLKEM768"
    BY <2>3 DEF Browser
  <2>8. otherHybrid(groups)
    BY <2>1, <2>2, <2>6, <2>7 DEF otherHybrid
  <2>9. CASE anyOK(client)
    <3>1. hybridFinding(client, groups) =
            {[check |-> "hybrid", status |-> "WARN", browsersToo |-> anyOK(client)]}
      BY <2>8, <2>9 DEF hybridFinding
    <3> QED
      BY <1>1, <3>1, HybridIsMeasured
  <2>10. CASE ~anyOK(client)
    <3>1. class = Ungraded(client, groups)
      BY <1>1, <2>10, GradeOrReason
    <3>2. PICK s \in client : TRUE
      BY <1>1, SomeClient, PassOfGot
    <3>3. s \in Got
      BY PassOfGot
    <3>4. s.kind \notin Absent \cup {"starttls"}
      <4>1. CASE Dialled(s)
        <5>1. s.kind = KindOf(peer, s.profile) /\ s.profile \in Offered
          BY <3>3, <4>1, ResultIs DEF Dialled, Told
        <5> QED
          BY <1>0, <2>5, <5>1, WhatKindsSay
      <4>2. CASE Faulted(s)
        BY <4>2 DEF Faulted, Absent
      <4> QED
        BY <3>3, <4>1, <4>2, ResultIs
    <3>5. ~allKinds(client, Absent) /\ ~allKinds(client, {"starttls"})
      BY <3>2, <3>4 DEF allKinds
    <3>6. Ungraded(client, groups) = "pq-other-hybrid"
      BY <1>7, <2>8, <3>1, <3>5 DEF Ungraded
    <3>7. hybridFinding(client, groups) =
            {[check |-> "hybrid", status |-> "WARN", browsersToo |-> anyOK(client)]}
      BY <2>8, <3>6 DEF hybridFinding
    <3> QED
      BY <1>1, <3>7, HybridIsMeasured
  <2> QED
    BY <2>9, <2>10
<1> QED
  BY <1>5, <1>6, <1>7

LEMMA VersionIsMissing ==
  ASSUME IInv, Sound, versionFinding(Pass(results, "client")) # {}
  PROVE  13 \notin peer.versions
<1> DEFINE client == Pass(results, "client")
<1>0. /\ peer \in Endpoints /\ tls13Only \in Offered /\ tls12 \in Offered
  BY ClientsOffered DEF IInv, Typed
<1>1. /\ \E r \in client : r.profile.name = "tls13-only" /\ r.ok = FALSE
      /\ \E r \in client : r.profile.name = "tls12" /\ r.ok = TRUE
  BY DEF versionFinding
<1>2. Connects(peer, tls12) /\ ~Connects(peer, tls13Only)
  BY <1>1, ClientNamed, ResultIs
<1>3. /\ peer.up = "listening" /\ tls12.size <= peer.limit
      /\ Common(peer, tls12) # {}
  BY <1>0, <1>2, WorksMeans
<1> SUFFICES ASSUME 13 \in peer.versions
             PROVE  FALSE
  OBVIOUS
<1>4. Agreed(peer, tls13Only) = 13
  BY Clients DEF Agreed
<1>5. Common(peer, tls13Only) # {}
  <2>1. tls12.groups = tls13Only.groups
    BY Clients
  <2> QED
    BY <1>3, <1>4, <2>1 DEF Common
<1>6. /\ tls13Only.groups \cap Hybrid = {} /\ tls13Only.pass = "client"
      /\ tls13Only.size = tls12.size /\ tls13Only.name # "ech:on"
  BY Clients DEF Hybrid
<1>7. ~Refuses(peer, tls13Only) /\ tls13Only # ECHOn
  BY <1>5, <1>6, Additions DEF Refuses
<1>8. peer.limit \in Nat /\ tls12.size \in Nat
  BY <1>0, EndpointFields, Clients
<1>9. KindOf(peer, tls13Only) = "ok"
  BY <1>3, <1>4, <1>6, <1>7, <1>8 DEF KindOf
<1> QED
  BY <1>0, <1>2, <1>9, ConnectsIsOK

LEMMA CapabilityIsReal ==
  IInv => CapabilitiesAreReal
<1> SUFFICES ASSUME IInv, NEW f \in measured
             PROVE  /\ f.check = "groups" =>
                         /\ \A g \in f.accepted : Connects(peer, GroupProbe(g))
                         /\ Sound => \A g \in Group \ f.accepted :
                                       ~Connects(peer, GroupProbe(g))
                         /\ (f.accepted \cap (Hybrid \ Browser) # {}) =>
                              \/ class = "mtls-required"
                              \/ \E h \in measured : h.check = "hybrid"
                    /\ f.check = "hybrid" =>
                         13 \in peer.versions /\ peer.groups \cap (Hybrid \ Browser) # {}
                    /\ f.check = "client-auth" => peer.mtls
                    /\ f.check = "tls-version" /\ Sound => 13 \notin peer.versions
  BY DEF CapabilitiesAreReal
<1>1. measured = Measured(results)
  BY DEF IInv, GradedLast
<1>2. /\ f.check = "hybrid" => otherHybrid(Pass(results, "group"))
      /\ f.check = "client-auth" => anyClientCertRequested(Pass(results, "client"))
      /\ f.check = "tls-version" => versionFinding(Pass(results, "client")) # {}
  BY <1>1, ResultIs, FindingsSpeak
<1>3. ASSUME anyClientCertRequested(Pass(results, "client"))
      PROVE  peer.mtls
  <2>1. PICK r \in Got : r.certRequested
    BY <1>3, PassOfGot DEF anyClientCertRequested
  <2> QED
    BY <2>1, ResultIs DEF Dialled, Faulted, Told
<1> QED
  BY <1>2, <1>3, MapIsTrue, OtherHybridIsThere, VersionIsMissing

LEMMA ReadyIsReady ==
  ASSUME IInv
  PROVE  /\ class = "pq-ready" => Connects(peer, pqOnly)
         /\ class \in {"pq-ready", "pq-capable", "pq-other-hybrid"} =>
              13 \in peer.versions /\ peer.groups \cap Hybrid # {}
<1> DEFINE client == Pass(results, "client")
           groups == Pass(results, "group")
<1>0. peer \in Endpoints /\ pqOnly \in Offered /\ pqPreferred \in Offered
  BY ClientsOffered DEF IInv, Typed
<1>1. ASSUME class = "pq-ready"
      PROVE  Connects(peer, pqOnly)
  <2>1. class = Graded(client)
    BY <1>1, GradeOrReason DEF Grades
  <2>2. \E r \in client : r.profile.name = "pq-only" /\ r.ok
    BY <1>1, <2>1, GradesRest
  <2> QED
    BY <2>2, ClientNamed, ResultIs
<1>2. ASSUME Connects(peer, pqOnly)
      PROVE  13 \in peer.versions /\ peer.groups \cap Hybrid # {}
  <2>1. Common(peer, pqOnly) # {}
    BY <1>0, <1>2, WorksMeans
  <2>2. pqOnly.groups \subseteq Hybrid /\ pqOnly.versions = {13}
    BY Clients DEF Hybrid
  <2>3. Agreed(peer, pqOnly) # 0
    BY <2>1 DEF Common
  <2> QED
    BY <2>1, <2>2, <2>3 DEF Common, Agreed
<1>3. ASSUME class = "pq-capable"
      PROVE  13 \in peer.versions /\ peer.groups \cap Hybrid # {}
  <2>1. class = Graded(client)
    BY <1>3, GradeOrReason DEF Grades
  <2>2. \E r \in client : r.profile.name = "pq-preferred" /\ r.ok /\ r.pq
    BY <1>3, <2>1, GradesRest
  <2>3. PICK r \in client : r.profile.name = "pq-preferred" /\ r.ok /\ r.pq
    BY <2>2
  <2>4. r.profile = pqPreferred /\ Told(peer, r)
    BY <2>3, ClientNamed, ResultIs
  <2>5. PICK g \in Common(peer, pqPreferred) : IsPQ(g)
    BY <2>3, <2>4 DEF Told
  <2>6. Agreed(peer, pqPreferred) = 13
    BY <2>5 DEF Common
  <2> QED
    BY <2>5, <2>6 DEF Common, Agreed, IsPQ
<1>4. ASSUME class = "pq-other-hybrid"
      PROVE  13 \in peer.versions /\ peer.groups \cap Hybrid # {}
  <2>1. class = Ungraded(client, groups)
    BY <1>4, GradeOrReason DEF Grades
  <2>2. otherHybrid(groups)
    BY <1>4, <2>1 DEF Ungraded
  <2> QED
    BY <2>2, OtherHybridIsThere
<1> QED
  BY <1>1, <1>2, <1>3, <1>4

\* A grade that praises, and a capability a finding names, is one the peer has,
\* whatever the peer, the plan and the faults; and what the map leaves out the
\* peer does not have, when the run was sound.
THEOREM PraiseIsDue ==
  Spec => []PraiseIsEarned
<1>1. IInv => PraiseIsEarned
  BY CapabilityIsReal, ReadyIsReady DEF PraiseIsEarned
<1> QED
  BY <1>1, Invariant, PTL
\* A peer that takes the padded client takes it up to the path's limit.
LEMMA SizeAnswer ==
  ASSUME peer \in Endpoints, Takes13Hybrid, peer.up = "listening",
         NEW n \in SizeTargets
  PROVE  KindOf(peer, SizeProbe(n)) = IF n > peer.limit THEN peer.cut ELSE "ok"
<1>1. /\ SizeProbe(n).name = "size" /\ SizeProbe(n).pass = "size" /\ SizeProbe(n).size = n
      /\ SizeProbe(n).groups = Browser /\ SizeProbe(n).versions = {13}
  BY DEF SizeProbe
<1>2. Agreed(peer, SizeProbe(n)) = 13
  BY <1>1 DEF Agreed, Takes13Hybrid
<1>3. Common(peer, SizeProbe(n)) # {}
  BY <1>1, <1>2 DEF Common, Takes13Hybrid
<1>4. ~Refuses(peer, SizeProbe(n)) /\ SizeProbe(n) # ECHOn
  BY <1>1, <1>3, Additions DEF Refuses, Takes13Hybrid
<1> QED
  BY <1>1, <1>2, <1>4 DEF KindOf

LEMMA SweepIsTrue ==
  IInv => SweepBrackets
<1> SUFFICES ASSUME IInv, NEW f \in measured, f.check = "size-limit", Sound,
                    Takes13Hybrid
             PROVE  /\ f.lastOK <= peer.limit
                    /\ f.status = "BAD" <=> peer.limit < MaxOf(SizeTargets)
                    /\ f.status = "BAD" =>
                         /\ peer.limit < f.firstBad
                         /\ \A n \in SizeTargets : ~(f.lastOK < n /\ n < f.firstBad)
  BY DEF SweepBrackets
<1> DEFINE sizes == Pass(results, "size")
           taken == {0} \cup {r.hello : r \in {s \in sizes : s.ok}}
           refused == {r.hello : r \in {s \in sizes : ~s.ok}} \ {0}
<1>0. /\ peer \in Endpoints /\ peer.limit \in Nat /\ SizeTargets \subseteq Nat \ {0}
      /\ peer.cut # "ok"
  BY EndpointFields DEF IInv, Typed, SizeTargets
<1>1. measured = Measured(results) /\ class # "none"
  BY FoundIsGraded
<1>2. f \in sizeFinding(sizes)
  BY <1>1, ResultIs, FindingsSpeak
<1>3. /\ \E r \in sizes : r.hello # 0
      /\ f.lastOK = MaxOf(taken)
      /\ f.firstBad = IF refused = {} THEN 0 ELSE MinOf(refused)
      /\ f.status = "BAD" <=> refused # {}
  BY <1>2 DEF sizeFinding, largestOK
<1>4. \A r \in sizes : r \in Got /\ r.profile.pass = "size"
  BY PassOfGot
<1>5. peer.up = "listening"
  BY <1>3, <1>4, ResultIs DEF Told
<1>6. ASSUME NEW r \in sizes
      PROVE  /\ r.hello \in SizeTargets /\ r.profile = SizeProbe(r.hello)
             /\ r.ok <=> r.hello <= peer.limit
  <2>1. /\ r.profile.size \in SizeTargets /\ r.profile = SizeProbe(r.profile.size)
        /\ Told(peer, r)
    BY <1>4, ResultIs DEF Named
  <2>2. PICK n \in SizeTargets : n = r.profile.size
    BY <2>1
  <2>3. r.hello = n /\ r.profile = SizeProbe(n) /\ r.ok = (KindOf(peer, SizeProbe(n)) = "ok")
    BY <1>5, <2>1, <2>2 DEF Told
  <2>4. KindOf(peer, SizeProbe(n)) = IF n > peer.limit THEN peer.cut ELSE "ok"
    BY <1>0, <1>5, SizeAnswer
  <2>5. n \in Nat
    BY <1>0
  <2>6. r.ok <=> n <= peer.limit
    <3>1. CASE n > peer.limit
      <4>1. KindOf(peer, SizeProbe(n)) = peer.cut
        BY <2>4, <3>1
      <4>2. ~r.ok
        BY <1>0, <2>3, <4>1
      <4> QED
        BY <1>0, <2>5, <3>1, <4>2
    <3>2. CASE n <= peer.limit
      <4>1. ~(n > peer.limit)
        BY <1>0, <2>5, <3>2
      <4> QED
        BY <2>3, <2>4, <3>2, <4>1
    <3> QED
      BY <1>0, <2>5, <3>1, <3>2
  <2> QED
    BY <2>3, <2>6
<1>7. MaxOf(taken) \in taken /\ \A k \in taken : k <= MaxOf(taken)
  <2>1. taken \in SUBSET Nat /\ taken # {} /\ \A k \in taken : k <= 10
    BY <1>6 DEF SizeTargets
  <2> HIDE DEF taken
  <2> QED
    BY <2>1, GreatestNumber
<1>8. \A k \in taken : k <= peer.limit
  BY <1>0, <1>6
<1>9. \A k \in refused : k \in SizeTargets /\ peer.limit < k
  <2>1. ASSUME NEW r \in sizes, ~r.ok
        PROVE  r.hello \in SizeTargets /\ peer.limit < r.hello
    <3>1. r.hello \in Nat /\ ~(r.hello <= peer.limit) /\ r.hello \in SizeTargets
      BY <1>0, <1>6, <2>1
    <3> QED
      BY <1>0, <3>1
  <2> QED
    BY <2>1
<1>10. refused # {} => MinOf(refused) \in refused /\ \A k \in refused : MinOf(refused) <= k
  <2>1. refused \in SUBSET Nat
    BY <1>0, <1>9
  <2> HIDE DEF refused
  <2> QED
    BY <2>1, LeastNumber
<1>11. ASSUME NEW n \in SizeTargets
       PROVE  (n \in taken \/ n \in refused) \/ \E m \in refused : m < n
  <2>1. \E i \in DOMAIN plan : plan[i].pass = "size"
    BY <1>3, <1>4 DEF IInv, Accounted
  <2>2. PICK i \in DOMAIN plan : plan[i] = SizeProbe(n)
    BY <2>1 DEF IInv, Typed, Assembled
  <2>3. IsSizeProbe(plan[i]) /\ plan[i].size = n
    BY <2>2 DEF SizeProbe, IsSizeProbe
  <2>4. CASE Answered(plan[i])
    <3>1. PICK r \in Got : r.profile = plan[i]
      BY <2>4 DEF Answered
    <3>2. r \in sizes
      BY <2>3, <3>1, PassOfGot DEF IsSizeProbe
    <3>3. r.hello = n
      <4>1. SizeProbe(r.hello).size = r.hello
        BY DEF SizeProbe
      <4> QED
        BY <1>6, <2>3, <3>1, <3>2, <4>1
    <3> QED
      BY <1>0, <3>2, <3>3
  <2>5. CASE \E j \in 1..(i - 1) : StuckAt(j)
    <3>1. PICK j \in 1..(i - 1) : StuckAt(j)
      BY <2>5
    <3>2. j \in DOMAIN plan /\ j < i
      BY <1>1, AllAsked
    <3>3. PICK r \in Got : r.profile = plan[j] /\ ~r.ok
      BY <3>1 DEF StuckAt
    <3>4. IsSizeProbe(plan[j]) /\ plan[j].size < n
      BY <2>3, <3>1, <3>2 DEF StuckAt, IInv, Typed, Assembled
    <3>5. r \in sizes
      BY <3>3, <3>4, PassOfGot DEF IsSizeProbe
    <3>6. r.hello = plan[j].size
      <4>1. SizeProbe(r.hello).size = r.hello
        BY DEF SizeProbe
      <4> QED
        BY <1>6, <3>3, <3>5, <4>1
    <3>7. r.hello \in refused
      BY <1>0, <1>6, <3>3, <3>5
    <3> QED
      BY <3>4, <3>6, <3>7
  <2> QED
    BY <1>1, <2>3, <2>4, <2>5, AllAsked
<1>12. MaxOf(SizeTargets) \in SizeTargets /\ \A k \in SizeTargets : k <= MaxOf(SizeTargets)
  <2>1. SizeTargets \in SUBSET Nat /\ SizeTargets # {} /\ \A k \in SizeTargets : k <= 10
    BY DEF SizeTargets
  <2> QED
    BY <2>1, GreatestNumber
<1>13. MaxOf(SizeTargets) \in Nat
  BY <1>0, <1>12
<1>14. refused # {} <=> peer.limit < MaxOf(SizeTargets)
  <2>1. ASSUME refused # {}
        PROVE  peer.limit < MaxOf(SizeTargets)
    <3>1. PICK k : k \in refused
      BY <2>1
    <3>2. k \in Nat /\ peer.limit < k /\ k <= MaxOf(SizeTargets)
      BY <1>0, <1>9, <1>12, <3>1
    <3> QED
      BY <1>0, <1>13, <3>2
  <2>2. ASSUME peer.limit < MaxOf(SizeTargets)
        PROVE  refused # {}
    <3> HIDE DEF refused, taken
    <3>1. MaxOf(SizeTargets) \notin taken
      BY <1>0, <1>8, <1>13, <2>2
    <3> QED
      BY <1>11, <1>12, <3>1
  <2> QED
    BY <2>1, <2>2
<1>15. ASSUME refused # {}
       PROVE  /\ peer.limit < MinOf(refused)
              /\ \A n \in SizeTargets : ~(MaxOf(taken) < n /\ n < MinOf(refused))
  <2>0. \A r \in sizes : r.hello \in Nat
    BY <1>0, <1>6
  <2>2. taken \subseteq Nat /\ refused \subseteq Nat
    BY <2>0
  <2> HIDE DEF refused, taken
  <2>1. peer.limit < MinOf(refused) /\ MinOf(refused) \in Nat
    BY <1>0, <1>9, <1>10, <1>15
  <2>3. ASSUME NEW n \in SizeTargets, MaxOf(taken) < n, n < MinOf(refused)
        PROVE  FALSE
    <3>0. n \in Nat /\ MaxOf(taken) \in Nat
      BY <1>0, <1>7, <2>2
    <3>1. n \notin taken
      BY <1>7, <2>3, <3>0
    <3>2. \A m \in refused : ~(m <= n)
      BY <1>0, <1>10, <1>15, <2>1, <2>2, <2>3
    <3> QED
      BY <1>0, <1>11, <2>2, <3>1, <3>2
  <2> QED
    BY <2>1, <2>3
<1> HIDE DEF refused, taken
<1> QED
  BY <1>3, <1>7, <1>8, <1>14, <1>15

\* The sweep's finding brackets the limit of the path, wherever that is and
\* however the passes around it are put together.
THEOREM TheSweepBrackets ==
  Spec => []SweepBrackets
<1>1. IInv => SweepBrackets
  BY SweepIsTrue
<1> QED
  BY <1>1, Invariant, PTL

LEMMA ECHIsTrue ==
  IInv => ECHIsWhatHappened
<1> SUFFICES ASSUME IInv, NEW f \in measured, f.check = "ech", Sound
             PROVE  /\ f.event = "cut off" => peer.limit \in ECHOff.size..(ECHOn.size - 1)
                    /\ f.event = "accepted" => peer.ech = "accepts" /\ f.bytes > 0
  BY DEF ECHIsWhatHappened
<1>0. peer \in Endpoints /\ peer.limit \in Nat /\ ECHOff \in Offered /\ ECHOn \in Offered
  BY EndpointFields DEF IInv, Typed, Offered
<1>1. measured = Measured(results)
  BY FoundIsGraded
<1>2. PICK off \in Got, on \in Got :
        /\ off.profile.name = "ech:off" /\ on.profile.name = "ech:on"
        /\ f \in echFinding(off, on)
  BY <1>1, ResultIs, FindingsSpeak
<1>3. /\ off.profile = ECHOff /\ on.profile = ECHOn /\ Told(peer, off) /\ Told(peer, on)
      /\ off.ok \in BOOLEAN /\ on.ok \in BOOLEAN /\ on.echAccepted \in BOOLEAN
      /\ on.ok => Connects(peer, ECHOn)
      /\ off.ok => Connects(peer, ECHOff)
  BY <1>2, ResultIs DEF Named, Result
<1>4. ECHOff.size = 2 /\ ECHOn.size = 4
  BY Additions
<1>5. /\ f.event = "cut off" => off.ok /\ Abrupt(on.kind)
      /\ f.event = "accepted" =>
           /\ on.ok /\ on.echAccepted
           /\ f.bytes = IF off.hello = 0 THEN 0
                        ELSE IF on.hello > off.hello THEN on.hello - off.hello ELSE 0
  <2> DEFINE cost == IF on.hello > off.hello THEN on.hello - off.hello ELSE 0
             said(status, event, bytes) ==
               [check |-> "ech", status |-> status, event |-> event, bytes |-> bytes]
  <2>1. CASE on.ok /\ on.echAccepted
    <3>1. f = said("OK", "accepted", IF off.hello = 0 THEN 0 ELSE cost)
      BY <1>2, <1>3, <2>1 DEF echFinding
    <3>2. f.event = "accepted" /\ f.bytes = IF off.hello = 0 THEN 0 ELSE cost
      BY <3>1
    <3> QED
      BY <2>1, <3>2
  <2>2. CASE on.ok /\ ~on.echAccepted
    <3>1. f = said("OK", "ignored", 0)
      BY <1>2, <1>3, <2>2 DEF echFinding
    <3> QED
      BY <3>1
  <2>3. CASE ~on.ok /\ cutOff(off, on)
    <3>1. f = said("WARN", "cut off", cost)
      BY <1>2, <1>3, <2>3 DEF echFinding
    <3>2. f.event = "cut off"
      BY <3>1
    <3> QED
      BY <2>3, <3>2 DEF cutOff
  <2>4. CASE ~on.ok /\ ~cutOff(off, on)
    <3>1. f = said("OK", "declined", 0)
      BY <1>2, <1>3, <2>4 DEF echFinding
    <3> QED
      BY <3>1
  <2> QED
    BY <1>3, <2>1, <2>2, <2>3, <2>4
<1>6. ASSUME f.event = "cut off"
      PROVE  peer.limit \in ECHOff.size..(ECHOn.size - 1)
  <2>1. peer.up = "listening" /\ 2 <= peer.limit
    BY <1>0, <1>3, <1>4, <1>5, <1>6, WorksMeans
  <2>2. Abrupt(KindOf(peer, ECHOn))
    BY <1>3, <1>5, <1>6 DEF Told
  <2>3. 4 > peer.limit
    BY <1>0, <1>4, <2>1, <2>2, WhatKindsSay
  <2> QED
    BY <1>0, <1>4, <2>1, <2>3
<1>7. ASSUME f.event = "accepted"
      PROVE  peer.ech = "accepts" /\ f.bytes > 0
  <2>1. peer.ech = "accepts"
    BY <1>3, <1>5, <1>7 DEF Told
  <2>2. peer.up = "listening"
    BY <1>0, <1>3, <1>5, <1>7, WorksMeans
  <2>3. off.hello = 2 /\ on.hello = 4
    BY <1>3, <1>4, <2>2 DEF Told
  <2> QED
    BY <1>5, <1>7, <2>1, <2>3
<1> QED
  BY <1>6, <1>7

\* "cut off with ECH" and "accepted" are said where they happened, for every
\* limit of the path.
THEOREM ECHIsTold ==
  Spec => []ECHIsWhatHappened
<1>1. IInv => ECHIsWhatHappened
  BY ECHIsTrue
<1> QED
  BY <1>1, Invariant, PTL
=============================================================================
