-------------------------- MODULE ECHLookupProofs --------------------------
(***************************************************************************)
(* What ECHLookup's run shows for two names and two resolvers, proved for  *)
(* every fleet, every list of resolvers and every deadline.                *)
(*                                                                         *)
(* The argument is a ledger.  A name that was looked up is known or is the *)
(* one in hand; the resolvers in front of the one being asked are the ones *)
(* that failed; and the time spent is at most a full round of resolvers    *)
(* for each known name and, for the one in hand, a full exchange for each  *)
(* of those in front and what this one has used.                           *)
(***************************************************************************)
EXTENDS ECHLookup, FiniteSetTheorems, TLAPS

Asking == pc \in {"udp", "tcp"}

\* TypeOK, what a name may publish, and where an exchange can be under way:
\* a name that is not known yet, on a deadline of its own.
Shape ==
  /\ TypeOK
  /\ published \in [Names -> Names \cup {Nothing}]
  /\ \A n \in Names : published[n] \in {n, Nothing}
  /\ pc # "done" => at <= Len(Targets)
  /\ Asking => Now \in Names /\ ~Known(Now)
  /\ sock => Asking
  /\ sock => left <= Patience
  /\ pc = "tcp" /\ ~sock => left <= Connect

\* What a name is offered is what it publishes, unless every resolver failed.
Offers ==
  /\ \A n \in Names : Known(n) => \/ published[n] = Nothing /\ byName[n] = Base
                                  \/ published[n] # Nothing /\ byName[n] = published[n]
                                  \/ failures[n] = Servers /\ byName[n] = Base
  /\ \A n \in Literals : Known(n) => byName[n] = Base

\* The lookups, and the resolvers that failed each name.
InHand(n) == Asking /\ Now = n

Ledger ==
  /\ \A n \in Names : lookups[n] = IF Known(n) \/ InHand(n) THEN 1 ELSE 0
  /\ \A n \in Names : lookups[n] = 0 => failures[n] = 0
  /\ \A n \in Literals : lookups[n] = 0
  /\ Asking => failures[Now] = server - 1

\* The time spent.
Exchange == 2 * Patience + Connect
Round == Servers * Exchange
KnownNames == {n \in Names : Known(n)}

Used ==
  IF pc = "udp" THEN IF sock THEN Patience - left ELSE 0
  ELSE IF sock THEN Exchange - left ELSE Patience + Connect - left

Spent ==
  elapsed <= Cardinality(KnownNames) * Round
               + (IF Asking THEN (server - 1) * Exchange + Used ELSE 0)

IInv == Shape /\ Offers /\ Ledger /\ Spent

----------------------------------------------------------------------------
(* Lemmas about answers, names and sums.                                   *)

\* The constants in the forms the arithmetic needs.
LEMMA Constants ==
  /\ Patience \in Nat \ {0} /\ Connect \in Nat \ {0} /\ Servers \in Nat \ {0}
  /\ Exchange \in Nat /\ Round \in Nat
  /\ Exchange = Patience + Patience + Connect
  /\ Round = Servers * Exchange
<1>1. Patience \in Nat \ {0} /\ Connect \in Nat \ {0} /\ Servers \in Nat \ {0}
  BY FleetAssumption
<1>2. Exchange \in Nat /\ Exchange = Patience + Patience + Connect
  BY <1>1 DEF Exchange
<1>3. Round \in Nat
  BY <1>1, <1>2 DEF Round
<1> QED
  BY <1>1, <1>2, <1>3 DEF Round

\* A whole answer says what its name publishes, an alias in front or not.
LEMMA WholeAnswers ==
  ASSUME NEW n \in Names, published[n] \in {n, Nothing}, NEW r \in Answers(n)
  PROVE  echFromAnswer(r) = published[n]
<1> DEFINE telling == {i \in DOMAIN r : r[i].type = "cut" \/ r[i].ech # Nothing}
<1>1. echFromAnswer(r) = IF telling = {} THEN Nothing ELSE r[Min(telling)].ech
  BY DEF echFromAnswer
<1>2. \A i \in Nat : Min({i}) = i
  BY DEF Min
<1>3. CASE published[n] = Nothing
  <2>1. r \in {<< >>, <<Rec("CNAME", Nothing)>>, <<Rec("HTTPS", Nothing)>>}
    BY <1>3 DEF Answers
  <2>2. telling = {}
    BY <2>1 DEF Rec
  <2> QED
    BY <1>1, <1>3, <2>2
<1>4. CASE published[n] # Nothing /\ r = <<Rec("HTTPS", published[n])>>
  <2>1. telling = {1} /\ r[1].ech = published[n]
    BY <1>4 DEF Rec
  <2> QED
    BY <1>1, <1>2, <2>1
<1>5. CASE /\ published[n] # Nothing
           /\ r = <<Rec("CNAME", Nothing), Rec("HTTPS", Nothing), Rec("HTTPS", published[n])>>
  <2>1. telling = {3} /\ r[3].ech = published[n]
    BY <1>5 DEF Rec
  <2> QED
    BY <1>1, <1>2, <2>1
<1> QED
  BY <1>3, <1>4, <1>5 DEF Answers

\* The targets are server names.
LEMMA TargetsAreNames ==
  ASSUME Shape, pc # "done"
  PROVE  Now \in ServerNames /\ at \in 1..Len(Targets)
<1>1. Targets \in Seq(ServerNames) /\ at \in 1..Len(Targets)
  BY FleetAssumption DEF Shape, TypeOK, ServerNames
<1> QED
  BY <1>1 DEF Now

\* The names that are known are a finite number of names.
LEMMA KnownNamesCount ==
  /\ Cardinality(Names) \in Nat
  /\ \A S \in SUBSET Names : /\ IsFiniteSet(S) /\ Cardinality(S) \in Nat
                             /\ Cardinality(S) <= Cardinality(Names)
  /\ \A S \in SUBSET Names, n \in Names :
       n \notin S => Cardinality(S \cup {n}) = Cardinality(S) + 1
<1>1. IsFiniteSet(Names)
  BY FleetAssumption
<1>2. \A S \in SUBSET Names : /\ IsFiniteSet(S) /\ Cardinality(S) \in Nat
                              /\ Cardinality(S) <= Cardinality(Names)
  BY <1>1, FS_Subset, FS_CardinalityType
<1>3. \A S \in SUBSET Names, n \in Names :
        n \notin S => Cardinality(S \cup {n}) = Cardinality(S) + 1
  BY <1>2, FS_AddElement
<1> QED
  BY <1>1, <1>2, <1>3, FS_CardinalityType

\* An exchange under way has used no more of the clock than a full exchange.
LEMMA UsedIsBounded ==
  ASSUME Shape, Asking
  PROVE  Used \in Int /\ Used <= Exchange
<1>1. left \in Nat
  BY DEF Shape, TypeOK
<1> QED
  BY <1>1, Constants DEF Used

\* One more of something is one more times it, and fewer are not more.
LEMMA OneMore ==
  ASSUME NEW a \in Nat, NEW x \in Nat
  PROVE  (a + 1) * x = a * x + x /\ a * x \in Nat
OBVIOUS

LEMMA NotMore ==
  ASSUME NEW a \in Nat, NEW b \in Nat, NEW x \in Nat, a <= b
  PROVE  a * x <= b * x
<1>1. PICK d \in Nat : b = a + d
  <2>1. b - a \in Nat /\ b = a + (b - a)
    OBVIOUS
  <2> QED
    BY <2>1
<1>2. b * x = a * x + d * x /\ d * x \in Nat /\ a * x \in Nat
  BY <1>1
<1> QED
  BY <1>2

\* The resolvers in front and the one being asked are within a round.
LEMMA RoundHolds ==
  ASSUME Shape, Asking
  PROVE  (server - 1) * Exchange + Used <= Round
<1>1. server \in 1..Servers
  BY DEF Shape, TypeOK
<1>2. server - 1 \in Nat /\ server \in Nat /\ server <= Servers
  BY <1>1, Constants
<1>3. ((server - 1) + 1) * Exchange = (server - 1) * Exchange + Exchange
  BY <1>2, Constants, OneMore
<1>4. server * Exchange = (server - 1) * Exchange + Exchange
  BY <1>2, <1>3
<1>5. server * Exchange <= Servers * Exchange
  BY <1>2, Constants, NotMore
<1>6. (server - 1) * Exchange \in Nat /\ server * Exchange \in Nat
  BY <1>2, Constants, OneMore
<1> QED
  BY <1>4, <1>5, <1>6, Constants, UsedIsBounded

----------------------------------------------------------------------------
(* One lemma for the initial states and one for each outcome of a step.    *)

\* Before the first lookup nothing is known, asked or spent.
LEMMA IInvInit == Init => IInv
<1> SUFFICES ASSUME Init
             PROVE  IInv
  OBVIOUS
<1> USE FleetAssumption
<1>1. \A n \in Names : n # Nothing /\ n # Base
  OBVIOUS
<1>2. Shape
  <2>1. /\ published \in [Names -> Names \cup {Nothing}]
        /\ \A n \in Names : published[n] \in {n, Nothing}
    BY DEF Init
  <2>2. pc \in {"loop", "done"} /\ at = 1 /\ server = 1 /\ sock = FALSE
    BY DEF Init
  <2>3. /\ at \in 1..(Len(Targets) + 1)
        /\ pc # "done" => at <= Len(Targets)
    <3>1. Targets # << >> => Len(Targets) >= 1
      BY DEF ServerNames
    <3>2. Len(Targets) \in Nat
      OBVIOUS
    <3> QED
      BY <2>2, <3>1, <3>2 DEF Init
  <2>4. TypeOK
    <3>1. 0 \in 0..Servers /\ 1 \in 1..Servers
      BY Constants
    <3>2. /\ byName \in [ServerNames -> Names \cup {Nothing, Base}]
          /\ lookups \in [ServerNames -> Nat]
          /\ failures \in [ServerNames -> 0..Servers]
      BY <3>1 DEF Init
    <3>3. sock \in BOOLEAN /\ left \in Nat /\ elapsed \in Nat
      BY DEF Init
    <3> QED
      BY <2>2, <2>3, <3>1, <3>2, <3>3 DEF TypeOK
  <2> QED
    BY <2>1, <2>2, <2>3, <2>4 DEF Shape, Asking
<1>3. pc \notin {"udp", "tcp"} /\ \A n \in ServerNames : ~Known(n)
  BY DEF Init, Known
<1>4. Offers /\ Ledger
  BY <1>3 DEF Offers, Ledger, Asking, InHand, Init, ServerNames
<1>5. Spent
  <2>1. KnownNames = {}
    BY <1>3 DEF KnownNames, ServerNames
  <2>2. Cardinality(KnownNames) = 0
    BY <2>1, FS_EmptySet
  <2> QED
    BY <1>3, <2>2, Constants DEF Spent, Asking, Init
<1> QED
  BY <1>2, <1>4, <1>5 DEF IInv

\* Whatever ends an asking, by a config or for want of a resolver, ends it for
\* the name in hand: what it becomes is all that is new.
LEMMA AskingEnds ==
  ASSUME IInv, Asking, NEW c \in Names \cup {Base},
         byName' = [byName EXCEPT ![Now] = c],
         pc' = "next", sock' = FALSE,
         UNCHANGED <<published, at, server, lookups, left, elapsed>>,
         failures' \in [ServerNames -> 0..Servers],
         \A m \in ServerNames : m # Now => failures'[m] = failures[m],
         \/ published[Now] = Nothing /\ c = Base
         \/ published[Now] # Nothing /\ c = published[Now]
         \/ failures'[Now] = Servers /\ c = Base
  PROVE  IInv'
<1>0. Shape /\ Offers /\ Ledger /\ Spent
  BY DEF IInv
<1>n. PICK n \in Names : n = Now
  BY <1>0 DEF Shape
<1> USE <1>n
<1>1. /\ n \in Names /\ n \in ServerNames /\ ~Known(n)
      /\ byName \in [ServerNames -> Names \cup {Nothing, Base}]
      /\ server \in 1..Servers
      /\ pc # "done"
  BY <1>0 DEF Shape, TypeOK, ServerNames, Asking
<1>2. c # Nothing
  BY FleetAssumption DEF Nothing, Base
<1>3. /\ byName'[n] = c
      /\ \A m \in ServerNames : m # n => byName'[m] = byName[m]
      /\ byName' \in [ServerNames -> Names \cup {Nothing, Base}]
  BY <1>1
<1>4. ~Asking'
  BY DEF Asking
<1>5. /\ Known(n)'
      /\ \A m \in ServerNames : m # n => (Known(m)' <=> Known(m))
  BY <1>1, <1>2, <1>3 DEF Known
<1>6. Shape'
  BY <1>0, <1>1, <1>3, <1>4 DEF Shape, TypeOK
<1>7. Offers'
  <2>1. \A m \in Names : m \in ServerNames
    BY DEF ServerNames
  <2>2. \A m \in Literals : m \in ServerNames /\ m # n
    BY <1>1, FleetAssumption DEF ServerNames
  <2> QED
    BY <1>0, <1>3, <1>5, <2>1, <2>2 DEF Offers
<1>8. Ledger'
  <2>1. ASSUME NEW m \in Names
        PROVE  /\ (lookups[m] = IF Known(m) \/ InHand(m) THEN 1 ELSE 0)'
               /\ (lookups[m] = 0 => failures[m] = 0)'
    <3>1. m \in ServerNames
      BY DEF ServerNames
    <3>2. CASE m = n
      BY <1>0, <1>1, <1>5, <3>2 DEF Ledger, InHand
    <3>3. CASE m # n
      BY <1>0, <1>4, <1>5, <3>1, <3>3 DEF Ledger, InHand
    <3> QED
      BY <3>2, <3>3
  <2> QED
    BY <1>0, <1>4, <2>1 DEF Ledger
<1>9. Spent'
  <2>1. KnownNames' = KnownNames \cup {n} /\ n \notin KnownNames
    BY <1>1, <1>5 DEF KnownNames, ServerNames
  <2>2. KnownNames \in SUBSET Names
    BY DEF KnownNames
  <2>3. /\ Cardinality(KnownNames') = Cardinality(KnownNames) + 1
        /\ Cardinality(KnownNames) \in Nat
    BY <1>1, <2>1, <2>2, KnownNamesCount
  <2>4. Cardinality(KnownNames)' = Cardinality(KnownNames) + 1
    BY <2>3
  <2>5. (server - 1) * Exchange + Used <= Round
    BY <1>0, RoundHolds
  <2>6. /\ (Cardinality(KnownNames) + 1) * Round = Cardinality(KnownNames) * Round + Round
        /\ Cardinality(KnownNames) * Round \in Nat
    BY <2>3, Constants, OneMore
  <2>7. elapsed <= Cardinality(KnownNames) * Round + ((server - 1) * Exchange + Used)
    BY <1>0 DEF Spent
  <2>8. elapsed \in Nat /\ (server - 1) * Exchange \in Int /\ Used \in Int
    BY <1>0, <1>1, Constants, UsedIsBounded DEF Shape, TypeOK
  <2>9. elapsed <= (Cardinality(KnownNames) + 1) * Round
    BY <2>5, <2>6, <2>7, <2>8, Constants
  <2> QED
    BY <1>4, <2>4, <2>6, <2>9, Constants DEF Spent, Round, Exchange
<1> QED
  BY <1>6, <1>7, <1>8, <1>9 DEF IInv

\* The config of an answer ends it with what the name publishes.
LEMMA ConcludeStep ==
  ASSUME IInv, Asking, Conclude(published[Now])
  PROVE  IInv'
<1> DEFINE c == IF published[Now] = Nothing THEN Base ELSE published[Now]
<1>1. Now \in Names /\ published[Now] \in {Now, Nothing}
  BY DEF IInv, Shape
<1>2. c \in Names \cup {Base}
  BY <1>1
<1>3. PICK d \in Names \cup {Base} : d = c
  BY <1>2
<1>4. /\ byName' = [byName EXCEPT ![Now] = d]
      /\ pc' = "next" /\ sock' = FALSE
      /\ UNCHANGED <<published, at, server, lookups, left, elapsed, failures>>
  BY <1>3 DEF Conclude
<1>5. failures' \in [ServerNames -> 0..Servers]
  BY <1>4 DEF IInv, Shape, TypeOK
<1> QED
  BY <1>3, <1>4, <1>5, AskingEnds

\* A resolver that is no use makes way for the next, with a whole exchange
\* accounted for, or ends the asking.
LEMMA FailsStep ==
  ASSUME IInv, Asking, Fails
  PROVE  IInv'
<1>0. Shape /\ Offers /\ Ledger /\ Spent
  BY DEF IInv
<1>n. PICK n \in Names : n = Now
  BY <1>0 DEF Shape
<1>1. /\ n \in ServerNames /\ ~Known(n) /\ pc # "done"
      /\ failures \in [ServerNames -> 0..Servers]
      /\ server \in 1..Servers
      /\ failures[n] = server - 1
  BY <1>0, <1>n DEF Shape, TypeOK, ServerNames, Asking, Ledger
<1>2. /\ failures'[n] = server
      /\ \A m \in ServerNames : m # n => failures'[m] = failures[m]
      /\ failures' \in [ServerNames -> 0..Servers]
  <2>1. failures' = [failures EXCEPT ![n] = @ + 1]
    BY <1>n DEF Fails
  <2>2. failures[n] + 1 = server /\ server \in 0..Servers
    BY <1>1, Constants
  <2> QED
    BY <1>1, <2>1, <2>2
<1>3. CASE server < Servers
  <2>1. /\ server' = server + 1 /\ pc' = "udp" /\ sock' = FALSE
        /\ UNCHANGED <<byName, published, at, lookups, left, elapsed>>
    BY <1>3 DEF Fails
  <2>2. /\ Asking' /\ (Now = n)' /\ KnownNames' = KnownNames
        /\ \A m : Known(m)' <=> Known(m)
    BY <1>n, <2>1 DEF Asking, Now, KnownNames, Known
  <2>3. server' \in 1..Servers
    BY <1>1, <1>3, <2>1, Constants
  <2>4. Shape'
    BY <1>0, <1>1, <1>2, <1>n, <2>1, <2>2, <2>3 DEF Shape, TypeOK
  <2>5. Offers'
    <3>1. \A m \in Names : Known(m) => m # n /\ failures'[m] = failures[m]
      BY <1>1, <1>2 DEF ServerNames
    <3> QED
      BY <1>0, <2>1, <2>2, <3>1 DEF Offers
  <2>6. Ledger'
    <3>1. \A m : InHand(m)' <=> InHand(m)
      BY <1>n, <2>2 DEF InHand
    <3>2. lookups[n] = 1
      BY <1>0, <1>n DEF Ledger, InHand
    <3>3. \A m \in Names : lookups'[m] = 0 => failures'[m] = 0
      BY <1>0, <1>2, <2>1, <3>2 DEF Ledger, ServerNames
    <3>4. failures'[n] = server' - 1
      BY <1>1, <1>2, <2>1
    <3> QED
      BY <1>0, <2>1, <2>2, <3>1, <3>3, <3>4 DEF Ledger
  <2>7. Spent'
    <3>1. server - 1 \in Nat /\ server \in Nat
      BY <1>1, Constants
    <3>2. ((server - 1) + 1) * Exchange = (server - 1) * Exchange + Exchange
      BY <3>1, Constants, OneMore
    <3>3. (server' - 1) * Exchange = (server - 1) * Exchange + Exchange
      BY <2>1, <3>1, <3>2
    <3>4. Used' = 0
      BY <2>1 DEF Used
    <3>5. /\ Cardinality(KnownNames) * Round \in Nat
          /\ (server - 1) * Exchange \in Nat
      BY <3>1, Constants, OneMore, KnownNamesCount DEF KnownNames
    <3>6. elapsed \in Nat /\ Used \in Int /\ Used <= Exchange
      BY <1>0, UsedIsBounded DEF Shape, TypeOK
    <3>7. elapsed <= Cardinality(KnownNames) * Round + ((server - 1) * Exchange + Used)
      BY <1>0 DEF Spent
    <3>8. elapsed <= Cardinality(KnownNames) * Round + ((server' - 1) * Exchange + 0)
      BY <3>3, <3>5, <3>6, <3>7, Constants
    <3>9. elapsed' = elapsed /\ Cardinality(KnownNames)' = Cardinality(KnownNames)
      BY <2>1, <2>2
    <3> QED
      BY <2>2, <3>4, <3>8, <3>9 DEF Spent, Round, Exchange
  <2> QED
    BY <2>4, <2>5, <2>6, <2>7 DEF IInv
<1>4. CASE ~(server < Servers)
  <2>1. /\ server' = server /\ pc' = "next" /\ sock' = FALSE
        /\ byName' = [byName EXCEPT ![Now] = Base]
        /\ UNCHANGED <<published, at, lookups, left, elapsed>>
    BY <1>4 DEF Fails
  <2>2. failures'[Now] = Servers
    BY <1>1, <1>2, <1>4, <1>n, Constants
  <2>3. PICK c \in Names \cup {Base} : c = Base
    OBVIOUS
  <2> QED
    BY <1>2, <1>n, <2>1, <2>2, <2>3, AskingEnds
<1> QED
  BY <1>3, <1>4

\* A socket, or a second question over TCP, starts from what the exchange may
\* have used by then.
LEMMA AskStep ==
  ASSUME IInv, Asking, UNCHANGED <<loop, server, failures, elapsed>>,
         \/ ~sock /\ sock' = TRUE /\ left' = Patience /\ pc' = pc
         \/ pc = "udp" /\ sock /\ pc' = "tcp" /\ sock' = FALSE /\ left' = Connect
  PROVE  IInv'
<1>0. Shape /\ Offers /\ Ledger /\ Spent
  BY DEF IInv
<1>1. /\ UNCHANGED <<published, at, byName, lookups, server, failures, elapsed>>
      /\ Asking' /\ KnownNames' = KnownNames /\ Now' = Now
      /\ \A m : (Known(m)' <=> Known(m)) /\ (InHand(m)' <=> InHand(m))
  BY DEF loop, Asking, KnownNames, Known, InHand, Now
<1>2. Shape'
  <2>1. pc' \in {"udp", "tcp"} /\ sock' \in BOOLEAN /\ left' \in Nat
    BY Constants DEF Asking
  <2>2. TypeOK' /\ pc' # "done"
    BY <1>0, <1>1, <2>1 DEF Shape, TypeOK
  <2>3. (Now \in Names /\ ~Known(Now))'
    BY <1>0, <1>1 DEF Shape
  <2>4. /\ sock' => left' <= Patience
        /\ pc' = "tcp" /\ ~sock' => left' <= Connect
    BY Constants DEF Asking
  <2>5. at <= Len(Targets)
    BY <1>0 DEF Shape, Asking
  <2> QED
    BY <1>0, <1>1, <2>2, <2>3, <2>4, <2>5 DEF Shape
<1>3. Offers' /\ Ledger'
  BY <1>0, <1>1 DEF Offers, Ledger
<1>4. Used <= Used'
  <2>1. left \in Nat /\ (sock => left <= Patience) /\ (pc = "tcp" /\ ~sock => left <= Connect)
    BY <1>0 DEF Shape, TypeOK
  <2>2. Exchange' = Exchange
    BY DEF Exchange
  <2>3. CASE ~sock /\ sock' = TRUE /\ left' = Patience /\ pc' = pc
    <3>1. CASE pc = "udp"
      BY <2>3, <3>1, Constants DEF Used
    <3>2. CASE pc = "tcp"
      BY <2>1, <2>2, <2>3, <3>2, Constants DEF Used
    <3> QED
      BY <3>1, <3>2 DEF Asking
  <2>4. CASE pc = "udp" /\ sock /\ pc' = "tcp" /\ sock' = FALSE /\ left' = Connect
    BY <2>1, <2>4, Constants DEF Used
  <2> QED
    BY <2>3, <2>4
<1>5. Spent'
  <2>1. /\ Cardinality(KnownNames) * Round \in Nat
        /\ (server - 1) * Exchange \in Int
    BY <1>0, Constants, OneMore, KnownNamesCount DEF KnownNames, Shape, TypeOK
  <2>2. elapsed \in Nat /\ Used \in Int /\ Used' \in Int
    BY <1>0, <1>1, <1>2, UsedIsBounded, Constants DEF Shape, TypeOK, Used
  <2>3. elapsed <= Cardinality(KnownNames) * Round + ((server - 1) * Exchange + Used)
    BY <1>0 DEF Spent
  <2>4. elapsed <= Cardinality(KnownNames) * Round + ((server - 1) * Exchange + Used')
    BY <1>4, <2>1, <2>2, <2>3
  <2>5. Cardinality(KnownNames)' = Cardinality(KnownNames)
    BY <1>1
  <2> QED
    BY <1>1, <2>4, <2>5 DEF Spent, Round, Exchange
<1> QED
  BY <1>2, <1>3, <1>5 DEF IInv

\* A tick is on the account of the exchange it passes in.
LEMMA TickStep ==
  ASSUME IInv, Tick
  PROVE  IInv'
<1>0. Shape /\ Offers /\ Ledger /\ Spent
  BY DEF IInv
<1>1. /\ UNCHANGED <<published, at, byName, lookups, pc, server, failures, sock>>
      /\ left' = left - 1 /\ elapsed' = elapsed + 1 /\ left > 0
      /\ Asking' = Asking /\ KnownNames' = KnownNames /\ Now' = Now
      /\ \A m : (Known(m)' <=> Known(m)) /\ (InHand(m)' <=> InHand(m))
  BY DEF Tick, loop, Asking, KnownNames, Known, InHand, Now
<1>2. Asking /\ left \in Nat /\ elapsed \in Nat
  BY <1>0 DEF Tick, Waiting, Asking, Shape, TypeOK
<1>3. Shape'
  BY <1>0, <1>1, <1>2, Constants DEF Shape, TypeOK
<1>4. Offers' /\ Ledger'
  BY <1>0, <1>1 DEF Offers, Ledger
<1>5. Used' = Used + 1
  <2>1. Exchange' = Exchange
    BY DEF Exchange
  <2>2. sock \/ pc = "tcp"
    BY DEF Tick, Waiting
  <2> QED
    BY <1>1, <1>2, <2>1, <2>2, Constants DEF Used
<1>6. Spent'
  <2>1. /\ Cardinality(KnownNames) * Round \in Nat
        /\ (server - 1) * Exchange \in Int
    BY <1>0, Constants, OneMore, KnownNamesCount DEF KnownNames, Shape, TypeOK
  <2>2. Used \in Int
    BY <1>0, <1>2, UsedIsBounded
  <2>3. elapsed <= Cardinality(KnownNames) * Round + ((server - 1) * Exchange + Used)
    BY <1>0, <1>2 DEF Spent
  <2>4. elapsed' <= Cardinality(KnownNames) * Round + ((server - 1) * Exchange + Used')
    BY <1>1, <1>2, <1>5, <2>1, <2>2, <2>3
  <2>5. Cardinality(KnownNames)' = Cardinality(KnownNames)
    BY <1>1
  <2> QED
    BY <1>1, <1>2, <2>4, <2>5 DEF Spent, Round, Exchange
<1> QED
  BY <1>3, <1>4, <1>6 DEF IInv

\* Between two lookups: a target whose name is known, a literal, a new name,
\* and the next target.
LEMMA LoopStep ==
  ASSUME IInv, Skip \/ Literal \/ Lookup \/ NextTarget
  PROVE  IInv'
<1>0. Shape /\ Offers /\ Ledger /\ Spent
  BY DEF IInv
<1>1. ~Asking /\ ~sock /\ pc # "done" /\ UNCHANGED <<published, failures, elapsed, sock, left>>
  BY <1>0 DEF Skip, Literal, Lookup, NextTarget, Conclude, loop, Asking, Shape, TypeOK
<1>2. /\ Cardinality(KnownNames) * Round \in Nat
      /\ elapsed \in Nat /\ elapsed <= Cardinality(KnownNames) * Round + 0
  BY <1>0, <1>1, Constants, OneMore, KnownNamesCount DEF KnownNames, Spent, Shape, TypeOK
<1>3. CASE Skip \/ NextTarget
  <2>1. /\ UNCHANGED <<published, server, byName, lookups, failures, sock, left, elapsed>>
        /\ pc' \in {"next", "loop", "done"} /\ at' \in {at, at + 1}
    BY <1>3 DEF Skip, NextTarget, loop
  <2>2. ~Asking' /\ KnownNames' = KnownNames /\ \A m : Known(m)' <=> Known(m)
    BY <2>1 DEF Asking, KnownNames, Known
  <2>3. at' \in 1..(Len(Targets) + 1) /\ (pc' # "done" => at' <= Len(Targets))
    <3>1. at \in 1..Len(Targets) /\ Len(Targets) \in Nat
      BY <1>0, <1>1, TargetsAreNames, FleetAssumption
    <3> QED
      BY <1>3, <3>1 DEF Skip, NextTarget, loop
  <2>4. Shape'
    BY <1>0, <1>1, <2>1, <2>2, <2>3 DEF Shape, TypeOK
  <2>5. Offers' /\ Ledger'
    BY <1>0, <1>1, <2>1, <2>2 DEF Offers, Ledger, InHand
  <2>6. Spent'
    BY <1>2, <2>1, <2>2 DEF Spent, Round, Exchange
  <2> QED
    BY <2>4, <2>5, <2>6 DEF IInv
<1>4. CASE Literal
  <2>1. /\ UNCHANGED <<published, at, server, lookups, failures, sock, left, elapsed>>
        /\ pc' = "next" /\ byName' = [byName EXCEPT ![Now] = Base]
    BY <1>0, <1>1, <1>4 DEF Literal, Conclude, Shape, TypeOK
  <2>2. PICK l \in Literals : l = Now /\ ~Known(l)
    BY <1>4 DEF Literal
  <2>3. l \in ServerNames /\ l \notin Names
    BY FleetAssumption DEF ServerNames
  <2>4. /\ byName' \in [ServerNames -> Names \cup {Nothing, Base}]
        /\ byName'[l] = Base
        /\ \A m \in ServerNames : m # l => byName'[m] = byName[m]
    BY <1>0, <2>1, <2>2, <2>3 DEF Shape, TypeOK
  <2>5. \A m \in Names : m \in ServerNames /\ m # l
    BY <2>3 DEF ServerNames
  <2>6. /\ ~Asking' /\ KnownNames' = KnownNames
        /\ \A m \in Names : (Known(m)' <=> Known(m)) /\ byName'[m] = byName[m]
    BY <2>1, <2>4, <2>5 DEF Asking, KnownNames, Known
  <2>7. Shape'
    BY <1>0, <1>1, <2>1, <2>4, <2>6 DEF Shape, TypeOK
  <2>8. Offers'
    <3>1. \A m \in Literals : m \in ServerNames
      BY DEF ServerNames
    <3>2. \A m \in Literals : Known(m)' => byName'[m] = Base
      BY <1>0, <2>4, <3>1 DEF Offers, Known
    <3>3. \A m \in Names : failures'[m] = failures[m] /\ published'[m] = published[m]
      BY <2>1
    <3> QED
      BY <1>0, <2>6, <3>2, <3>3 DEF Offers
  <2>9. Ledger'
    BY <1>0, <1>1, <2>1, <2>6 DEF Ledger, InHand
  <2>10. Spent'
    BY <1>2, <2>1, <2>6 DEF Spent, Round, Exchange
  <2> QED
    BY <2>7, <2>8, <2>9, <2>10 DEF IInv
<1>5. CASE Lookup
  <2>1. /\ UNCHANGED <<published, at, byName, failures, sock, left, elapsed>>
        /\ pc' = "udp" /\ server' = 1
        /\ lookups' = [lookups EXCEPT ![Now] = @ + 1]
    BY <1>5 DEF Lookup
  <2>2. PICK n \in Names : n = Now /\ ~Known(n)
    BY <1>5 DEF Lookup
  <2>3. n \in ServerNames /\ n \notin Literals /\ lookups[n] = 0 /\ failures[n] = 0
    BY <1>0, <1>1, <2>2, FleetAssumption DEF ServerNames, Ledger, InHand
  <2>4. /\ lookups' \in [ServerNames -> Nat] /\ lookups'[n] = 1
        /\ \A m \in ServerNames : m # n => lookups'[m] = lookups[m]
    BY <1>0, <2>1, <2>2, <2>3 DEF Shape, TypeOK
  <2>5. /\ Asking' /\ KnownNames' = KnownNames /\ Now' = n
        /\ \A m : Known(m)' <=> Known(m)
    BY <2>1, <2>2 DEF Asking, KnownNames, Known, Now
  <2>6. 1 \in 1..Servers
    BY Constants
  <2>7. Shape'
    <3>1. TypeOK'
      BY <1>0, <2>1, <2>4, <2>6 DEF Shape, TypeOK
    <3>2. (Now \in Names /\ ~Known(Now))'
      BY <2>2, <2>5
    <3> QED
      BY <1>0, <1>1, <2>1, <2>5, <3>1, <3>2 DEF Shape
  <2>8. Offers'
    BY <1>0, <2>1, <2>5 DEF Offers
  <2>9. Ledger'
    <3>1. ASSUME NEW m \in Names
          PROVE  /\ (lookups[m] = IF Known(m) \/ InHand(m) THEN 1 ELSE 0)'
                 /\ (lookups[m] = 0 => failures[m] = 0)'
      <4>1. m \in ServerNames
        BY DEF ServerNames
      <4>2. CASE m = n
        BY <2>4, <2>5, <4>2 DEF InHand
      <4>3. CASE m # n
        BY <1>0, <1>1, <2>1, <2>4, <2>5, <4>1, <4>3 DEF Ledger, InHand
      <4> QED
        BY <4>2, <4>3
    <3>2. \A m \in Literals : lookups'[m] = 0
      BY <1>0, <2>3, <2>4 DEF Ledger, ServerNames
    <3>3. (failures[Now] = server - 1)'
      BY <2>1, <2>3, <2>5
    <3> QED
      BY <3>1, <3>2, <3>3 DEF Ledger
  <2>10. Spent'
    <3>1. Used' = 0 /\ (server' - 1) * Exchange = 0
      BY <1>1, <2>1, Constants DEF Used
    <3>2. Cardinality(KnownNames)' = Cardinality(KnownNames)
      BY <2>5
    <3> QED
      BY <1>2, <2>1, <2>5, <3>1, <3>2 DEF Spent, Round, Exchange
  <2> QED
    BY <2>7, <2>8, <2>9, <2>10 DEF IInv
<1> QED
  BY <1>3, <1>4, <1>5

\* A UDP answer is one of the outcomes above, and an answer to this query that
\* is whole concludes with what the name publishes.
LEMMA HearUDPStep ==
  ASSUME IInv, HearUDP
  PROVE  IInv'
<1>0. Asking /\ pc = "udp" /\ sock
  BY DEF HearUDP, Asking
<1>1. Now \in Names /\ published[Now] \in {Now, Nothing}
  BY <1>0 DEF IInv, Shape
<1>2. ASSUME NEW r \in Answers(Now), UDPAnswers(Message(TRUE, 0, FALSE, r))
      PROVE  IInv'
  <2>1. echFromAnswer(r) = published[Now]
    BY <1>1, WholeAnswers
  <2>2. Conclude(echFromAnswer(r))
    BY <1>2 DEF UDPAnswers, Message, dnsCheck
  <2> QED
    BY <1>0, <2>1, <2>2, ConcludeStep
<1>3. ASSUME NEW r \in Halves(Now), UDPAnswers(Message(TRUE, 0, TRUE, r))
      PROVE  IInv'
  <2>1. /\ pc' = "tcp" /\ sock' = FALSE /\ left' = Connect
        /\ UNCHANGED <<loop, server, failures, elapsed>>
    BY <1>3 DEF UDPAnswers, Message, dnsCheck
  <2> QED
    BY <1>0, <2>1, AskStep
<1>4. ASSUME NEW rcode \in {2, 3}, UDPAnswers(Message(TRUE, rcode, FALSE, << >>))
      PROVE  IInv'
  <2>1. Fails
    BY <1>4 DEF UDPAnswers, Message, dnsCheck
  <2> QED
    BY <1>0, <2>1, FailsStep
<1>5. CASE UDPAnswers(Message(FALSE, 0, FALSE, <<Rec("HTTPS", "forged")>>))
  <2>1. Fails
    BY <1>5 DEF UDPAnswers, Message, dnsCheck
  <2> QED
    BY <1>0, <2>1, FailsStep
<1> QED
  BY <1>2, <1>3, <1>4, <1>5 DEF HearUDP

\* So is one over TCP.
LEMMA HearTCPStep ==
  ASSUME IInv, HearTCP
  PROVE  IInv'
<1>0. Asking
  BY DEF HearTCP, Asking
<1>1. Now \in Names /\ published[Now] \in {Now, Nothing}
  BY <1>0 DEF IInv, Shape
<1>2. PICK m \in {Message(TRUE, 0, FALSE, r) : r \in Answers(Now)} \cup
                 {Message(TRUE, 2, FALSE, << >>),
                  Message(FALSE, 0, FALSE, <<Rec("HTTPS", "forged")>>)} :
        IF dnsCheck(m) THEN Conclude(echFromAnswer(m.records)) ELSE Fails
  BY DEF HearTCP
<1>3. ASSUME NEW r \in Answers(Now), m = Message(TRUE, 0, FALSE, r)
      PROVE  IInv'
  <2>1. echFromAnswer(r) = published[Now]
    BY <1>1, WholeAnswers
  <2>2. dnsCheck(m) /\ m.records = r
    BY <1>3 DEF Message, dnsCheck
  <2>3. Conclude(published[Now])
    BY <1>2, <2>1, <2>2
  <2> QED
    BY <1>0, <2>3, ConcludeStep
<1>4. CASE m \in {Message(TRUE, 2, FALSE, << >>),
                  Message(FALSE, 0, FALSE, <<Rec("HTTPS", "forged")>>)}
  <2>1. ~dnsCheck(m)
    BY <1>4 DEF Message, dnsCheck
  <2> QED
    BY <1>0, <1>2, <2>1, FailsStep
<1> QED
  BY <1>2, <1>3, <1>4

----------------------------------------------------------------------------
(* The theorems.                                                           *)

\* IInv is inductive.
LEMMA IInvStep ==
  ASSUME IInv, [Next]_vars
  PROVE  IInv'
<1>1. sock => Asking
  BY DEF IInv, Shape
<1>2. CASE Skip \/ Literal \/ Lookup \/ NextTarget
  BY <1>2, LoopStep
<1>3. CASE Ask
  BY <1>3, AskStep DEF Ask, Asking
<1>4. CASE Tick
  BY <1>4, TickStep
<1>5. CASE DeadlinePasses \/ AskFails \/ HearFails
  BY <1>1, <1>5, FailsStep DEF DeadlinePasses, Waiting, AskFails, HearFails, Asking
<1>6. CASE HearUDP \/ HearTCP
  BY <1>6, HearUDPStep, HearTCPStep
<1>7. CASE UNCHANGED vars
  <2>1. UNCHANGED <<published, pc, at, server, byName, lookups, failures, sock, left, elapsed>>
    BY <1>7 DEF vars
  <2> QED
    BY <2>1 DEF IInv, Shape, TypeOK, Asking, Now, Known, Offers, Ledger, InHand,
                Spent, Used, KnownNames, Round, Exchange
<1> QED
  BY <1>2, <1>3, <1>4, <1>5, <1>6, <1>7 DEF Next, Unaided, Over

\* Every reachable state of the lookups satisfies the inductive invariant.
THEOREM Invariant == Spec => []IInv
<1>1. Init => IInv
  BY IInvInit
<1>2. IInv /\ [Next]_vars => IInv'
  BY IInvStep
<1> QED
  BY <1>1, <1>2, PTL DEF Spec

\* Whatever the resolvers send, refuse or cut short, a target is offered ECH
\* with the whole config its own name publishes and with no other.
THEOREM OfferedItsOwn == Spec => []LookupInv
<1>1. IInv => LookupInv
  <2> SUFFICES ASSUME IInv, NEW n \in ServerNames, byName[n] \notin {Nothing, Base}
               PROVE  n \in Names /\ byName[n] = published[n]
    BY DEF IInv, Shape, LookupInv, OwnConfig
  <2>1. Known(n)
    BY DEF Known
  <2> QED
    BY <2>1 DEF IInv, Offers, ServerNames
<1> QED
  BY <1>1, Invariant, PTL

\* A name that publishes a config goes without only after every resolver of
\* the list has failed it.
THEOREM NoneIsMissed == Spec => []NoneMissed
<1>1. IInv => NoneMissed
  <2> SUFFICES ASSUME IInv, NEW n \in Names, byName[n] = Base, published[n] # Nothing
               PROVE  failures[n] = Servers
    BY DEF NoneMissed
  <2>1. Known(n) /\ published[n] # Base
    BY FleetAssumption DEF Known, IInv, Shape, Nothing, Base
  <2> QED
    BY <2>1 DEF IInv, Offers
<1> QED
  BY <1>1, Invariant, PTL

\* However many targets bear a name it is asked about once, and silence costs
\* two exchanges and a connection for each resolver and name and no more.
THEOREM LittleIsAsked == Spec => []AsksLittle
<1>1. IInv => OneLookupEach
  <2> SUFFICES ASSUME IInv
               PROVE  OneLookupEach
    OBVIOUS
  <2>1. \A n \in Names : lookups[n] = 0 \/ lookups[n] = 1
    BY DEF IInv, Ledger
  <2> QED
    BY <2>1 DEF IInv, Ledger, OneLookupEach
<1>2. IInv => WithinBudget
  <2> SUFFICES ASSUME IInv
               PROVE  elapsed <= Cardinality(Names) * Servers * (2 * Patience + Connect)
    BY DEF WithinBudget
  <2>1. /\ Cardinality(KnownNames) \in Nat /\ Cardinality(Names) \in Nat
        /\ Cardinality(KnownNames) <= Cardinality(Names)
    BY KnownNamesCount DEF KnownNames
  <2>2. elapsed \in Nat
    BY DEF IInv, Shape, TypeOK
  <2>3. elapsed <= Cardinality(Names) * Round
    <3>1. CASE ~Asking
      <4>1. elapsed <= Cardinality(KnownNames) * Round
        BY <2>1, <2>2, <3>1, Constants, OneMore DEF IInv, Spent
      <4>2. Cardinality(KnownNames) * Round <= Cardinality(Names) * Round
        BY <2>1, Constants, NotMore
      <4> QED
        BY <2>1, <2>2, <4>1, <4>2, Constants, OneMore
    <3>2. CASE Asking
      <4>1. PICK n \in Names : n = Now /\ n \notin KnownNames
        BY <3>2 DEF IInv, Shape, KnownNames
      <4>2. /\ KnownNames \cup {n} \in SUBSET Names
            /\ KnownNames \in SUBSET Names
        BY DEF KnownNames
      <4>3. Cardinality(KnownNames) + 1 <= Cardinality(Names)
        BY <4>1, <4>2, KnownNamesCount
      <4>4. (Cardinality(KnownNames) + 1) * Round <= Cardinality(Names) * Round
        BY <2>1, <4>3, Constants, NotMore
      <4>5. (Cardinality(KnownNames) + 1) * Round = Cardinality(KnownNames) * Round + Round
        BY <2>1, Constants, OneMore
      <4>6. (server - 1) * Exchange + Used <= Round
        BY <3>2, RoundHolds DEF IInv
      <4>7. /\ Used \in Int /\ (server - 1) * Exchange \in Int
            /\ Cardinality(KnownNames) * Round \in Nat
            /\ Cardinality(Names) * Round \in Nat
        BY <2>1, <3>2, Constants, UsedIsBounded, OneMore DEF IInv, Shape, TypeOK
      <4>8. elapsed <= Cardinality(KnownNames) * Round + ((server - 1) * Exchange + Used)
        BY <3>2 DEF IInv, Spent
      <4> QED
        BY <2>2, <4>4, <4>5, <4>6, <4>7, <4>8, Constants
    <3> QED
      BY <3>1, <3>2
  <2>4. Cardinality(Names) * Round = Cardinality(Names) * Servers * (2 * Patience + Connect)
    BY <2>1, Constants, FleetAssumption DEF Round, Exchange
  <2> QED
    BY <2>3, <2>4
<1> QED
  BY <1>1, <1>2, Invariant, PTL DEF AsksLittle

=============================================================================
