--------------------------- MODULE LibraryProofs ---------------------------
(***************************************************************************)
(* What Library's run shows for calls of three words on two slots, proved  *)
(* for every call, every limit and every list of profiles.                 *)
(*                                                                         *)
(* As in RunnerProofs the two counters are what has to be right: the slots *)
(* taken are as many as the goroutines that hold one, and Probe has        *)
(* received from as many as have ended.  That one report comes back for    *)
(* each word is a matter of counting: ParseAll's two lists share the words *)
(* out between them, and the reports are those of the one list followed by *)
(* those of the other.                                                     *)
(***************************************************************************)
EXTENDS Library, FiniteSetTheorems, TLAPS

\* Who holds a slot, and who has been received from.
Holding == {t \in Target : pc[t] \in {"loop", "dialing", "deferred"}}
Gone == {t \in Target : pc[t] = "gone"}

Counts == sem = Cardinality(Holding) /\ received = Cardinality(Gone)

Entries == [profile : Profile, kind : Kind]

\* TypeOK less the bounds of the counters, which follow from Counts.
Types ==
  /\ targets \in Seq(Word)
  /\ parsed = Kept(targets, Word \ Unparsable) /\ parsed \in Seq(Word)
  /\ errs = Kept(targets, Unparsable) /\ errs \in Seq(Word)
  /\ launched \in 0..N
  /\ received \in Int
  /\ sem \in Int /\ sem <= concurrency
  /\ pc \in [Target -> Places]
  /\ results \in [Target -> Seq(Entries)]
  /\ returned \in {"no", "error", "reports"}

\* Goroutines start in order, none for a call that is refused; the profiles
\* are dialled to the end of the list and not past it; and Probe returns with
\* reports only after the last receive.
Progress ==
  /\ \A t \in Target : pc[t] = "unborn" <=> t > launched
  /\ ~Accepted => launched = 0
  /\ returned = "error" => ~Accepted
  /\ returned = "reports" => launched = N /\ received = N
  /\ \A t \in Target : /\ Len(results[t]) <= Len(Sel)
                       /\ pc[t] = "dialing" => Len(results[t]) < Len(Sel)

\* The reports of the words that parse, each from its own dials.
Own ==
  [t \in Target |-> IF pc[t] \in {"deferred", "sending", "gone"}
                    THEN Report(parsed[t], "graded", results[t]) ELSE NoReport]

Reports ==
  out = IF returned = "reports" THEN AppendUnparsed(Own, errs) ELSE Own

IInv == Types /\ Counts /\ Progress /\ Reports

----------------------------------------------------------------------------
(* Counting.                                                               *)

\* A set of numbers with 0 and every successor is all of them: induction over
\* a set, from finite sets being well founded.
LEMMA EveryNumber ==
  ASSUME NEW S, 0 \in S, \A n \in Nat : n \in S => n + 1 \in S
  PROVE  Nat \subseteq S
<1> SUFFICES ASSUME NEW b \in Nat, b \notin S
             PROVE  FALSE
  OBVIOUS
<1> DEFINE R == StrictSubsetOrdering(Nat)
           F == FiniteSubsetsOf(Nat)
           T == {0..m : m \in Nat \ S}
<1>1. IsWellFoundedOn(R, F)
  BY FS_StrictSubsetOrderingWellFounded
<1>2. T \subseteq F /\ T # {}
  <2>1. ASSUME NEW m \in Nat
        PROVE  0..m \in F
    BY FS_Interval DEF FiniteSubsetsOf
  <2> QED
    BY <2>1
<1> HIDE DEF R, F, T
<1>3. PICK x \in T : \A y \in T : <<y, x>> \notin R
  BY <1>1, <1>2, WFMin
<1>4. PICK m \in Nat \ S : x = 0..m
  BY DEF T
<1>5. m - 1 \in Nat /\ m - 1 \notin S
  <2>1. m # 0
    BY <1>4
  <2>2. m - 1 \in Nat /\ (m - 1) + 1 = m
    BY <2>1
  <2> QED
    BY <1>4, <2>2
<1>6. 0..(m - 1) \in T /\ <<0..(m - 1), 0..m>> \notin R
  BY <1>3, <1>4, <1>5 DEF T
<1>7. 0..(m - 1) \subseteq 0..m /\ 0..(m - 1) # 0..m
  <2>1. m \in 0..m /\ m \notin 0..(m - 1)
    BY <1>5
  <2> QED
    BY <1>5, <2>1
<1> QED
  BY <1>5, <1>6, <1>7 DEF R, StrictSubsetOrdering

\* How often w is among the first i places of s.
Count(w, s, i) == Cardinality({j \in 1..i : s[j] = w})

\* Counting one place more.
LEMMA CountSteps ==
  ASSUME NEW w, NEW s, NEW i \in Nat
  PROVE  /\ Count(w, s, 0) = 0
         /\ Count(w, s, i) \in Nat
         /\ Count(w, s, i + 1) = Count(w, s, i) + (IF s[i + 1] = w THEN 1 ELSE 0)
<1> DEFINE P(k) == {j \in 1..k : s[j] = w}
<1>1. P(0) = {}
  OBVIOUS
<1>2. IsFiniteSet(P(i))
  <2>1. IsFiniteSet(1..i) /\ P(i) \subseteq 1..i
    BY FS_Interval
  <2> QED
    BY <2>1, FS_Subset
<1>3. P(i + 1) = IF s[i + 1] = w THEN P(i) \cup {i + 1} ELSE P(i)
  <2>1. \A j : j \in 1..(i + 1) <=> j \in 1..i \/ j = i + 1
    OBVIOUS
  <2> QED
    BY <2>1
<1>4. i + 1 \notin P(i)
  OBVIOUS
<1>5. Cardinality(P(0)) = 0 /\ Cardinality(P(i)) \in Nat
  BY <1>1, <1>2, FS_EmptySet, FS_CardinalityType
<1>6. s[i + 1] = w => Cardinality(P(i + 1)) = Cardinality(P(i)) + 1
  BY <1>2, <1>3, <1>4, FS_AddElement
<1>7. s[i + 1] # w => Cardinality(P(i + 1)) = Cardinality(P(i)) + 0
  BY <1>3, <1>5
<1> QED
  BY <1>5, <1>6, <1>7 DEF Count

LEMMA CountOneMore ==
  ASSUME NEW w, NEW s, NEW i \in Nat
  PROVE  Count(w, s, i + 1) = Count(w, s, i) + (IF s[i + 1] = w THEN 1 ELSE 0)
BY CountSteps

\* Counting sees only the places it counts.
LEMMA CountSame ==
  ASSUME NEW w, NEW s, NEW r, NEW i \in Nat, \A j \in 1..i : s[j] = r[j]
  PROVE  Count(w, s, i) = Count(w, r, i)
<1>1. {j \in 1..i : s[j] = w} = {j \in 1..i : r[j] = w}
  OBVIOUS
<1> QED
  BY <1>1 DEF Count

\* The times a word is in a sequence are its count to the end.
LEMMA TimesIsCount ==
  ASSUME NEW w, NEW S, NEW s \in Seq(S)
  PROVE  Times(w, s) = Count(w, s, Len(s))
<1>1. DOMAIN s = 1..Len(s)
  OBVIOUS
<1> QED
  BY <1>1 DEF Times, Count

LEMMA TimesAreANumber ==
  ASSUME NEW w, NEW S, NEW s \in Seq(S)
  PROVE  Times(w, s) \in Nat
<1>1. PICK n \in Nat : n = Len(s)
  OBVIOUS
<1>2. Count(w, s, n) \in Nat
  BY CountSteps
<1> QED
  BY <1>1, <1>2, TimesIsCount

\* An appended word is one more of it and no more of any other.
LEMMA TimesAppended ==
  ASSUME NEW w, NEW S, NEW s \in Seq(S), NEW x \in S
  PROVE  Times(w, Append(s, x)) = Times(w, s) + (IF x = w THEN 1 ELSE 0)
<1>a. PICK a : a = Append(s, x)
  OBVIOUS
<1>1. /\ a \in Seq(S) /\ Len(a) = Len(s) + 1 /\ Len(s) \in Nat
      /\ a[Len(s) + 1] = x /\ \A j \in 1..Len(s) : a[j] = s[j]
  BY <1>a
<1>2. Count(w, a, Len(s) + 1) = Count(w, a, Len(s)) + (IF x = w THEN 1 ELSE 0)
  <2>1. PICK n \in Nat : n = Len(s)
    BY <1>1
  <2>2. Count(w, a, n + 1) = Count(w, a, n) + (IF a[n + 1] = w THEN 1 ELSE 0)
    BY CountOneMore
  <2> QED
    BY <1>1, <2>1, <2>2
<1>3. Count(w, a, Len(s)) = Count(w, s, Len(s))
  BY <1>1, CountSame
<1>4. Times(w, a) = Count(w, a, Len(s) + 1) /\ Times(w, s) = Count(w, s, Len(s))
  BY <1>1, TimesIsCount
<1> QED
  BY <1>a, <1>2, <1>3, <1>4

\* One sequence behind another has the places of both.
LEMMA OneBehindTheOther ==
  ASSUME NEW R, NEW n \in Nat, NEW m \in Nat,
         NEW a \in [1..n -> R], NEW b \in [1..m -> R]
  PROVE  /\ Len(a \o b) = n + m /\ DOMAIN (a \o b) = 1..(n + m)
         /\ \A i \in 1..n : (a \o b)[i] = a[i]
         /\ \A i \in 1..m : (a \o b)[n + i] = b[i]
<1>1. a \in Seq(R) /\ b \in Seq(R) /\ Len(a) = n /\ Len(b) = m
  OBVIOUS
<1>2. a \o b \in Seq(R) /\ Len(a \o b) = n + m
  BY <1>1
<1>3. \A i \in 1..(n + m) : (a \o b)[i] = IF i <= n THEN a[i] ELSE b[i - n]
  BY <1>1
<1>4. \A i \in 1..m : n + i \in 1..(n + m) /\ ~(n + i <= n) /\ (n + i) - n = i
  OBVIOUS
<1> QED
  BY <1>2, <1>3, <1>4

\* One sequence behind another is counted as the two are.
LEMMA CountBoth ==
  ASSUME NEW w, NEW s, NEW p, NEW e, NEW n \in Nat, NEW m \in Nat,
         \A j \in 1..n : s[j] = p[j],
         \A j \in 1..m : s[n + j] = e[j]
  PROVE  Count(w, s, n + m) = Count(w, p, n) + Count(w, e, m)
<1> DEFINE S == {i \in Nat : i <= m => Count(w, s, n + i) = Count(w, p, n) + Count(w, e, i)}
<1>1. 0 \in S
  <2>1. Count(w, s, n) = Count(w, p, n) /\ Count(w, p, n) \in Nat
    BY CountSame, CountSteps
  <2>2. Count(w, e, 0) = 0
    BY CountSteps
  <2> QED
    BY <2>1, <2>2
<1>2. ASSUME NEW i \in Nat, i \in S
      PROVE  i + 1 \in S
  <2> SUFFICES ASSUME i + 1 <= m
               PROVE  Count(w, s, n + (i + 1)) = Count(w, p, n) + Count(w, e, i + 1)
    OBVIOUS
  <2>1. Count(w, s, n + i) = Count(w, p, n) + Count(w, e, i)
    BY <1>2
  <2>2. n + i \in Nat /\ (n + i) + 1 = n + (i + 1) /\ s[n + (i + 1)] = e[i + 1]
    OBVIOUS
  <2>3. Count(w, s, n + (i + 1)) = Count(w, s, n + i) + (IF e[i + 1] = w THEN 1 ELSE 0)
    BY <2>2, CountSteps
  <2>4. Count(w, e, i + 1) = Count(w, e, i) + (IF e[i + 1] = w THEN 1 ELSE 0)
    BY CountSteps
  <2>5. Count(w, p, n) \in Nat /\ Count(w, e, i) \in Nat
    BY CountSteps
  <2> QED
    BY <2>1, <2>3, <2>4, <2>5
<1> HIDE DEF S
<1>3. m \in S
  BY <1>1, <1>2, EveryNumber
<1> QED
  BY <1>3 DEF S

----------------------------------------------------------------------------
(* ParseAll's two lists.                                                   *)

\* g is what ParseAll's loop has kept after each of its first m words.
Keeps(g, s, W, m) ==
  g = [i \in 0..m |-> IF i = 0 THEN << >>
                      ELSE IF s[i] \in W THEN Append(g[i - 1], s[i])
                           ELSE g[i - 1]]

\* The loop has such a history, however long it is.
LEMMA LoopRuns ==
  ASSUME NEW s, NEW W, NEW m \in Nat
  PROVE  \E g : Keeps(g, s, W, m)
<1> DEFINE S == {i \in Nat : \E g : Keeps(g, s, W, i)}
<1>1. 0 \in S
  <2>1. PICK g : g = [i \in 0..0 |-> << >>]
    OBVIOUS
  <2>2. Keeps(g, s, W, 0)
    BY <2>1 DEF Keeps
  <2> QED
    BY <2>2
<1>2. ASSUME NEW i \in Nat, i \in S
      PROVE  i + 1 \in S
  <2>1. PICK g : Keeps(g, s, W, i)
    BY <1>2
  <2> DEFINE new == IF s[i + 1] \in W THEN Append(g[i], s[i + 1]) ELSE g[i]
             h == [k \in 0..(i + 1) |-> IF k = i + 1 THEN new ELSE g[k]]
             r == [k \in 0..(i + 1) |-> IF k = 0 THEN << >>
                                        ELSE IF s[k] \in W THEN Append(h[k - 1], s[k])
                                             ELSE h[k - 1]]
  <2>2. ASSUME NEW k \in 0..(i + 1)
        PROVE  h[k] = r[k]
    <3>1. CASE k = i + 1
      <4>1. h[k - 1] = g[i] /\ k # 0
        BY <3>1
      <4> QED
        BY <3>1, <4>1
    <3>2. CASE k # i + 1
      <4>1. k \in 0..i /\ (k # 0 => k - 1 \in 0..i)
        BY <3>2
      <4>2. h[k] = g[k] /\ (k # 0 => h[k - 1] = g[k - 1])
        BY <4>1
      <4>3. g[k] = IF k = 0 THEN << >>
                   ELSE IF s[k] \in W THEN Append(g[k - 1], s[k])
                        ELSE g[k - 1]
        BY <2>1, <4>1 DEF Keeps
      <4> QED
        BY <4>2, <4>3
    <3> QED
      BY <3>1, <3>2
  <2>3. h = r
    <3>1. \A k \in 0..(i + 1) : h[k] = r[k]
      BY <2>2
    <3> HIDE DEF new
    <3> QED
      BY <3>1
  <2>4. Keeps(h, s, W, i + 1)
    BY <2>3 DEF Keeps
  <2> HIDE DEF h
  <2> QED
    BY <2>4
<1> HIDE DEF S
<1>3. m \in S
  BY <1>1, <1>2, EveryNumber
<1> QED
  BY <1>3 DEF S

\* So what Kept returns is the end of one.
LEMMA KeptIsTheEnd ==
  ASSUME NEW s, NEW W, Len(s) \in Nat
  PROVE  \E g : Keeps(g, s, W, Len(s)) /\ Kept(s, W) = g[Len(s)]
<1> DEFINE C == CHOOSE g : Keeps(g, s, W, Len(s))
<1>1. \E g : Keeps(g, s, W, Len(s))
  BY LoopRuns
<1>2. Keeps(C, s, W, Len(s))
  BY <1>1
<1>3. Kept(s, W) = C[Len(s)]
  BY DEF Kept, Keeps
<1> QED
  BY <1>2, <1>3

\* Every word goes to one of the two lists, as often as it is there.
LEMMA Shared ==
  ASSUME NEW S, NEW s \in Seq(S), NEW W \in SUBSET S
  PROVE  /\ Kept(s, W) \in Seq(S) /\ Kept(s, S \ W) \in Seq(S)
         /\ Len(Kept(s, W)) + Len(Kept(s, S \ W)) = Len(s)
         /\ \A w : Times(w, Kept(s, W)) + Times(w, Kept(s, S \ W)) = Times(w, s)
<1>0. Len(s) \in Nat /\ \A i \in 1..Len(s) : s[i] \in S
  OBVIOUS
<1>1. PICK g : Keeps(g, s, W, Len(s)) /\ Kept(s, W) = g[Len(s)]
  BY <1>0, KeptIsTheEnd
<1>2. PICK h : Keeps(h, s, S \ W, Len(s)) /\ Kept(s, S \ W) = h[Len(s)]
  BY <1>0, KeptIsTheEnd
<1> DEFINE Fair(i) == /\ g[i] \in Seq(S) /\ h[i] \in Seq(S)
                      /\ Len(g[i]) + Len(h[i]) = i
                      /\ \A w : Times(w, g[i]) + Times(w, h[i]) = Count(w, s, i)
           T == {i \in Nat : i <= Len(s) => Fair(i)}
<1> HIDE DEF Fair
<1>3. 0 \in T
  <2>1. g[0] = << >> /\ h[0] = << >>
    BY <1>0, <1>1, <1>2 DEF Keeps
  <2>2. ASSUME NEW w
        PROVE  Times(w, << >>) = 0 /\ Count(w, s, 0) = 0
    <3>1. {i \in DOMAIN << >> : << >>[i] = w} = {}
      OBVIOUS
    <3> QED
      BY <3>1, FS_EmptySet, CountSteps DEF Times
  <2>3. Len(<< >>) = 0 /\ << >> \in Seq(S)
    OBVIOUS
  <2>4. Fair(0)
    BY <2>1, <2>2, <2>3 DEF Fair
  <2> QED
    BY <2>4
<1>4. ASSUME NEW i \in Nat, i \in T
      PROVE  i + 1 \in T
  <2> SUFFICES ASSUME i + 1 <= Len(s)
               PROVE  Fair(i + 1)
    OBVIOUS
  <2>1. /\ g[i] \in Seq(S) /\ h[i] \in Seq(S)
        /\ Len(g[i]) + Len(h[i]) = i
        /\ \A w : Times(w, g[i]) + Times(w, h[i]) = Count(w, s, i)
    <3>1. Fair(i)
      BY <1>0, <1>4
    <3> QED
      BY <3>1 DEF Fair
  <2>2. PICK x \in S : x = s[i + 1]
    BY <1>0
  <2>3. /\ g[i + 1] = IF x \in W THEN Append(g[i], x) ELSE g[i]
        /\ h[i + 1] = IF x \in S \ W THEN Append(h[i], x) ELSE h[i]
    <3>1. i + 1 \in 0..Len(s) /\ i + 1 # 0 /\ (i + 1) - 1 = i
      BY <1>0
    <3> QED
      BY <1>1, <1>2, <2>2, <3>1 DEF Keeps
  <2>4. ASSUME NEW w
        PROVE  Times(w, g[i + 1]) + Times(w, h[i + 1]) = Count(w, s, i + 1)
    <3>1. Times(w, g[i]) + Times(w, h[i]) = Count(w, s, i)
      BY <2>1
    <3>2. /\ Times(w, Append(g[i], x)) = Times(w, g[i]) + (IF x = w THEN 1 ELSE 0)
          /\ Times(w, Append(h[i], x)) = Times(w, h[i]) + (IF x = w THEN 1 ELSE 0)
      BY <2>1, TimesAppended
    <3>3. Count(w, s, i + 1) = Count(w, s, i) + (IF x = w THEN 1 ELSE 0)
      BY <2>2, CountOneMore
    <3>4. Times(w, g[i]) \in Nat /\ Times(w, h[i]) \in Nat
      BY <2>1, TimesAreANumber
    <3> QED
      BY <2>3, <3>1, <3>2, <3>3, <3>4
  <2>5. g[i + 1] \in Seq(S) /\ h[i + 1] \in Seq(S)
    BY <2>1, <2>3
  <2>6. Len(g[i + 1]) + Len(h[i + 1]) = i + 1
    <3> HIDE DEF T
    <3>1. Len(g[i]) + Len(h[i]) = i
      BY <2>1
    <3>2. PICK a \in Nat, b \in Nat : a = Len(g[i]) /\ b = Len(h[i])
      BY <2>1
    <3>3. a + b = i
      BY <3>1, <3>2
    <3>4. (a + 1) + b = i + 1 /\ a + (b + 1) = i + 1
      BY <3>3
    <3>5. Len(Append(g[i], x)) = a + 1 /\ Len(Append(h[i], x)) = b + 1
      BY <2>1, <3>2
    <3>6. \/ Len(g[i + 1]) = a + 1 /\ Len(h[i + 1]) = b
          \/ Len(g[i + 1]) = a /\ Len(h[i + 1]) = b + 1
      BY <2>3, <3>2, <3>5
    <3> QED
      BY <3>4, <3>6
  <2> QED
    BY <2>4, <2>5, <2>6 DEF Fair
<1> HIDE DEF T
<1>5. Len(s) \in T
  BY <1>0, <1>3, <1>4, EveryNumber
<1>6. /\ g[Len(s)] \in Seq(S) /\ h[Len(s)] \in Seq(S)
      /\ Len(g[Len(s)]) + Len(h[Len(s)]) = Len(s)
      /\ \A w : Times(w, g[Len(s)]) + Times(w, h[Len(s)]) = Count(w, s, Len(s))
  <2>1. Fair(Len(s))
    BY <1>0, <1>5 DEF T
  <2> QED
    BY <2>1 DEF Fair
<1>7. \A w : Times(w, s) = Count(w, s, Len(s))
  BY TimesIsCount
<1> QED
  BY <1>1, <1>2, <1>6, <1>7

----------------------------------------------------------------------------
(* One lemma for the initial states, one for each conjunct.                *)

\* Sets of goroutines are finite, and count as sets do.
LEMMA GoroutineSets ==
  ASSUME NEW n \in Nat, NEW S \in SUBSET (1..n)
  PROVE  /\ Cardinality(S) \in 0..n
         /\ \A t \in (1..n) \ S : Cardinality(S \cup {t}) = Cardinality(S) + 1
         /\ \A t \in S : Cardinality(S \ {t}) = Cardinality(S) - 1
         /\ Cardinality(S) = 0 <=> S = {}
         /\ Cardinality(S) = n => S = 1..n
         /\ \A R \in SUBSET S : Cardinality(R) <= Cardinality(S)
<1>1. IsFiniteSet(1..n) /\ Cardinality(1..n) = n
  BY FS_Interval
<1>2. IsFiniteSet(S) /\ Cardinality(S) <= n /\ Cardinality(S) \in Nat
  BY <1>1, FS_Subset, FS_CardinalityType
<1>3. \A t \in (1..n) \ S : Cardinality(S \cup {t}) = Cardinality(S) + 1
  BY <1>2, FS_AddElement
<1>4. \A t \in S : Cardinality(S \ {t}) = Cardinality(S) - 1
  BY <1>2, FS_RemoveElement
<1>5. Cardinality(S) = 0 <=> S = {}
  BY <1>2, FS_EmptySet
<1>6. \A R \in SUBSET S : Cardinality(R) <= Cardinality(S)
  BY <1>2, FS_Subset
<1>7. Cardinality(S) = n => S = 1..n
  BY <1>1, FS_Subset
<1> QED
  BY <1>2, <1>3, <1>4, <1>5, <1>6, <1>7

\* There is a slot at least, whatever the embedder asked for.
LEMMA SlotsPositive == concurrency \in Nat \ {0}
BY LibraryAssumption DEF concurrency

\* Before Probe starts anything.
LEMMA IInvInit == Init => IInv
<1> SUFFICES ASSUME Init
             PROVE  IInv
  OBVIOUS
<1>1. /\ targets \in Seq(Word) /\ parsed = Kept(targets, Word \ Unparsable)
      /\ errs = Kept(targets, Unparsable)
  BY LibraryAssumption DEF Init
<1>2. parsed \in Seq(Word) /\ errs \in Seq(Word)
  BY <1>1, Shared, LibraryAssumption
<1>3. N \in Nat
  BY <1>2 DEF N
<1>4. Types
  <2>1. << >> \in Seq(Entries)
    OBVIOUS
  <2>2. pc \in [Target -> Places] /\ results \in [Target -> Seq(Entries)]
    BY <2>1 DEF Init, Places
  <2> QED
    BY <1>1, <1>2, <1>3, <2>2, SlotsPositive DEF Init, Types
<1>5. Counts
  <2>1. Holding = {} /\ Gone = {}
    BY DEF Init, Holding, Gone
  <2> QED
    BY <2>1, FS_EmptySet DEF Init, Counts
<1>6. Progress
  <2>1. Len(Sel) \in Nat
    BY LibraryAssumption
  <2>2. \A t \in Target : /\ pc[t] = "unborn" /\ t > launched
                          /\ Len(results[t]) <= Len(Sel)
    BY <2>1 DEF Init, Target
  <2> QED
    BY <2>2 DEF Init, Progress
<1>7. Reports
  BY DEF Init, Reports, Own
<1> QED
  BY <1>4, <1>5, <1>6, <1>7 DEF IInv

\* A call does not change while it runs.
LEMMA CallStays ==
  ASSUME [Next]_vars
  PROVE  /\ UNCHANGED <<targets, valid, parsed, errs>>
         /\ N' = N /\ Target' = Target /\ Accepted' = Accepted
<1>1. UNCHANGED <<targets, valid, parsed, errs>>
  BY DEF Next, Caller, Goroutine, Refuse, Launch, Return, Meet, Acquire, Dial,
         Dialled, Grade, Release, Cancel, Over, vars, call
<1> QED
  BY <1>1 DEF N, Target, Accepted

\* No step leaves the types.
LEMMA TypesStep ==
  ASSUME IInv, [Next]_vars
  PROVE  Types'
<1>0. Types /\ Progress
  BY DEF IInv
<1>1. /\ UNCHANGED <<targets, valid, parsed, errs>>
      /\ N' = N /\ Target' = Target
      /\ N \in Nat
  BY <1>0, CallStays DEF Types, N
<1> USE <1>0, <1>1 DEF Types, Places
<1>2. CASE Launch
  <2>1. launched' \in 0..N
    BY <1>2 DEF Launch
  <2> QED
    BY <1>2, <2>1 DEF Launch
<1>3. ASSUME NEW t \in Target, Goroutine(t)
      PROVE  Types'
  <2>1. CASE Acquire(t)
    BY <2>1, SlotsPositive DEF Acquire, Free
  <2>2. CASE Dial(t) \/ Grade(t)
    BY <2>2 DEF Dial, Grade
  <2>3. ASSUME NEW k \in Kind, Dialled(t, k)
        PROVE  Types'
    <3>1. results[t] \in Seq(Entries) /\ Len(results[t]) \in Nat
      OBVIOUS
    <3>2. Len(results[t]) < Len(Sel) /\ Sel \in Seq(Profile)
      BY <2>3, LibraryAssumption DEF Progress, Dialled
    <3>3. Sel[Len(results[t]) + 1] \in Profile
      BY <3>1, <3>2
    <3>4. Append(results[t], [profile |-> Sel[Len(results[t]) + 1], kind |-> k]) \in Seq(Entries)
      BY <3>1, <3>3 DEF Entries
    <3>5. results' \in [Target -> Seq(Entries)]
      BY <2>3, <3>4 DEF Dialled
    <3>6. pc' \in [Target -> Places] /\ UNCHANGED <<launched, sem, received, returned>>
      BY <2>3 DEF Dialled
    <3> QED
      BY <3>5, <3>6
  <2>4. CASE Release(t)
    BY <2>4, SlotsPositive DEF Release
  <2> QED
    BY <1>3, <2>1, <2>2, <2>3, <2>4 DEF Goroutine
<1>4. ASSUME NEW t \in Target, Meet(t)
      PROVE  Types'
  BY <1>4 DEF Meet
<1>5. CASE Refuse \/ Return \/ Cancel \/ UNCHANGED vars
  BY <1>5 DEF Refuse, Return, Cancel, vars
<1> QED
  BY <1>2, <1>3, <1>4, <1>5 DEF Next, Caller, Over

\* Acquire and Release move a goroutine in and out of Holding as they count,
\* and Meet moves it into Gone.
LEMMA CountsStep ==
  ASSUME IInv, [Next]_vars
  PROVE  Counts'
<1>0. /\ Target' = Target /\ N \in Nat /\ Target = 1..N
      /\ Holding \in SUBSET Target /\ Gone \in SUBSET Target
      /\ sem = Cardinality(Holding) /\ received = Cardinality(Gone)
      /\ pc \in [Target -> Places]
  <2>1. Target' = Target
    BY CallStays
  <2>2. N \in Nat /\ Target = 1..N
    BY DEF IInv, Types, Target, N
  <2>3. Holding \in SUBSET Target /\ Gone \in SUBSET Target
    BY DEF Holding, Gone
  <2> QED
    BY <2>1, <2>2, <2>3 DEF IInv, Types, Counts
<1>1. CASE Launch
  <2>1. launched + 1 \in Target /\ pc[launched + 1] = "unborn"
    BY <1>0, <1>1 DEF Launch, IInv, Progress, Types
  <2>2. Holding' = Holding /\ Gone' = Gone
    BY <1>0, <1>1, <2>1 DEF Launch, Holding, Gone
  <2> QED
    BY <1>0, <1>1, <2>2 DEF Launch, Counts
<1>2. ASSUME NEW t \in Target, Acquire(t)
      PROVE  Counts'
  <2>1. Holding' = Holding \cup {t} /\ Gone' = Gone /\ t \in Target \ Holding
    BY <1>0, <1>2 DEF Acquire, Holding, Gone
  <2> QED
    BY <1>0, <1>2, <2>1, GoroutineSets DEF Acquire, Counts
<1>3. ASSUME NEW t \in Target, Dial(t) \/ Grade(t) \/ (\E k \in Kind : Dialled(t, k))
      PROVE  Counts'
  <2>1. Holding' = Holding /\ Gone' = Gone /\ sem' = sem /\ received' = received
    BY <1>0, <1>3 DEF Dial, Grade, Dialled, Holding, Gone
  <2> QED
    BY <1>0, <2>1 DEF Counts
<1>4. ASSUME NEW t \in Target, Release(t)
      PROVE  Counts'
  <2>1. Holding' = Holding \ {t} /\ Gone' = Gone /\ t \in Holding
    BY <1>0, <1>4 DEF Release, Holding, Gone
  <2> QED
    BY <1>0, <1>4, <2>1, GoroutineSets DEF Release, Counts
<1>5. ASSUME NEW t \in Target, Meet(t)
      PROVE  Counts'
  <2>1. Holding' = Holding /\ Gone' = Gone \cup {t} /\ t \in Target \ Gone
    BY <1>0, <1>5 DEF Meet, Holding, Gone
  <2> QED
    BY <1>0, <1>5, <2>1, GoroutineSets DEF Meet, Counts
<1>6. CASE Refuse \/ Return \/ Cancel \/ UNCHANGED vars
  <2>1. UNCHANGED <<sem, received, pc>>
    BY <1>6 DEF Refuse, Return, Cancel, vars
  <2>2. Holding' = Holding /\ Gone' = Gone
    BY <1>0, <2>1 DEF Holding, Gone
  <2> QED
    BY <1>0, <2>1, <2>2 DEF Counts
<1> QED
  BY <1>1, <1>2, <1>3, <1>4, <1>5, <1>6 DEF Next, Caller, Goroutine, Over

\* Once Probe has returned no goroutine has a step left: after reports all of
\* them are gone, after an error none was started.
LEMMA NobodyMovesAfter ==
  ASSUME IInv, returned # "no"
  PROVE  /\ \A t \in Target : pc[t] = IF returned = "error" THEN "unborn" ELSE "gone"
         /\ returned = "reports" => launched = N
         /\ returned = "error" => ~Accepted
<1>0. /\ N \in Nat /\ Target = 1..N /\ Gone \in SUBSET (1..N)
      /\ received = Cardinality(Gone)
  BY DEF IInv, Types, Counts, Gone, Target, N
<1>1. CASE returned = "reports"
  <2>1. received = N /\ launched = N
    BY <1>1 DEF IInv, Progress
  <2>2. Gone = Target
    BY <1>0, <2>1, GoroutineSets
  <2> QED
    BY <1>1, <2>1, <2>2 DEF Gone
<1>2. CASE returned = "error"
  <2>1. ~Accepted /\ launched = 0
    BY <1>2 DEF IInv, Progress
  <2>2. \A t \in Target : t > launched
    BY <1>0, <2>1
  <2> QED
    BY <1>2, <2>1, <2>2 DEF IInv, Progress
<1> QED
  BY <1>1, <1>2 DEF IInv, Types

\* Goroutines start in order, dial their lists to the end, and Probe returns
\* after all of them.
LEMMA ProgressStep ==
  ASSUME IInv, [Next]_vars
  PROVE  Progress'
<1>0. Types /\ Progress
  BY DEF IInv
<1>1. /\ N' = N /\ Target' = Target /\ Accepted' = Accepted /\ N \in Nat
      /\ Target = 1..N /\ Len(Sel) \in Nat
      /\ \A t \in Target : Len(results[t]) \in Nat
  <2>1. N' = N /\ Target' = Target /\ Accepted' = Accepted
    BY CallStays
  <2>2. N \in Nat /\ Target = 1..N /\ Len(Sel) \in Nat
    BY <1>0, LibraryAssumption DEF Types, N, Target
  <2> QED
    BY <1>0, <2>1, <2>2 DEF Types
<1>2. CASE Launch
  <2>1. returned = "no"
    BY <1>0, <1>2, NobodyMovesAfter DEF Launch, Types
  <2>2. launched + 1 \in Target
    BY <1>0, <1>1, <1>2 DEF Launch, Types
  <2>3. \A t \in Target : t > launched' <=> t > launched /\ t # launched + 1
    BY <1>0, <1>1, <1>2 DEF Launch, Types
  <2>4. \A t \in Target : pc'[t] = IF t = launched + 1 THEN "queued" ELSE pc[t]
    BY <1>0, <1>2, <2>2 DEF Launch, Types
  <2>5. \A t \in Target : pc'[t] = "unborn" <=> t > launched'
    BY <1>0, <2>3, <2>4 DEF Progress
  <2> QED
    BY <1>0, <1>1, <1>2, <2>1, <2>4, <2>5 DEF Launch, Progress
<1>3. ASSUME NEW t \in Target, Goroutine(t) \/ Meet(t)
      PROVE  Progress'
  <2>1. /\ UNCHANGED <<launched, returned>>
        /\ \A u \in Target : pc'[u] = "unborn" <=> pc[u] = "unborn"
    BY <1>0, <1>3 DEF Goroutine, Acquire, Dial, Dialled, Grade, Release, Meet, Types
  <2>2. returned # "reports"
    <3>1. pc[t] # "gone"
      BY <1>3 DEF Goroutine, Acquire, Dial, Dialled, Grade, Release, Meet
    <3> QED
      BY <3>1, NobodyMovesAfter
  <2>3. \A u \in Target : /\ Len(results'[u]) <= Len(Sel)
                          /\ pc'[u] = "dialing" => Len(results'[u]) < Len(Sel)
    <3>1. CASE Dial(t)
      BY <1>0, <3>1 DEF Dial, Progress, Types
    <3>2. ASSUME NEW k \in Kind, Dialled(t, k)
          PROVE  \A u \in Target : /\ Len(results'[u]) <= Len(Sel)
                                   /\ pc'[u] = "dialing" => Len(results'[u]) < Len(Sel)
      <4>1. /\ Len(results[t]) < Len(Sel) /\ Len(results[t]) \in Nat
            /\ results[t] \in Seq(Entries)
        BY <1>0, <1>1, <3>2 DEF Dialled, Progress, Types
      <4>2. /\ Len(results'[t]) = Len(results[t]) + 1 /\ pc'[t] = "loop"
            /\ \A u \in Target : u # t => results'[u] = results[u] /\ pc'[u] = pc[u]
        BY <1>0, <3>2, <4>1 DEF Dialled, Types
      <4>3. Len(results'[t]) <= Len(Sel)
        BY <1>1, <4>1, <4>2
      <4> QED
        BY <1>0, <4>2, <4>3 DEF Progress
    <3>3. CASE Acquire(t) \/ Grade(t) \/ Release(t) \/ Meet(t)
      <4>1. /\ results' = results
            /\ \A u \in Target : pc'[u] = "dialing" => pc[u] = "dialing"
        BY <1>0, <3>3 DEF Acquire, Grade, Release, Meet, Types
      <4> QED
        BY <1>0, <4>1 DEF Progress
    <3> QED
      BY <1>3, <3>1, <3>2, <3>3 DEF Goroutine
  <2> QED
    BY <1>0, <1>1, <2>1, <2>2, <2>3 DEF Progress
<1>4. CASE Refuse
  BY <1>0, <1>1, <1>4 DEF Refuse, Accepted, Progress
<1>5. CASE Return
  BY <1>0, <1>1, <1>5 DEF Return, AllIn, Progress
<1>6. CASE Cancel \/ UNCHANGED vars
  BY <1>0, <1>1, <1>6 DEF Cancel, vars, Progress
<1> QED
  BY <1>2, <1>3, <1>4, <1>5, <1>6 DEF Next, Caller, Over

\* A goroutine writes its own entry, once, from what is final by then; the
\* words that did not parse are appended behind all of them.
LEMMA ReportsStep ==
  ASSUME IInv, [Next]_vars
  PROVE  Reports'
<1>0. Types /\ Progress /\ Reports
  BY DEF IInv
<1>1. N' = N /\ Target' = Target /\ parsed' = parsed /\ errs' = errs
  BY CallStays
<1>2. CASE returned # "no"
  <2>1. UNCHANGED <<out, returned, pc, results>>
    <3>1. ~Refuse /\ ~Return /\ ~Cancel
      BY <1>2 DEF Refuse, Return, Cancel
    <3>2. ~Launch
      BY <1>2, NobodyMovesAfter DEF Launch, IInv, Types
    <3>3. \A t \in Target : ~Goroutine(t) /\ ~Meet(t)
      BY <1>2, NobodyMovesAfter DEF Goroutine, Acquire, Dial, Dialled, Grade, Release, Meet
    <3> QED
      BY <3>1, <3>2, <3>3 DEF Next, Caller, Over, vars
  <2>2. Own' = Own
    BY <1>1, <2>1 DEF Own
  <2> QED
    BY <1>0, <1>1, <2>1, <2>2 DEF Reports
<1>3. CASE returned = "no"
  <2>1. out = Own
    BY <1>0, <1>3 DEF Reports
  <2>2. ASSUME UNCHANGED <<out, returned>>, Own' = Own
        PROVE  Reports'
    BY <1>3, <2>1, <2>2 DEF Reports
  <2>3. CASE Launch
    <3>1. launched + 1 \in Target /\ pc[launched + 1] = "unborn"
      <4>1. N \in Nat /\ Target = 1..N /\ launched \in 0..N /\ launched < N
        BY <1>0, <2>3 DEF Launch, Types, Target, N
      <4>2. launched + 1 \in Target /\ launched + 1 > launched
        BY <4>1
      <4> QED
        BY <1>0, <4>2 DEF Progress
    <3>2. \A u \in Target : pc'[u] \in {"deferred", "sending", "gone"}
                              <=> pc[u] \in {"deferred", "sending", "gone"}
      BY <1>0, <2>3, <3>1 DEF Launch, Types
    <3> QED
      BY <1>1, <2>2, <2>3, <3>2 DEF Launch, Own
  <2>4. ASSUME NEW t \in Target, Acquire(t) \/ Dial(t) \/ Release(t) \/ Meet(t)
        PROVE  Reports'
    <3>1. UNCHANGED <<out, returned, results>>
      BY <2>4 DEF Acquire, Dial, Release, Meet
    <3>2. \A u \in Target : pc'[u] \in {"deferred", "sending", "gone"}
                              <=> pc[u] \in {"deferred", "sending", "gone"}
      BY <1>0, <2>4 DEF Acquire, Dial, Release, Meet, Types
    <3> QED
      BY <1>1, <2>2, <3>1, <3>2 DEF Own
  <2>5. ASSUME NEW t \in Target, NEW k \in Kind, Dialled(t, k)
        PROVE  Reports'
    <3>1. /\ UNCHANGED <<out, returned>> /\ pc[t] = "dialing" /\ pc'[t] = "loop"
          /\ \A u \in Target : u # t => results'[u] = results[u] /\ pc'[u] = pc[u]
      BY <1>0, <2>5 DEF Dialled, Types
    <3> QED
      BY <1>1, <2>2, <3>1 DEF Own
  <2>6. ASSUME NEW t \in Target, Grade(t)
        PROVE  Reports'
    <3>1. /\ returned' = returned /\ results' = results /\ pc'[t] = "deferred"
          /\ \A u \in Target : u # t => pc'[u] = pc[u]
          /\ out' = [out EXCEPT ![t] = Report(parsed[t], "graded", results[t])]
      BY <1>0, <2>6 DEF Grade, Types
    <3>2. out' = Own'
      BY <1>1, <2>1, <3>1 DEF Own
    <3> QED
      BY <1>3, <3>1, <3>2 DEF Reports
  <2>7. CASE Refuse
    <3>1. Own' = Own /\ out' = out /\ returned' = "error"
      BY <1>1, <2>7 DEF Refuse, Own
    <3> QED
      BY <2>1, <3>1 DEF Reports
  <2>8. CASE Return
    <3>1. Own' = Own /\ out' = AppendUnparsed(out, errs) /\ returned' = "reports"
      BY <1>1, <2>8 DEF Return, Own
    <3> QED
      BY <1>1, <2>1, <3>1 DEF Reports
  <2>9. CASE Cancel \/ UNCHANGED vars
    <3>1. Own' = Own /\ UNCHANGED <<out, returned>>
      BY <1>1, <2>9 DEF Cancel, vars, Own
    <3> QED
      BY <2>2, <3>1
  <2> QED
    BY <2>3, <2>4, <2>5, <2>6, <2>7, <2>8, <2>9 DEF Next, Caller, Goroutine, Over
<1> QED
  BY <1>2, <1>3

----------------------------------------------------------------------------
(* The theorems.                                                           *)

\* IInv is inductive.
LEMMA IInvStep == IInv /\ [Next]_vars => IInv'
BY TypesStep, CountsStep, ProgressStep, ReportsStep DEF IInv

\* Every reachable state of a call satisfies the inductive invariant.
THEOREM Invariant == Spec => []IInv
<1>1. Init => IInv
  BY IInvInit
<1>2. IInv /\ [Next]_vars => IInv'
  BY IInvStep
<1> QED
  BY <1>1, <1>2, PTL DEF Spec

\* Whatever a call asks for, no more endpoints are dialled at a time than it
\* allows, and when it returns nothing it started is left: no goroutine
\* running or blocked, no slot taken.
THEOREM NothingSurvivesTheCall == Spec => []LibraryInv
<1>1. ASSUME IInv
      PROVE  LibraryInv
  <2>0. /\ N \in Nat /\ Target = 1..N
        /\ Holding \in SUBSET (1..N) /\ Gone \in SUBSET (1..N)
        /\ sem = Cardinality(Holding) /\ received = Cardinality(Gone)
        /\ sem <= concurrency
    BY <1>1 DEF IInv, Types, Counts, Holding, Gone, Target, N
  <2>1. TypeOK
    <3>1. Cardinality(Holding) \in 0..N /\ Cardinality(Gone) \in 0..N
      BY <2>0, GoroutineSets
    <3>2. received \in 0..N /\ sem \in 0..concurrency
      BY <2>0, <3>1, SlotsPositive
    <3> QED
      BY <1>1, <3>2 DEF IInv, Types, Progress, TypeOK
  <2>2. AtMostConcurrency
    <3> DEFINE D == {t \in Target : pc[t] = "dialing"}
    <3>1. D \in SUBSET Holding /\ D \in SUBSET (1..N)
      BY <2>0 DEF Holding
    <3>2. /\ Cardinality(D) <= Cardinality(Holding)
          /\ Cardinality(D) \in 0..N /\ Cardinality(Holding) \in 0..N
      BY <2>0, <3>1, GoroutineSets
    <3> QED
      BY <2>0, <3>2, SlotsPositive DEF AtMostConcurrency
  <2>3. NothingIsLeftBehind
    <3> SUFFICES ASSUME returned # "no"
                 PROVE  /\ sem = 0
                        /\ \A t \in Target : pc[t] = IF returned = "error" THEN "unborn" ELSE "gone"
      BY DEF NothingIsLeftBehind
    <3>1. \A t \in Target : pc[t] = IF returned = "error" THEN "unborn" ELSE "gone"
      BY <1>1, NobodyMovesAfter
    <3>2. Holding = {}
      BY <3>1 DEF Holding
    <3> QED
      BY <2>0, <3>1, <3>2, FS_EmptySet
  <2> QED
    BY <2>1, <2>2, <2>3 DEF LibraryInv
<1> QED
  BY <1>1, Invariant, PTL

\* A call that returns reports returns one for every word it was given, as
\* often as it was given: each probed one at its own place with the results of
\* its own dials, the ones that did not parse behind them.
THEOREM OneReportEach == Spec => []NobodyIsDropped
<1>1. ASSUME IInv
      PROVE  NobodyIsDropped
  <2> SUFFICES ASSUME returned = "reports"
               PROVE  LET words == [i \in DOMAIN out |-> out[i].word] IN
                      /\ Len(out) = Len(targets)
                      /\ \A w \in Word : Times(w, words) = Times(w, targets)
                      /\ \A t \in Target : out[t] = Report(parsed[t], "graded", results[t])
    BY DEF NobodyIsDropped
  <2> DEFINE words == [i \in DOMAIN out |-> out[i].word]
  <2>1. PICK n \in Nat, m \in Nat :
          /\ n = Len(parsed) /\ m = Len(errs) /\ n = N
          /\ parsed \in Seq(Word) /\ errs \in Seq(Word) /\ targets \in Seq(Word)
          /\ n + m = Len(targets)
          /\ \A w : Times(w, parsed) + Times(w, errs) = Times(w, targets)
    <3>1. /\ parsed = Kept(targets, Word \ Unparsable) /\ errs = Kept(targets, Unparsable)
          /\ parsed \in Seq(Word) /\ errs \in Seq(Word) /\ targets \in Seq(Word)
      BY <1>1 DEF IInv, Types
    <3>2. /\ Len(errs) + Len(parsed) = Len(targets)
          /\ \A w : Times(w, errs) + Times(w, parsed) = Times(w, targets)
      BY <3>1, Shared, LibraryAssumption
    <3>3. \A w : Times(w, errs) \in Nat /\ Times(w, parsed) \in Nat
      BY <3>1, TimesAreANumber
    <3>4. \A w : Times(w, parsed) + Times(w, errs) = Times(w, targets)
      BY <3>2, <3>3
    <3>5. PICK n \in Nat, m \in Nat : n = Len(parsed) /\ m = Len(errs)
      BY <3>1
    <3>6. n + m = Len(targets)
      BY <3>2, <3>5
    <3> QED
      BY <3>1, <3>4, <3>5, <3>6 DEF N
  <2> DEFINE own == [t \in 1..n |-> Report(parsed[t], "graded", results[t])]
             rest == [i \in 1..m |-> Report(errs[i], "unreachable", << >>)]
  <2>2. out = own \o rest
    <3>1. \A t \in Target : pc[t] = "gone"
      BY <1>1, NobodyMovesAfter
    <3>2. Own = own
      BY <2>1, <3>1 DEF Own, Target
    <3>3. DOMAIN errs = 1..m
      BY <2>1
    <3> QED
      BY <1>1, <3>2, <3>3 DEF IInv, Reports, AppendUnparsed
  <2>3. /\ Len(out) = n + m /\ DOMAIN out = 1..(n + m)
        /\ \A t \in 1..n : out[t] = own[t]
        /\ \A i \in 1..m : out[n + i] = rest[i]
    <3> DEFINE R == {own[t] : t \in 1..n} \cup {rest[i] : i \in 1..m}
    <3>1. own \in [1..n -> R] /\ rest \in [1..m -> R]
      OBVIOUS
    <3> HIDE DEF own, rest, R
    <3>2. /\ Len(own \o rest) = n + m /\ DOMAIN (own \o rest) = 1..(n + m)
          /\ \A t \in 1..n : (own \o rest)[t] = own[t]
          /\ \A i \in 1..m : (own \o rest)[n + i] = rest[i]
      BY <3>1, OneBehindTheOther
    <3> QED
      BY <2>2, <3>2
  <2>4. /\ \A t \in 1..n : words[t] = parsed[t]
        /\ \A i \in 1..m : words[n + i] = errs[i]
    <3>1. ASSUME NEW t \in 1..n
          PROVE  words[t] = parsed[t]
      <4>1. t \in DOMAIN out /\ out[t] = own[t]
        BY <2>3
      <4>2. own[t].word = parsed[t]
        BY DEF Report
      <4> QED
        BY <4>1, <4>2
    <3>2. ASSUME NEW i \in 1..m
          PROVE  words[n + i] = errs[i]
      <4>1. n + i \in DOMAIN out /\ out[n + i] = rest[i]
        BY <2>3
      <4>2. rest[i].word = errs[i]
        BY DEF Report
      <4> QED
        BY <4>1, <4>2
    <3> QED
      BY <3>1, <3>2
  <2>5. ASSUME NEW w \in Word
        PROVE  Times(w, words) = Times(w, targets)
    <3>1. PICK r : r = words
      OBVIOUS
    <3>2. /\ \A t \in 1..n : r[t] = parsed[t]
          /\ \A i \in 1..m : r[n + i] = errs[i]
          /\ DOMAIN r = 1..(n + m)
      BY <2>3, <2>4, <3>1
    <3>3. Count(w, r, n + m) = Count(w, parsed, n) + Count(w, errs, m)
      BY <3>2, CountBoth
    <3>4. Times(w, r) = Count(w, r, n + m)
      BY <3>2 DEF Times, Count
    <3>5. Times(w, parsed) = Count(w, parsed, n) /\ Times(w, errs) = Count(w, errs, m)
      BY <2>1, TimesIsCount
    <3> QED
      BY <2>1, <3>1, <3>3, <3>4, <3>5
  <2> QED
    BY <2>1, <2>3, <2>5 DEF Target
<1> QED
  BY <1>1, Invariant, PTL

=============================================================================
