---------------------------- MODULE RunnerProofs ----------------------------
(***************************************************************************)
(* What Runner's run shows for three endpoints on two slots, proved for    *)
(* every number of endpoints, every --concurrency and every plan.          *)
(*                                                                         *)
(* The two counters are what has to be right: the slots taken are as many  *)
(* as the goroutines that hold one, and the WaitGroup counts the ones that *)
(* were started and have not ended.  Everything else follows from that.    *)
(***************************************************************************)
EXTENDS Runner, FiniteSetTheorems, TLAPS

\* Who holds a slot, and who is running at all.
Holding == {t \in Target : pc[t] \in {"loop", "dialing", "releasing"}}
Alive == {t \in Target : pc[t] \notin {"unborn", "gone"}}

Counts == sem = Cardinality(Holding) /\ wg = Cardinality(Alive)

\* Goroutines start in order, and have reported exactly from Report on.
Progress ==
  /\ \A t \in Target : pc[t] = "unborn" <=> t > launched
  /\ \A t \in Target :
       reps[t] = IF pc[t] \in {"releasing", "exiting", "gone"}
                 THEN [target |-> t, results |-> results[t]] ELSE NoReport
  /\ returned => launched = N /\ wg = 0

\* A size is dialled only while every size before it was answered.
Sweeping ==
  \A t \in Target :
    /\ pc[t] = "dialing" => next[t] <= Len(Plan[t]) /\ ~Skipped(t)
    /\ \A i \in DOMAIN results[t] :
         results[t][i].profile \in SizeProbe /\ results[t][i].kind # "ok"
           => stopped[t]

\* A size before place i of the plan was dialled and not answered ...
FailedBefore(t, i) ==
  \E j \in 1..(i - 1) :
    /\ Plan[t][j] \in SizeProbe
    /\ \E n \in DOMAIN results[t] :
         results[t][n].profile = Plan[t][j] /\ results[t][n].kind # "ok"

\* ... which is what the flag says, and why a place that was passed without a
\* result was passed.
Accounted ==
  \A t \in Target :
    /\ stopped[t] => FailedBefore(t, next[t])
    /\ \A i \in 1..(next[t] - 1) : i \in DOMAIN Plan[t] =>
         \/ Answered(t, Plan[t][i])
         \/ Plan[t][i] \in SizeProbe /\ FailedBefore(t, i)

\* TypeOK less the bounds of the counters, which follow from Counts.
Types ==
  /\ launched \in 0..N
  /\ wg \in Int
  /\ sem \in Int /\ sem <= Slots
  /\ pc \in [Target -> Places]
  /\ next \in [Target -> Nat \ {0}]
  /\ stopped \in [Target -> BOOLEAN]
  /\ results \in [Target -> Seq(Entries)]
  /\ reps \in [Target -> Reports]
  /\ cancelled \in BOOLEAN
  /\ returned \in BOOLEAN

IInv == Types /\ Counts /\ Progress /\ Sweeping /\ SweepStops /\ Accounted

\* The slots are a positive number, whatever --concurrency says.
LEMMA SlotsPositive == Slots \in Nat \ {0}
BY RunnerAssumption DEF Slots

\* Sets of targets are finite, and count as sets do.
LEMMA TargetSets ==
  ASSUME NEW S \in SUBSET Target
  PROVE  /\ Cardinality(S) \in 0..N
         /\ \A t \in Target \ S : Cardinality(S \cup {t}) = Cardinality(S) + 1
         /\ \A t \in S : Cardinality(S \ {t}) = Cardinality(S) - 1
         /\ Cardinality(S) = 0 <=> S = {}
         /\ \A R \in SUBSET S : Cardinality(R) <= Cardinality(S)
<1>1. IsFiniteSet(Target) /\ Cardinality(Target) = N
  BY RunnerAssumption, FS_Interval DEF Target
<1>2. IsFiniteSet(S) /\ Cardinality(S) <= N /\ Cardinality(S) \in Nat
  BY <1>1, FS_Subset, FS_CardinalityType
<1>3. \A t \in Target \ S : Cardinality(S \cup {t}) = Cardinality(S) + 1
  BY <1>2, FS_AddElement
<1>4. \A t \in S : Cardinality(S \ {t}) = Cardinality(S) - 1
  BY <1>2, FS_RemoveElement
<1>5. Cardinality(S) = 0 <=> S = {}
  BY <1>2, FS_EmptySet
<1>6. \A R \in SUBSET S : Cardinality(R) <= Cardinality(S)
  BY <1>2, FS_Subset
<1> QED
  BY <1>2, <1>3, <1>4, <1>5, <1>6, RunnerAssumption

\* The inductive invariant holds before run launches anything.
LEMMA IInvInit == Init => IInv
<1> SUFFICES ASSUME Init
             PROVE  IInv
  OBVIOUS
<1>1. Types
  <2>1. NoReport \in Reports
    BY RunnerAssumption DEF NoReport, Reports
  <2>2. << >> \in Seq(Entries)
    OBVIOUS
  <2>3. N \in Nat
    BY RunnerAssumption
  <2>4. launched \in 0..N /\ wg \in Int /\ sem \in Int /\ sem <= Slots
    BY <2>3, SlotsPositive DEF Init
  <2>5. /\ pc \in [Target -> Places] /\ next \in [Target -> Nat \ {0}]
        /\ stopped \in [Target -> BOOLEAN]
    BY DEF Init, Places
  <2>6. results \in [Target -> Seq(Entries)] /\ reps \in [Target -> Reports]
    BY <2>1, <2>2 DEF Init
  <2> QED
    BY <2>4, <2>5, <2>6 DEF Init, Types
<1>2. Counts
  <2>1. Holding = {} /\ Alive = {}
    BY DEF Init, Holding, Alive
  <2> QED
    BY <2>1, FS_EmptySet DEF Init, Counts
<1>3. Progress /\ Sweeping /\ SweepStops /\ Accounted
  BY RunnerAssumption DEF Init, Progress, Sweeping, SweepStops, Accounted, Target
<1> QED
  BY <1>1, <1>2, <1>3 DEF IInv

----------------------------------------------------------------------------
(* One lemma for each conjunct.                                            *)

\* No step of run, its goroutines or the caller leaves the types.
LEMMA TypesStep ==
  ASSUME IInv, [Next]_vars
  PROVE  Types'
<1>0. Types /\ Sweeping
  BY DEF IInv
<1> USE <1>0 DEF Types, Places
<1>1. CASE Launch
  <2>1. N \in Nat
    BY RunnerAssumption
  <2>2. launched' \in 0..N /\ wg' \in Int
    BY <1>1, <2>1 DEF Launch
  <2>3. pc' \in [Target -> Places]
    BY <1>1 DEF Launch
  <2> QED
    BY <1>1, <2>2, <2>3 DEF Launch
<1>2. ASSUME NEW t \in Target, Goroutine(t)
      PROVE  Types'
  <2>1. CASE Acquire(t)
    BY <1>2, <2>1, SlotsPositive DEF Acquire, Free
  <2>2. CASE SkipSize(t)
    BY <1>2, <2>2 DEF SkipSize
  <2>3. CASE Dial(t)
    BY <1>2, <2>3 DEF Dial
  <2>4. ASSUME NEW k \in Kind, Dialled(t, k)
        PROVE  Types'
    <3>1. Current(t) \in Profile
      <4>1. next[t] <= Len(Plan[t]) /\ next[t] \in Nat \ {0}
        BY <2>4 DEF Dialled, Sweeping
      <4>2. Plan[t] \in Seq(Profile)
        BY RunnerAssumption
      <4> QED
        BY <4>1, <4>2 DEF Current
    <3>2. [profile |-> Current(t), kind |-> k] \in Entries
      BY <3>1 DEF Entries
    <3>3. results' \in [Target -> Seq(Entries)]
      <4>1. Append(results[t], [profile |-> Current(t), kind |-> k]) \in Seq(Entries)
        BY <3>2
      <4> QED
        BY <2>4, <4>1 DEF Dialled
    <3>4. stopped' \in [Target -> BOOLEAN]
      <4>1. (stopped[t] \/ Stops(t, k)) \in BOOLEAN
        BY DEF Stops
      <4> QED
        BY <2>4, <4>1 DEF Dialled
    <3>5. next' \in [Target -> Nat \ {0}] /\ pc' \in [Target -> Places]
      BY <2>4 DEF Dialled
    <3>6. UNCHANGED <<launched, wg, sem, reps, cancelled, returned>>
      BY <2>4 DEF Dialled
    <3> QED
      BY <3>3, <3>4, <3>5, <3>6
  <2>5. CASE Report(t)
    <3>1. [target |-> t, results |-> results[t]] \in Reports
      BY RunnerAssumption DEF Target, Reports
    <3> QED
      BY <2>5, <3>1 DEF Report
  <2>6. CASE Release(t)
    BY <1>2, <2>6, SlotsPositive DEF Release
  <2>7. CASE Done(t)
    BY <1>2, <2>7 DEF Done
  <2> QED
    BY <1>2, <2>1, <2>2, <2>3, <2>4, <2>5, <2>6, <2>7 DEF Goroutine
<1>3. CASE Return \/ Cancel
  BY <1>3 DEF Return, Cancel
<1>4. CASE UNCHANGED vars
  BY <1>4 DEF vars
<1> QED
  BY <1>1, <1>2, <1>3, <1>4 DEF Next, Over

\* Acquire and Release move a goroutine in and out of Holding as they count,
\* Launch and Done in and out of Alive.
LEMMA CountsStep ==
  ASSUME IInv, [Next]_vars
  PROVE  Counts'
<1> USE DEF IInv
<1>0. /\ Holding \in SUBSET Target /\ Alive \in SUBSET Target
      /\ sem = Cardinality(Holding) /\ wg = Cardinality(Alive)
      /\ pc \in [Target -> Places]
  BY DEF Holding, Alive, Counts, Types
<1>1. CASE Launch
  <2>1. launched + 1 \in Target /\ pc[launched + 1] = "unborn"
    BY <1>1, RunnerAssumption DEF Launch, Target, Progress, Types
  <2>2. Holding' = Holding /\ Alive' = Alive \cup {launched + 1}
    BY <1>0, <1>1, <2>1 DEF Launch, Holding, Alive
  <2>3. launched + 1 \in Target \ Alive
    BY <2>1 DEF Alive
  <2> QED
    BY <1>0, <1>1, <2>2, <2>3, TargetSets DEF Launch, Counts
<1>2. ASSUME NEW t \in Target, Goroutine(t)
      PROVE  Counts'
  <2>1. CASE Acquire(t)
    <3>1. Holding' = Holding \cup {t} /\ Alive' = Alive /\ t \in Target \ Holding
      BY <1>0, <2>1 DEF Acquire, Holding, Alive
    <3> QED
      BY <1>0, <2>1, <3>1, TargetSets DEF Acquire, Counts
  <2>2. CASE SkipSize(t) \/ Dial(t) \/ (\E k \in Kind : Dialled(t, k)) \/ Report(t)
    <3>1. Holding' = Holding /\ Alive' = Alive
      BY <1>0, <2>2 DEF SkipSize, Dial, Dialled, Report, InLoop, Holding, Alive
    <3>2. sem' = sem /\ wg' = wg
      BY <2>2 DEF SkipSize, Dial, Dialled, Report
    <3> QED
      BY <1>0, <3>1, <3>2 DEF Counts
  <2>3. CASE Release(t)
    <3>1. Holding' = Holding \ {t} /\ Alive' = Alive /\ t \in Holding
      BY <1>0, <2>3 DEF Release, Holding, Alive
    <3> QED
      BY <1>0, <2>3, <3>1, TargetSets DEF Release, Counts
  <2>4. CASE Done(t)
    <3>1. Holding' = Holding /\ Alive' = Alive \ {t} /\ t \in Alive
      BY <1>0, <2>4 DEF Done, Holding, Alive
    <3> QED
      BY <1>0, <2>4, <3>1, TargetSets DEF Done, Counts
  <2> QED
    BY <1>2, <2>1, <2>2, <2>3, <2>4 DEF Goroutine
<1>3. CASE Return \/ Cancel \/ UNCHANGED vars
  BY <1>0, <1>3 DEF Return, Cancel, vars, Counts, Holding, Alive
<1> QED
  BY <1>1, <1>2, <1>3 DEF Next, Over

\* Report writes its own entry once, from what is final by then.
LEMMA ProgressStep ==
  ASSUME IInv, [Next]_vars
  PROVE  Progress'
<1>0. Types /\ Progress /\ N \in Nat
  BY RunnerAssumption DEF IInv
<1> USE <1>0 DEF Progress, Types
<1>1. CASE Launch
  <2>1. launched + 1 \in Target
    BY <1>1 DEF Launch, Target
  <2>2. \A t \in Target : t > launched' <=> t > launched /\ t # launched + 1
    BY <1>1 DEF Launch, Target
  <2>3. wg = 0 => ~returned
    BY <1>1 DEF Launch
  <2>4. ~returned
    BY <1>1 DEF Launch
  <2> QED
    BY <1>1, <2>1, <2>2, <2>4 DEF Launch
<1>2. ASSUME NEW t \in Target, Goroutine(t)
      PROVE  Progress'
  <2>1. CASE Acquire(t) \/ SkipSize(t) \/ Dial(t) \/ Release(t)
    <3>1. UNCHANGED <<launched, wg, results, reps, returned>>
      BY <2>1 DEF Acquire, SkipSize, Dial, Release
    <3>2. /\ \A u \in Target : pc'[u] = "unborn" <=> pc[u] = "unborn"
          /\ \A u \in Target : pc'[u] \in {"releasing", "exiting", "gone"}
                               <=> pc[u] \in {"releasing", "exiting", "gone"}
      BY <2>1 DEF Acquire, SkipSize, Dial, Release, InLoop
    <3> QED
      BY <3>1, <3>2
  <2>2. CASE \E k \in Kind : Dialled(t, k)
    BY <2>2 DEF Dialled
  <2>3. CASE Report(t)
    BY <2>3 DEF Report
  <2>4. CASE Done(t)
    <3>1. ~returned
      <4>1. t \in Alive /\ Alive \in SUBSET Target /\ wg = Cardinality(Alive)
        BY <2>4 DEF Done, Alive, IInv, Counts
      <4> QED
        BY <4>1, TargetSets
    <3> QED
      BY <2>4, <3>1 DEF Done
  <2> QED
    BY <1>2, <2>1, <2>2, <2>3, <2>4 DEF Goroutine
<1>3. CASE Return \/ Cancel
  BY <1>3 DEF Return, Cancel
<1>4. CASE UNCHANGED vars
  BY <1>4 DEF vars
<1> QED
  BY <1>1, <1>2, <1>3, <1>4 DEF Next, Over

\* A failed size sets the flag before another size is looked at.
LEMMA SweepStep ==
  ASSUME IInv, [Next]_vars
  PROVE  Sweeping' /\ SweepStops'
<1>0. Types /\ Sweeping /\ SweepStops
  BY DEF IInv
<1>1. ASSUME NEW t \in Target, NEW k \in Kind, Dialled(t, k)
      PROVE  Sweeping' /\ SweepStops'
  <2> DEFINE e == [profile |-> Current(t), kind |-> k]
  <2>1. /\ results[t] \in Seq(Entries) /\ Len(results[t]) \in Nat
        /\ DOMAIN results[t] = 1..Len(results[t])
    BY <1>0 DEF Types
  <2>2. /\ results'[t] = Append(results[t], e)
        /\ stopped'[t] = (stopped[t] \/ Stops(t, k))
        /\ pc'[t] = "loop"
        /\ \A u \in Target \ {t} : /\ results'[u] = results[u]
                                   /\ stopped'[u] = stopped[u]
                                   /\ next'[u] = next[u]
                                   /\ pc'[u] = pc[u]
    BY <1>0, <1>1 DEF Dialled, Types
  <2>3. ~Skipped(t)
    BY <1>0, <1>1 DEF Dialled, Sweeping
  <2>4. /\ DOMAIN results'[t] = 1..(Len(results[t]) + 1)
        /\ \A i \in 1..Len(results[t]) : results'[t][i] = results[t][i]
        /\ results'[t][Len(results[t]) + 1] = e
    BY <2>1, <2>2
  <2>5. Sweeping'
    <3>1. ASSUME NEW i \in DOMAIN results'[t],
                 results'[t][i].profile \in SizeProbe, results'[t][i].kind # "ok"
          PROVE  stopped'[t]
      <4>1. CASE i \in 1..Len(results[t])
        <5>1. stopped[t]
          BY <1>0, <2>1, <2>4, <3>1, <4>1 DEF Sweeping
        <5> QED
          BY <2>2, <5>1
      <4>2. CASE i = Len(results[t]) + 1
        <5>1. Stops(t, k)
          BY <2>4, <3>1, <4>2 DEF Stops
        <5> QED
          BY <2>2, <5>1
      <4> QED
        BY <2>1, <2>4, <3>1, <4>1, <4>2
    <3>2. \A u \in Target \ {t} : Skipped(u)' <=> Skipped(u)
      BY <2>2 DEF Skipped, Current
    <3> QED
      BY <1>0, <2>2, <3>1, <3>2 DEF Sweeping
  <2>6. SweepStops'
    <3>1. ASSUME NEW i \in DOMAIN results'[t], NEW j \in DOMAIN results'[t],
                 i < j, results'[t][i].profile \in SizeProbe,
                 results'[t][j].profile \in SizeProbe
          PROVE  results'[t][i].kind = "ok"
      <4>1. CASE j \in 1..Len(results[t])
        <5>1. i \in 1..Len(results[t])
          BY <2>1, <2>4, <3>1, <4>1
        <5> QED
          BY <1>0, <2>1, <2>4, <3>1, <4>1, <5>1 DEF SweepStops
      <4>2. CASE j = Len(results[t]) + 1
        <5>1. i \in 1..Len(results[t])
          BY <2>1, <2>4, <3>1, <4>2
        <5>2. ~stopped[t]
          BY <2>3, <2>4, <3>1, <4>2 DEF Skipped
        <5> QED
          BY <1>0, <2>1, <2>4, <3>1, <5>1, <5>2 DEF Sweeping
      <4> QED
        BY <2>1, <2>4, <3>1, <4>1, <4>2
    <3> QED
      BY <1>0, <2>2, <3>1 DEF SweepStops
  <2> QED
    BY <2>5, <2>6
<1>2. ASSUME NEW t \in Target, Dial(t)
      PROVE  Sweeping' /\ SweepStops'
  BY <1>0, <1>2 DEF Dial, InLoop, Sweeping, SweepStops, Skipped, Current, Types
<1>3. CASE \/ Launch \/ Return \/ Cancel \/ UNCHANGED vars
           \/ \E t \in Target : \/ Acquire(t) \/ SkipSize(t) \/ Report(t)
                                \/ Release(t) \/ Done(t)
  <2>1. /\ UNCHANGED <<stopped, results>>
        /\ \A u \in Target : pc'[u] = "dialing" =>
             pc[u] = "dialing" /\ next'[u] = next[u]
    BY <1>0, <1>3 DEF Launch, Return, Cancel, vars, Acquire, SkipSize, Report,
                      Release, Done, InLoop, Types
  <2> QED
    BY <1>0, <2>1 DEF Sweeping, SweepStops, Skipped, Current
<1> QED
  BY <1>1, <1>2, <1>3 DEF Next, Over, Goroutine

\* A place is passed by its result, or as a size after one that failed.
LEMMA AccountedStep ==
  ASSUME IInv, [Next]_vars
  PROVE  Accounted'
<1>0. Types /\ Sweeping /\ Accounted
  BY DEF IInv
<1>1. ASSUME NEW t \in Target, NEW k \in Kind, Dialled(t, k)
      PROVE  Accounted'
  <2> DEFINE e == [profile |-> Current(t), kind |-> k]
             last == Len(results[t]) + 1
  <2>1. /\ results[t] \in Seq(Entries) /\ Len(results[t]) \in Nat
        /\ DOMAIN results[t] = 1..Len(results[t])
        /\ next[t] \in Nat \ {0}
    BY <1>0 DEF Types
  <2>2. /\ results'[t] = Append(results[t], e)
        /\ stopped'[t] = (stopped[t] \/ Stops(t, k))
        /\ next'[t] = next[t] + 1
        /\ \A u \in Target \ {t} : /\ results'[u] = results[u]
                                   /\ stopped'[u] = stopped[u]
                                   /\ next'[u] = next[u]
    BY <1>0, <1>1 DEF Dialled, Types
  <2>3. /\ DOMAIN results'[t] = 1..last
        /\ \A n \in DOMAIN results[t] :
             n \in DOMAIN results'[t] /\ results'[t][n] = results[t][n]
        /\ last \in DOMAIN results'[t] /\ results'[t][last] = e
    BY <2>1, <2>2
  <2>4. \A i : FailedBefore(t, i) => FailedBefore(t, i)'
    BY <2>3 DEF FailedBefore
  <2>5. \A p : Answered(t, p) => Answered(t, p)'
    BY <2>3 DEF Answered
  <2>6. ASSUME NEW m \in Nat, m = next[t] + 1, stopped'[t]
        PROVE  FailedBefore(t, m)'
    <3>1. CASE stopped[t]
      <4>1. PICK j \in 1..(next[t] - 1) :
              /\ Plan[t][j] \in SizeProbe
              /\ \E n \in DOMAIN results'[t] : /\ results'[t][n].profile = Plan[t][j]
                                              /\ results'[t][n].kind # "ok"
        BY <1>0, <2>3, <3>1 DEF Accounted, FailedBefore
      <4>2. j \in 1..(m - 1)
        BY <2>1, <2>6, <4>1
      <4> QED
        BY <4>1, <4>2 DEF FailedBefore
    <3>2. CASE Stops(t, k)
      <4>1. next[t] \in 1..(m - 1)
        BY <2>1, <2>6
      <4>2. /\ Plan[t][next[t]] \in SizeProbe
            /\ e.profile = Plan[t][next[t]] /\ e.kind # "ok"
        BY <3>2 DEF Stops, Current
      <4> QED
        BY <2>3, <4>1, <4>2 DEF FailedBefore
    <3> QED
      BY <2>2, <2>6, <3>1, <3>2
  <2>7. ASSUME NEW i \in 1..next[t], i \in DOMAIN Plan[t]
        PROVE  \/ Answered(t, Plan[t][i])'
               \/ Plan[t][i] \in SizeProbe /\ FailedBefore(t, i)'
    <3>1. CASE i = next[t]
      BY <2>3, <3>1 DEF Answered, Current
    <3>2. CASE i # next[t]
      <4>1. i \in 1..(next[t] - 1)
        BY <2>1, <3>2
      <4> QED
        BY <1>0, <2>4, <2>5, <2>7, <4>1 DEF Accounted
    <3> QED
      BY <3>1, <3>2
  <2>8. \A u \in Target \ {t} : /\ \A i : FailedBefore(u, i)' <=> FailedBefore(u, i)
                               /\ \A p : Answered(u, p)' <=> Answered(u, p)
    BY <2>2 DEF FailedBefore, Answered
  <2>9. next'[t] - 1 = next[t]
    BY <2>1, <2>2
  <2>10. stopped'[t] => FailedBefore(t, next[t])'
    <3>1. PICK m \in Nat : m = next'[t]
      BY <2>1, <2>2
    <3> QED
      BY <2>2, <2>6, <3>1 DEF FailedBefore
  <2>11. \A i \in 1..(next'[t] - 1) : i \in DOMAIN Plan[t] =>
           \/ Answered(t, Plan[t][i])'
           \/ Plan[t][i] \in SizeProbe /\ FailedBefore(t, i)'
    BY <2>7, <2>9
  <2>12. ASSUME NEW u \in Target, u # t
         PROVE  /\ (stopped[u] => FailedBefore(u, next[u]))'
                /\ \A i \in 1..(next'[u] - 1) : i \in DOMAIN Plan[u] =>
                     \/ Answered(u, Plan[u][i])'
                     \/ Plan[u][i] \in SizeProbe /\ FailedBefore(u, i)'
    <3>1. next'[u] = next[u] /\ stopped'[u] = stopped[u] /\ results'[u] = results[u]
      BY <2>2, <2>12
    <3>2. FailedBefore(u, next[u])' <=> FailedBefore(u, next[u])
      BY <3>1 DEF FailedBefore
    <3> QED
      BY <1>0, <2>12, <2>8, <3>1, <3>2 DEF Accounted
  <2> QED
    BY <2>10, <2>11, <2>12 DEF Accounted
<1>2. ASSUME NEW t \in Target, SkipSize(t)
      PROVE  Accounted'
  <2>1. /\ next[t] \in Nat \ {0} /\ next'[t] = next[t] + 1
        /\ \A u \in Target \ {t} : next'[u] = next[u]
        /\ stopped' = stopped /\ results' = results
    BY <1>0, <1>2 DEF SkipSize, Types
  <2>2. \A u, i : /\ FailedBefore(u, i)' <=> FailedBefore(u, i)
                 /\ \A p : Answered(u, p)' <=> Answered(u, p)
    BY <2>1 DEF FailedBefore, Answered
  <2>3. stopped[t] /\ Plan[t][next[t]] \in SizeProbe
    BY <1>2 DEF SkipSize, Skipped, Current
  <2>4. FailedBefore(t, next[t])
    BY <1>0, <2>3 DEF Accounted
  <2>5. FailedBefore(t, next[t] + 1)
    <3>1. \A j \in 1..(next[t] - 1) : j \in 1..((next[t] + 1) - 1)
      BY <2>1
    <3>2. PICK j \in 1..(next[t] - 1) :
            /\ Plan[t][j] \in SizeProbe
            /\ \E n \in DOMAIN results[t] : /\ results[t][n].profile = Plan[t][j]
                                            /\ results[t][n].kind # "ok"
      BY <2>4 DEF FailedBefore
    <3>3. j \in 1..((next[t] + 1) - 1)
      BY <3>1
    <3> QED
      BY <3>2, <3>3 DEF FailedBefore
  <2>6. \A i \in 1..(next'[t] - 1) : i \in 1..(next[t] - 1) \/ i = next[t]
    BY <2>1
  <2> QED
    BY <1>0, <2>1, <2>2, <2>3, <2>4, <2>5, <2>6 DEF Accounted
<1>3. CASE \/ Launch \/ Return \/ Cancel \/ UNCHANGED vars
           \/ \E t \in Target : \/ Acquire(t) \/ Dial(t) \/ Report(t)
                                \/ Release(t) \/ Done(t)
  <2>1. UNCHANGED <<stopped, results, next>>
    BY <1>3 DEF Launch, Return, Cancel, vars, Acquire, Dial, Report, Release, Done
  <2> QED
    BY <1>0, <2>1 DEF Accounted, FailedBefore, Answered
<1> QED
  BY <1>1, <1>2, <1>3 DEF Next, Over, Goroutine

----------------------------------------------------------------------------
(* The theorems.                                                           *)

\* IInv is inductive.
LEMMA IInvStep == IInv /\ [Next]_vars => IInv'
BY TypesStep, CountsStep, ProgressStep, SweepStep, AccountedStep DEF IInv

\* Every reachable state of a run satisfies the inductive invariant.
THEOREM Invariant == Spec => []IInv
<1>1. Init => IInv
  BY IInvInit
<1>2. IInv /\ [Next]_vars => IInv'
  BY IInvStep
<1> QED
  BY <1>1, <1>2, PTL DEF Spec

\* The state has its types: in particular the slots taken are never fewer
\* than none nor more than there are, and the WaitGroup never goes negative.
THEOREM TypeCorrect == Spec => []TypeOK
<1>1. IInv => TypeOK
  <2> SUFFICES ASSUME IInv
               PROVE  TypeOK
    OBVIOUS
  <2>1. Cardinality(Holding) \in 0..N /\ Cardinality(Alive) \in 0..N
    BY TargetSets DEF Holding, Alive
  <2>2. wg \in 0..N /\ sem \in 0..Slots
    BY <2>1, SlotsPositive, RunnerAssumption DEF IInv, Counts, Types
  <2> QED
    BY <2>2 DEF IInv, Types, TypeOK
<1> QED
  BY <1>1, Invariant, PTL

\* Whatever is asked for and however the goroutines interleave, no more
\* endpoints are being dialled than there are slots.
THEOREM ConcurrencyIsKept == Spec => []AtMostConcurrency
<1>1. IInv => AtMostConcurrency
  <2> SUFFICES ASSUME IInv
               PROVE  Cardinality(Dialing) <= Slots
    BY DEF AtMostConcurrency
  <2>1. Holding \in SUBSET Target /\ Dialing \in SUBSET Holding
    BY DEF Holding, Dialing
  <2>2. /\ Cardinality(Dialing) <= Cardinality(Holding)
        /\ Cardinality(Holding) \in 0..N /\ Cardinality(Dialing) \in 0..N
    BY <2>1, TargetSets
  <2>3. Cardinality(Holding) <= Slots
    BY DEF IInv, Counts, Types
  <2> QED
    BY <2>2, <2>3, SlotsPositive, RunnerAssumption
<1> QED
  BY <1>1, Invariant, PTL

\* When run returns every goroutine has ended, every slot is free, and each
\* target's report is at its own index.
THEOREM RunIsWaitedFor == Spec => []NothingOutlivesTheRun
<1>1. IInv => NothingOutlivesTheRun
  <2> SUFFICES ASSUME IInv, returned
               PROVE  /\ \A t \in Target :
                            pc[t] = "gone" /\ reps[t] = [target |-> t,
                                                         results |-> results[t]]
                      /\ sem = 0
    BY DEF NothingOutlivesTheRun
  <2>1. Alive \in SUBSET Target /\ Cardinality(Alive) = 0
    BY DEF Alive, IInv, Counts, Progress
  <2>2. Alive = {}
    BY <2>1, TargetSets
  <2>3. \A t \in Target : pc[t] # "unborn"
    BY RunnerAssumption DEF IInv, Progress, Target
  <2>4. \A t \in Target : pc[t] = "gone"
    BY <2>2, <2>3 DEF Alive
  <2>5. Holding = {}
    BY <2>4 DEF Holding
  <2> QED
    BY <2>4, <2>5, FS_EmptySet DEF IInv, Counts, Progress
<1> QED
  BY <1>1, Invariant, PTL

\* After a padded hello that was not answered, no padded hello is sent.
THEOREM SweepIsStopped == Spec => []SweepStops
<1>1. IInv => SweepStops
  BY DEF IInv
<1> QED
  BY <1>1, Invariant, PTL

\* What a finished endpoint was not sent is the sizes after one that was not
\* answered, all of them and nothing else of its plan.
THEOREM PlanIsCarriedOut == Spec => []SweepIsExact
<1>1. IInv => SweepIsExact
  <2> SUFFICES ASSUME IInv, NEW t \in Target, next[t] > Len(Plan[t]),
                      NEW i \in DOMAIN Plan[t]
               PROVE  \/ Answered(t, Plan[t][i])
                      \/ Plan[t][i] \in SizeProbe /\ FailedBefore(t, i)
    BY DEF IInv, SweepIsExact, NothingElseIsSkipped, FailedBefore
  <2>1. Plan[t] \in Seq(Profile) /\ next[t] \in Nat
    BY RunnerAssumption DEF IInv, Types
  <2>2. i \in 1..(next[t] - 1)
    BY <2>1
  <2> QED
    BY <2>2 DEF IInv, Accounted
<1> QED
  BY <1>1, Invariant, PTL

----------------------------------------------------------------------------
(* Runner implements Fleet, fairness apart.                                *)

\* Every step of the goroutines starts an endpoint, reports one, returns, or
\* is nothing Fleet speaks of.
LEMMA FleetStep ==
  ASSUME IInv, [Next]_vars
  PROVE  [Promise!Next]_(Promise!fleetVars)
<1>0. Types /\ Progress /\ Counts /\ N \in Nat
  BY RunnerAssumption DEF IInv
<1> USE <1>0 DEF Types
<1>a. \A t \in Target : reps[t] # NoReport <=> pc[t] \in {"releasing", "exiting", "gone"}
  BY DEF Progress, NoReport, Target
<1>1. ASSUME NEW t \in Target, Acquire(t)
      PROVE  Promise!Start(t)
  <2>1. /\ Busy' = Busy \cup {t} /\ Reported' = Reported
        /\ t \notin Busy /\ t \notin Reported
    BY <1>1, <1>a DEF Acquire, Busy, Reported
  <2>2. Holding \in SUBSET Target /\ Busy \in SUBSET Holding
    BY DEF Holding, Busy
  <2>3. /\ Cardinality(Busy) <= Cardinality(Holding)
        /\ Cardinality(Busy) \in 0..N /\ Cardinality(Holding) \in 0..N
    BY <2>2, TargetSets
  <2>4. Cardinality(Busy) < Slots
    BY <1>1, <2>3, SlotsPositive DEF Acquire, Free, Counts
  <2>5. Promise!Cardinality(Busy) = Cardinality(Busy)
    BY DEF Promise!Cardinality, Cardinality
  <2> QED
    BY <1>1, <2>1, <2>4, <2>5 DEF Promise!Start, Acquire
<1>2. ASSUME NEW t \in Target, Report(t)
      PROVE  Promise!Report(t)
  <2>1. /\ Busy' = Busy \ {t} /\ t \in Busy
        /\ Reported' = Reported \cup {t}
    BY <1>2 DEF Report, Busy, Reported, NoReport, Target
  <2> QED
    BY <1>2, <2>1 DEF Promise!Report, Report
<1>3. CASE Return
  <2>1. Alive = {}
    BY <1>3, TargetSets DEF Return, Counts, Alive
  <2>2. \A t \in Target : pc[t] = "gone"
    <3>1. \A t \in Target : ~(t > launched)
      BY <1>3 DEF Return, Target
    <3>2. \A t \in Target : pc[t] # "unborn"
      BY <3>1 DEF Progress
    <3> QED
      BY <2>1, <3>2 DEF Alive
  <2>3. Reported = Target
    BY <1>a, <2>2 DEF Reported
  <2>4. Busy' = Busy /\ Reported' = Reported
    BY <1>3 DEF Return, Busy, Reported
  <2> QED
    BY <1>3, <2>3, <2>4 DEF Promise!Next, Promise!Return, Return
<1>4. CASE \/ Launch \/ Cancel \/ UNCHANGED vars
           \/ \E t \in Target : \/ SkipSize(t) \/ Dial(t) \/ Release(t) \/ Done(t)
                                \/ \E k \in Kind : Dialled(t, k)
  <2>1. Busy' = Busy /\ Reported' = Reported /\ returned' = returned
    <3>1. reps' = reps /\ returned' = returned
      BY <1>4 DEF Launch, Cancel, vars, SkipSize, Dial, Release, Done, Dialled
    <3>2. \A t \in Target : pc'[t] \in {"loop", "dialing"}
                              <=> pc[t] \in {"loop", "dialing"}
      <4>1. CASE Launch
        <5>1. launched + 1 \in Target /\ pc[launched + 1] = "unborn"
          BY <4>1 DEF Launch, Target, Progress
        <5> QED
          BY <4>1, <5>1 DEF Launch
      <4> QED
        BY <1>4, <4>1 DEF Cancel, vars, SkipSize, Dial, Release, Done, Dialled,
                          InLoop
    <3> QED
      BY <3>1, <3>2 DEF Busy, Reported
  <2> QED
    BY <2>1 DEF Promise!fleetVars
<1> QED
  BY <1>1, <1>2, <1>3, <1>4 DEF Next, Over, Goroutine, Promise!Next

\* However the goroutines interleave, a run reports each endpoint once, no
\* more of them at a time than there are slots, and returns after the last:
\* the safety half of KeepsFleetPromise.
THEOREM FleetPromiseIsKept ==
  Spec => Promise!Init /\ [][Promise!Next]_(Promise!fleetVars)
<1>1. Init => Promise!Init
  BY DEF Init, Promise!Init, Busy, Reported
<1>2. IInv /\ [Next]_vars => [Promise!Next]_(Promise!fleetVars)
  BY FleetStep
<1> QED
  BY <1>1, <1>2, Invariant, PTL DEF Spec
=============================================================================
