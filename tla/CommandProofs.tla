---------------------------- MODULE CommandProofs ----------------------------
(***************************************************************************)
(* Over any number of runs of the command, whatever it is asked, whatever  *)
(* fails and whenever it is killed: who is dialled, what the reports say   *)
(* of it, what the command exits for, and what becomes of the metrics file *)
(* that a collector scrapes.                                               *)
(*                                                                         *)
(* The steps of writeAtomic are steps of the command, so the argument      *)
(* about the file has two halves: the command takes no other step with it  *)
(* (StepsOfFile), and those steps keep FileIInv.  The fleet is Gathered    *)
(* source by source, and the reports are at every step a function of it    *)
(* (Reported).                                                             *)
(***************************************************************************)
EXTENDS Command, FiniteSetTheorems, SequenceTheorems, TLAPS

----------------------------------------------------------------------------
(* The file.                                                               *)

\* A temporary file, and the one this call works on.
TempFile == [name : Nat, whole : BOOLEAN, readable : BOOLEAN]

Working == {"write", "close", "chmod", "rename"}

\* Temporary files have a number each, the call's own is the newest, and it is
\* as far as the step that is next.
Temporaries ==
  /\ temps \subseteq TempFile
  /\ \A f \in temps : f.name \in 1..writes /\ (step = "create" => f.name < writes)
  /\ \A f, g \in temps : f.name = g.name => f = g
  /\ mine \in {0, writes}
  /\ step = "create" => writes > 0
  /\ step = "return" => \A f \in temps : f.name # mine
  /\ \A f \in temps : f.name = mine =>
       /\ step \in {"close", "chmod", "rename"} => f.whole
       /\ step = "rename" => f.readable

\* The path changes at the rename and not before.
Found ==
  /\ step \in Working \cup {"create"} => path = before
  /\ step = "return" => path.text = want

\* What other calls left behind, they left because they were killed.
LeftOver == {f \in temps : f.name # mine}

Litter == IsFiniteSet(temps) /\ Cardinality(LeftOver) <= kills

FileIInv ==
  T!TypeOK /\ Temporaries /\ Found /\ Litter /\ T!AlwaysReadable /\ T!ReturnIsTrue

\* Between creating it and renaming it, the call's file is there.
LEMMA TempIsMine ==
  ASSUME FileIInv, step \in Working
  PROVE  /\ T!Temp \in temps /\ T!Temp.name = mine /\ T!Temp \in TempFile
         /\ mine = writes /\ writes \in Nat /\ writes > 0
         /\ \A f \in temps : f.name = mine => f = T!Temp
<1>1. \E f \in temps : f.name = mine
  BY DEF FileIInv, T!TypeOK, Working
<1>2. T!Temp \in temps /\ T!Temp.name = mine
  BY <1>1 DEF T!Temp
<1>3. mine # 0 /\ mine \in {0, writes} /\ writes \in Nat
  BY DEF FileIInv, T!TypeOK, Working, Temporaries
<1> QED
  BY <1>2, <1>3 DEF FileIInv, Temporaries

\* The leftovers and the call's own file are all there is.
LEMMA LitterIsCounted ==
  ASSUME FileIInv
  PROVE  /\ IsFiniteSet(LeftOver) /\ Cardinality(LeftOver) \in Nat
         /\ kills \in Nat
         /\ Cardinality(temps) <= kills + 1
         /\ (\A f \in temps : f.name # mine) => Cardinality(temps) <= kills
<1>1. LeftOver \subseteq temps /\ IsFiniteSet(temps) /\ kills \in Nat
      /\ Cardinality(LeftOver) <= kills
  BY DEF FileIInv, Litter, LeftOver, T!TypeOK
<1>2. IsFiniteSet(LeftOver) /\ Cardinality(LeftOver) \in Nat
  BY <1>1, FS_Subset, FS_CardinalityType
<1>3. CASE \A f \in temps : f.name # mine
  <2>1. temps = LeftOver
    BY <1>3 DEF LeftOver
  <2> QED
    BY <1>1, <1>2, <2>1
<1>4. CASE \E f \in temps : f.name = mine
  <2>1. PICK f \in temps : f.name = mine
    BY <1>4
  <2>2. temps = LeftOver \cup {f} /\ f \notin LeftOver
    BY <2>1 DEF LeftOver, FileIInv, Temporaries
  <2>3. Cardinality(temps) = Cardinality(LeftOver) + 1
    BY <1>2, <2>2, FS_AddElement
  <2> QED
    BY <1>1, <1>2, <1>4, <2>3
<1> QED
  BY <1>1, <1>2, <1>3, <1>4

LEMMA FileInit ==
  T!Init /\ MaxKills \in Nat => FileIInv
<1> SUFFICES ASSUME T!Init, MaxKills \in Nat
             PROVE  FileIInv
  OBVIOUS
<1>1. /\ step = "idle" /\ want \in ToSet(Metrics) /\ temps = {} /\ mine = 0
      /\ path = T!Absent /\ before = T!Absent /\ returned = "nothing"
      /\ kills = 0 /\ writes = 0
  BY DEF T!Init
<1>2. Len(Metrics) \in Nat
  BY DEF Metrics
<1>3. LeftOver = {} /\ IsFiniteSet(temps) /\ Cardinality(LeftOver) = 0
  BY <1>1, FS_EmptySet DEF LeftOver
<1>4. T!TypeOK
  BY <1>1, <1>2 DEF T!TypeOK
<1>5. T!AlwaysReadable
  BY <1>1 DEF T!AlwaysReadable, T!Absent
<1> QED
  BY <1>1, <1>3, <1>4, <1>5
  DEF FileIInv, Temporaries, Found, Litter, Working, T!ReturnIsTrue

\* What the collector sees.
Content == IF path.whole /\ path.readable THEN path.text ELSE "torn"

\* The call's own file is put in its own place.
LEMMA Rewritten ==
  ASSUME FileIInv, step \in {"write", "chmod"}, NEW g \in TempFile, g.name = mine,
         g.whole, step = "chmod" => g.readable,
         step' = (IF step = "write" THEN "close" ELSE "rename"),
         temps' = (temps \ {T!Temp}) \cup {g},
         UNCHANGED <<want, mine, path, before, returned, kills, writes>>
  PROVE  T!TypeOK' /\ Temporaries' /\ LeftOver' = LeftOver /\ IsFiniteSet(temps')
<1>0. T!TypeOK /\ Temporaries /\ IsFiniteSet(temps)
  BY DEF FileIInv, Litter
<1>1. /\ T!Temp \in temps /\ T!Temp.name = mine /\ mine = writes
      /\ writes \in Nat /\ writes > 0
      /\ \A f \in temps : f.name = mine => f = T!Temp
  BY TempIsMine DEF Working
<1>2. \A f \in temps' : f = g \/ (f \in temps /\ f.name # mine)
  BY <1>1
<1>3. g \in temps'
  OBVIOUS
<1>4. T!TypeOK'
  <2>1. \A f \in temps' : /\ f.name \in 1..Len(Metrics)
                          /\ f.whole \in BOOLEAN /\ f.readable \in BOOLEAN
    BY <1>0, <1>1, <1>2 DEF T!TypeOK, TempFile, Metrics
  <2> QED
    BY <1>0, <1>1, <1>3, <2>1 DEF T!TypeOK, T!File, T!Absent
<1>5. Temporaries'
  BY <1>0, <1>1, <1>2 DEF Temporaries
<1>6. LeftOver' = LeftOver
  BY <1>1, <1>2 DEF LeftOver
<1>7. IsFiniteSet(temps')
  BY <1>0, FS_RemoveElement, FS_AddElement
<1> QED
  BY <1>4, <1>5, <1>6, <1>7

\* No step of writeAtomic, failed, killed or not, breaks it, and each replaces
\* what the collector sees by one whole document or leaves it.
LEMMA FileStep ==
  ASSUME FileIInv, [T!Next]_metrics, MaxKills \in Nat
  PROVE  FileIInv' /\ (Content' = Content \/ Content' \in ToSet(Metrics))
<1> USE DEF Working
<1>0. /\ T!TypeOK /\ Temporaries /\ Found /\ Litter /\ T!AlwaysReadable /\ T!ReturnIsTrue
      /\ writes \in Nat /\ kills \in Nat /\ mine \in {0, writes}
      /\ Len(Metrics) \in Nat
  BY DEF FileIInv, T!TypeOK, Temporaries, Metrics
<1>1. CASE \E d \in ToSet(Metrics) : T!Call(d)
  <2>1. PICK d \in ToSet(Metrics) : T!Call(d)
    BY <1>1
  <2>2. /\ step = "idle" /\ writes < Len(Metrics) /\ writes' = writes + 1 /\ want' = d
        /\ before' = path /\ step' = "create"
        /\ UNCHANGED <<temps, mine, path, returned, kills>>
    BY <2>1 DEF T!Call
  <2>3. mine = 0
    BY <1>0, <2>2 DEF T!TypeOK
  <2>4. T!TypeOK'
    BY <1>0, <2>2 DEF T!TypeOK, T!File, T!Absent
  <2>5. Temporaries'
    BY <1>0, <2>2, <2>3 DEF Temporaries
  <2>6. LeftOver' = LeftOver
    BY <2>2 DEF LeftOver
  <2> QED
    BY <1>0, <2>2, <2>4, <2>5, <2>6
    DEF FileIInv, Found, Litter, T!AlwaysReadable, T!ReturnIsTrue, Content
<1>2. CASE T!CreateTemp
  <2> DEFINE new == [name |-> writes, whole |-> FALSE, readable |-> FALSE]
  <2>1. /\ step = "create" /\ mine' = writes /\ temps' = temps \cup {new} /\ step' = "write"
        /\ UNCHANGED <<want, path, before, returned, kills, writes>>
    BY <1>2 DEF T!CreateTemp
  <2>2. new \in TempFile /\ new.name = writes /\ writes > 0 /\ ~new.whole
    BY <1>0, <2>1 DEF TempFile, Temporaries
  <2> HIDE DEF new
  <2>3. \A f \in temps : f.name \in 1..writes /\ f.name # writes /\ mine = 0
    BY <1>0, <2>1 DEF Temporaries, T!TypeOK
  <2>4. T!TypeOK'
    <3>1. \A f \in temps' : /\ f.name \in 1..Len(Metrics)
                            /\ f.whole \in BOOLEAN /\ f.readable \in BOOLEAN
      BY <1>0, <2>1, <2>2 DEF T!TypeOK, TempFile
    <3>2. \E f \in temps' : f.name = mine'
      BY <2>1, <2>2
    <3> QED
      BY <1>0, <2>1, <2>2, <3>1, <3>2 DEF T!TypeOK, T!File, T!Absent
  <2>5. Temporaries'
    BY <1>0, <2>1, <2>2, <2>3 DEF Temporaries
  <2>6. LeftOver' = LeftOver /\ IsFiniteSet(temps')
    <3>1. \A f \in temps : f.name # mine /\ f.name # mine'
      BY <1>0, <2>1, <2>3
    <3>2. LeftOver' = LeftOver
      BY <2>1, <2>2, <3>1 DEF LeftOver
    <3> QED
      BY <1>0, <2>1, <3>2, FS_AddElement DEF Litter
  <2> QED
    BY <1>0, <2>1, <2>4, <2>5, <2>6
    DEF FileIInv, Found, Litter, T!AlwaysReadable, T!ReturnIsTrue, Content
<1>3. CASE T!WriteString
  <2> DEFINE g == [T!Temp EXCEPT !.whole = TRUE]
  <2>1. /\ step = "write" /\ temps' = (temps \ {T!Temp}) \cup {g} /\ step' = "close"
        /\ UNCHANGED <<want, mine, path, before, returned, kills, writes>>
    BY <1>3 DEF T!WriteString, T!Becomes
  <2>2. g \in TempFile /\ g.name = mine /\ g.whole
    BY <2>1, TempIsMine DEF TempFile
  <2> HIDE DEF g
  <2> QED
    BY <1>0, <2>1, <2>2, Rewritten
    DEF FileIInv, Found, Litter, T!AlwaysReadable, T!ReturnIsTrue, Content
<1>4. CASE T!Close
  <2>1. /\ step = "close" /\ step' = "chmod"
        /\ UNCHANGED <<want, temps, mine, path, before, returned, kills, writes>>
    BY <1>4 DEF T!Close
  <2>2. T!TypeOK' /\ Temporaries' /\ LeftOver' = LeftOver
    BY <1>0, <2>1 DEF T!TypeOK, T!File, T!Absent, Temporaries, LeftOver
  <2> QED
    BY <1>0, <2>1, <2>2
    DEF FileIInv, Found, Litter, T!AlwaysReadable, T!ReturnIsTrue, Content
<1>5. CASE T!Chmod
  <2> DEFINE g == [T!Temp EXCEPT !.readable = TRUE]
  <2>1. /\ step = "chmod" /\ temps' = (temps \ {T!Temp}) \cup {g} /\ step' = "rename"
        /\ UNCHANGED <<want, mine, path, before, returned, kills, writes>>
    BY <1>5 DEF T!Chmod, T!Becomes
  <2>2. g \in TempFile /\ g.name = mine /\ g.readable /\ g.whole
    BY <1>0, <2>1, TempIsMine DEF TempFile, Temporaries
  <2> HIDE DEF g
  <2> QED
    BY <1>0, <2>1, <2>2, Rewritten
    DEF FileIInv, Found, Litter, T!AlwaysReadable, T!ReturnIsTrue, Content
<1>6. CASE T!Rename
  <2>1. /\ step = "rename" /\ step' = "return" /\ temps' = temps \ {T!Temp}
        /\ path' = [text |-> want, whole |-> T!Temp.whole, readable |-> T!Temp.readable]
        /\ UNCHANGED <<want, mine, before, returned, kills, writes>>
    BY <1>6 DEF T!Rename
  <2>2. /\ T!Temp.whole = TRUE /\ T!Temp.readable = TRUE /\ T!Temp \in temps
        /\ T!Temp.name = mine /\ \A f \in temps' : f.name # mine
    BY <1>0, <2>1, TempIsMine DEF Temporaries, TempFile
  <2>3. /\ path' \in T!File /\ path'.whole /\ path'.readable /\ path'.text = want
        /\ want \in ToSet(Metrics)
    BY <1>0, <2>1, <2>2 DEF T!File, T!TypeOK
  <2>4. T!TypeOK'
    BY <1>0, <2>1, <2>3 DEF T!TypeOK
  <2>5. Temporaries'
    BY <1>0, <2>1, <2>2 DEF Temporaries
  <2>6. LeftOver' = LeftOver /\ IsFiniteSet(temps')
    <3>1. LeftOver' = LeftOver
      BY <2>1, <2>2 DEF LeftOver
    <3> QED
      BY <1>0, <2>1, <3>1, FS_RemoveElement DEF Litter
  <2> QED
    BY <1>0, <2>1, <2>3, <2>4, <2>5, <2>6
    DEF FileIInv, Found, Litter, T!AlwaysReadable, T!ReturnIsTrue, Content
<1>7. CASE T!Return
  <2>1. /\ step = "return" /\ step' = "idle" /\ returned' = "nil" /\ mine' = 0
        /\ UNCHANGED <<want, temps, path, before, kills, writes>>
    BY <1>7 DEF T!Return
  <2>2. \A f \in temps : f.name # mine /\ f.name # 0
    BY <1>0, <2>1 DEF Temporaries
  <2>3. T!TypeOK'
    BY <1>0, <2>1 DEF T!TypeOK, T!File, T!Absent
  <2>4. Temporaries' /\ LeftOver' = LeftOver
    BY <1>0, <2>1, <2>2 DEF Temporaries, LeftOver
  <2> QED
    BY <1>0, <2>1, <2>3, <2>4
    DEF FileIInv, Found, Litter, T!AlwaysReadable, T!ReturnIsTrue, Content
<1>8. CASE T!Fail
  <2>1. /\ step \in Working \cup {"create"} /\ step' = "idle" /\ returned' = "error"
        /\ mine' = 0 /\ temps' = LeftOver
        /\ UNCHANGED <<want, path, before, kills, writes>>
    BY <1>8 DEF T!Fail, LeftOver
  <2>2. LeftOver \subseteq temps /\ \A f \in temps : f.name # 0
    BY <1>0 DEF LeftOver, Temporaries
  <2>3. T!TypeOK'
    BY <1>0, <2>1, <2>2 DEF T!TypeOK, T!File, T!Absent
  <2>4. Temporaries'
    BY <1>0, <2>1, <2>2 DEF Temporaries
  <2>5. LeftOver' = LeftOver
    BY <2>1, <2>2 DEF LeftOver
  <2>6. Litter'
    BY <1>0, <2>1, <2>5, LitterIsCounted DEF Litter
  <2> QED
    BY <1>0, <2>1, <2>3, <2>4, <2>6
    DEF FileIInv, Found, T!AlwaysReadable, T!ReturnIsTrue, Content
<1>9. CASE T!Kill
  <2>1. /\ step # "idle" /\ kills < MaxKills /\ kills' = kills + 1 /\ step' = "idle"
        /\ mine' = 0 /\ returned' = "nothing"
        /\ UNCHANGED <<want, temps, path, before, writes>>
    BY <1>9 DEF T!Kill
  <2>2. \A f \in temps : f.name # 0
    BY <1>0 DEF Temporaries
  <2>3. T!TypeOK'
    BY <1>0, <2>1 DEF T!TypeOK, T!File, T!Absent
  <2>4. Temporaries'
    BY <1>0, <2>1, <2>2 DEF Temporaries
  <2>5. LeftOver' = temps
    BY <2>1, <2>2 DEF LeftOver
  <2>6. Litter'
    BY <1>0, <2>1, <2>5, LitterIsCounted DEF Litter
  <2> QED
    BY <1>0, <2>1, <2>3, <2>4, <2>6
    DEF FileIInv, Found, T!AlwaysReadable, T!ReturnIsTrue, Content
<1>10. CASE UNCHANGED metrics
  <2>1. UNCHANGED <<step, want, temps, mine, path, before, returned, kills, writes>>
    BY <1>10 DEF metrics
  <2>2. T!TypeOK' /\ Temporaries' /\ LeftOver' = LeftOver
    BY <1>0, <2>1 DEF T!TypeOK, T!File, T!Absent, Temporaries, LeftOver
  <2> QED
    BY <1>0, <2>1, <2>2
    DEF FileIInv, Found, Litter, T!AlwaysReadable, T!ReturnIsTrue, Content
<1> QED
  BY <1>1, <1>2, <1>3, <1>4, <1>5, <1>6, <1>7, <1>8, <1>9, <1>10 DEF T!Next
----------------------------------------------------------------------------
(* The command.                                                            *)

\* A day is one of the session's.
Today == session \in Sessions /\ run \in 1..Len(session.commands)

LEMMA TodayInit ==
  Init => Today
BY CommandAssumption DEF Init, Today

LEMMA TodayStep ==
  Today /\ [Next]_vars => Today'
<1> SUFFICES ASSUME Today, [Next]_vars
             PROVE  Today'
  OBVIOUS
<1>1. Len(session.commands) \in Nat /\ run \in 1..Len(session.commands)
  BY CommandAssumption DEF Today
<1>2. CASE NextDay
  BY <1>1, <1>2 DEF NextDay, Today
<1>3. CASE ~NextDay
  <2>1. UNCHANGED <<session, run>>
    BY <1>3 DEF Next, vars, day, Flags, Collect, Usage, Probe, Annotate, Compare, Render,
                RenderFails, Publish, Publishing, Published, Exit, Kill, Over
  <2> QED
    BY <2>1 DEF Today
<1> QED
  BY <1>2, <1>3

\* The command does nothing to the metrics file but what writeAtomic does.
LEMMA StepsOfFile ==
  Today /\ [Next]_vars => [T!Next]_metrics
<1> SUFFICES ASSUME Today, [Next]_vars
             PROVE  T!Next \/ UNCHANGED metrics
  OBVIOUS
<1>1. CASE Publish
  <2>1. Metrics[run] \in ToSet(Metrics)
    <3>1. run \in 1..Len(Metrics)
      BY CommandAssumption DEF Today, Metrics
    <3> QED
      BY <3>1 DEF ToSet, Metrics
  <2> QED
    BY <1>1, <2>1 DEF Publish, T!Next
<1>2. CASE Publishing
  BY <1>2 DEF Publishing, T!Next
<1>3. CASE Kill
  BY <1>3 DEF Kill, T!Next
<1>4. CASE ~(Publish \/ Publishing \/ Kill)
  BY <1>4 DEF Next, vars, Flags, Collect, Usage, Probe, Annotate, Compare, Render,
              RenderFails, Published, Exit, NextDay, Over
<1> QED
  BY <1>1, <1>2, <1>3, <1>4

\* On every day, whatever is run, fails or is killed.
THEOREM FileInvariant ==
  Spec => [](Today /\ FileIInv)
<1>1. Init => Today /\ FileIInv
  BY TodayInit, FileInit, CommandAssumption DEF Init
<1>2. Today /\ FileIInv /\ [Next]_vars => (Today /\ FileIInv)'
  BY TodayStep, StepsOfFile, FileStep, CommandAssumption
<1> QED
  BY <1>1, <1>2, PTL DEF Spec

\* The collector never meets a torn file or one it may not read; a temporary
\* file is left behind by a kill alone; and what writeAtomic returned is what it
\* did: an error left the file as the call found it and nil put the document
\* there, whatever failed and whenever the process was killed.
THEOREM FileIsTidy ==
  Spec => []T!FileInv
<1>1. ASSUME FileIInv
      PROVE  T!FileInv
  <2>1. step = "idle" => Cardinality(temps) <= kills
    <3>1. ASSUME step = "idle"
          PROVE  \A f \in temps : f.name # mine
      BY <1>1, <3>1 DEF FileIInv, Temporaries, T!TypeOK
    <3> QED
      BY <1>1, <3>1, LitterIsCounted
  <2>2. T!Cardinality(temps) = Cardinality(temps)
    BY DEF T!Cardinality, Cardinality
  <2>3. T!NoLitter
    BY <2>1, <2>2 DEF T!NoLitter
  <2> QED
    BY <1>1, <2>3 DEF FileIInv, T!FileInv
<1> QED
  BY <1>1, FileInvariant, PTL

\* From outside, over all the runs, the metrics file is an atomic register: a
\* step replaces one whole document by another or changes nothing.
THEOREM FileIsARegister ==
  Spec => KeepsFilePromise
<1>1. Init => T!Promise!Init
  BY DEF Init, T!Init, T!Promise!Init, T!Absent
<1>2. Today /\ FileIInv /\ [Next]_vars => [T!Promise!Next]_Content
  BY StepsOfFile, FileStep, CommandAssumption
  DEF T!Promise!Next, T!Promise!Replace, Content
<1> QED
  BY <1>1, <1>2, FileInvariant, PTL
  DEF Spec, KeepsFilePromise, T!KeepsFilePromise, T!Promise!Spec, Content

----------------------------------------------------------------------------
(* Putting things in order.                                                *)

\* R has any two members of S one way round.
Orders(R, S) ==
  /\ \A x, y \in S : <<x, y>> \in R => <<y, x>> \notin R
  /\ \A x, y \in S : x # y => <<x, y>> \in R \/ <<y, x>> \in R
  /\ \A x, y, z \in S : <<x, y>> \in R /\ <<y, z>> \in R => <<x, z>> \in R

\* InOrder has every member of a finite set in one place, as R says.
LEMMA Ordered ==
  ASSUME NEW S, IsFiniteSet(S), NEW R, Orders(R, S)
  PROVE  /\ Cardinality(S) \in Nat
         /\ InOrder(S, R) \in [1..Cardinality(S) -> S]
         /\ \A x \in S : \E n \in 1..Cardinality(S) : InOrder(S, R)[n] = x
         /\ \A m, n \in 1..Cardinality(S) : m < n =>
              <<InOrder(S, R)[m], InOrder(S, R)[n]>> \in R
<1> DEFINE below(x) == {y \in S : <<y, x>> \in R}
           rank(x) == Cardinality(below(x))
           N == Cardinality(S)
           place == [x \in S |-> rank(x) + 1]
<1>1. N \in Nat /\ IsFiniteSet(1..N) /\ Cardinality(1..N) = N
  BY FS_CardinalityType, FS_Interval
<1>2. ASSUME NEW x \in S
      PROVE  /\ IsFiniteSet(below(x)) /\ rank(x) \in 0..(N - 1)
             /\ rank(x) \in Nat
  <2>1. below(x) \subseteq S /\ x \notin below(x)
    BY DEF Orders
  <2>2. IsFiniteSet(below(x)) /\ rank(x) <= N /\ (N = rank(x) => S = below(x))
    BY <2>1, FS_Subset
  <2>3. rank(x) # N /\ rank(x) \in Nat
    BY <2>1, <2>2, FS_CardinalityType
  <2> QED
    BY <1>1, <2>2, <2>3
<1>3. ASSUME NEW x \in S, NEW y \in S, <<x, y>> \in R
      PROVE  rank(x) < rank(y)
  <2>1. below(x) \subseteq below(y) /\ x \in below(y) /\ x \notin below(x)
    BY <1>3 DEF Orders
  <2>2. rank(x) <= rank(y) /\ (rank(y) = rank(x) => below(y) = below(x))
    BY <1>2, <2>1, FS_Subset
  <2>3. rank(x) # rank(y) /\ rank(x) \in Nat /\ rank(y) \in Nat
    BY <1>2, <2>1, <2>2
  <2> HIDE DEF rank
  <2> QED
    BY <2>2, <2>3
<1>4. ASSUME NEW x \in S, NEW y \in S, x # y
      PROVE  rank(x) # rank(y)
  <2>1. rank(x) \in Nat /\ rank(y) \in Nat
    BY <1>2
  <2>2. <<x, y>> \in R \/ <<y, x>> \in R
    BY <1>4 DEF Orders
  <2> HIDE DEF rank
  <2> QED
    BY <1>3, <2>1, <2>2
<1>5. place \in Injection(S, 1..N)
  <2>1. \A x \in S : rank(x) \in 0..(N - 1)
    BY <1>2
  <2> HIDE DEF rank, N
  <2>2. place \in [S -> 1..N]
    BY <1>1, <2>1
  <2>3. \A x, y \in S : place[x] = place[y] => x = y
    BY <1>4, <2>1
  <2> QED
    BY <2>2, <2>3 DEF Injection, IsInjective
<1>6. place \in Surjection(S, 1..N)
  BY <1>1, <1>5, FS_Injection
<1>7. ASSUME NEW n \in 1..N
      PROVE  \E x \in S : rank(x) = n - 1
  <2>1. PICK x \in S : place[x] = n
    BY <1>6 DEF Surjection
  <2>2. rank(x) + 1 = n /\ rank(x) \in Nat
    BY <1>2, <2>1
  <2> HIDE DEF rank
  <2> QED
    BY <2>2
<1>8. \A n \in 1..N : InOrder(S, R)[n] \in S /\ rank(InOrder(S, R)[n]) = n - 1
  <2>1. ASSUME NEW n \in 1..N
        PROVE  InOrder(S, R)[n] = CHOOSE x \in S : rank(x) = n - 1
    BY DEF InOrder
  <2> HIDE DEF rank, N
  <2> QED
    BY <1>7, <2>1
<1>9. InOrder(S, R) \in [1..N -> S]
  <2>1. InOrder(S, R) = [n \in 1..N |-> CHOOSE x \in S : rank(x) = n - 1]
    BY DEF InOrder
  <2> HIDE DEF rank, N
  <2> QED
    BY <1>7, <2>1
<1>10. ASSUME NEW x \in S
       PROVE  \E n \in 1..N : InOrder(S, R)[n] = x
  <2>1. rank(x) \in 0..(N - 1)
    BY <1>2
  <2> HIDE DEF rank, N
  <2>2. rank(x) + 1 \in 1..N
    BY <1>1, <2>1
  <2>3. rank(InOrder(S, R)[rank(x) + 1]) = rank(x)
    BY <1>1, <1>8, <2>1, <2>2
  <2> QED
    BY <1>4, <1>8, <2>2, <2>3
<1>11. ASSUME NEW m \in 1..N, NEW n \in 1..N, m < n
       PROVE  <<InOrder(S, R)[m], InOrder(S, R)[n]>> \in R
  <2> DEFINE x == InOrder(S, R)[m]
             y == InOrder(S, R)[n]
  <2>1. x \in S /\ y \in S /\ rank(x) = m - 1 /\ rank(y) = n - 1
    BY <1>8
  <2> HIDE DEF x, y, rank
  <2>2. x # y /\ ~(rank(y) < rank(x))
    BY <1>11, <2>1
  <2>3. <<x, y>> \in R \/ <<y, x>> \in R
    BY <2>1, <2>2 DEF Orders
  <2> QED
    BY <1>3, <2>1, <2>2, <2>3 DEF x, y
<1> QED
  BY <1>1, <1>9, <1>10, <1>11

\* A sequence has finitely many places, and all its elements in them.
LEMMA PlacesOf ==
  ASSUME NEW S, NEW s \in Seq(S)
  PROVE  /\ Len(s) \in Nat /\ DOMAIN s = 1..Len(s) /\ IsFiniteSet(DOMAIN s)
         /\ ToSet(s) \subseteq S
BY FS_Interval DEF ToSet

\* At keeps what s has at the places in I, and its order.
LEMMA Picked ==
  ASSUME NEW S, NEW s \in Seq(S), NEW I \in SUBSET DOMAIN s
  PROVE  /\ At(s, I) \in Seq(S)
         /\ ToSet(At(s, I)) = {s[i] : i \in I}
         /\ Len(At(s, I)) = Cardinality(I)
         /\ \A m, n \in DOMAIN At(s, I) : m < n =>
              \E i, j \in I : i < j /\ At(s, I)[m] = s[i] /\ At(s, I)[n] = s[j]
<1> DEFINE R == {p \in I \X I : p[1] < p[2]}
           at == InOrder(I, R)
           N == Cardinality(I)
<1>1. IsFiniteSet(I) /\ I \subseteq 1..Len(s) /\ Len(s) \in Nat
  BY PlacesOf, FS_Subset
<1>2. Orders(R, I)
  <2>1. \A i, j \in I : <<i, j>> \in R <=> i < j
    OBVIOUS
  <2> HIDE DEF R
  <2> QED
    BY <1>1, <2>1 DEF Orders
<1>11. \A i, j : <<i, j>> \in R => i < j
  OBVIOUS
<1> HIDE DEF R
<1>3. /\ N \in Nat /\ at \in [1..N -> I]
      /\ \A i \in I : \E n \in 1..N : at[n] = i
      /\ \A m, n \in 1..N : m < n => <<at[m], at[n]>> \in R
  BY <1>1, <1>2, Ordered
<1>4. At(s, I) = [n \in 1..N |-> s[at[n]]]
  BY <1>3 DEF At, R
<1> HIDE DEF at, N
<1>5. \A m, n \in 1..N : m < n => at[m] < at[n]
  BY <1>3, <1>11
<1>6. \A n \in 1..N : s[at[n]] \in S
  BY <1>1, <1>3
<1>7. At(s, I) \in [1..N -> S] /\ DOMAIN At(s, I) = 1..N
  BY <1>4, <1>6
<1>8. At(s, I) \in Seq(S) /\ Len(At(s, I)) = N
  BY <1>3, <1>7, SeqDef
<1>9. ToSet(At(s, I)) = {s[i] : i \in I}
  <2>1. ToSet(At(s, I)) = {s[at[n]] : n \in 1..N}
    BY <1>4, <1>7 DEF ToSet
  <2> QED
    BY <1>3, <2>1
<1>10. ASSUME NEW m \in 1..N, NEW n \in 1..N, m < n
       PROVE  \E i, j \in I : i < j /\ At(s, I)[m] = s[i] /\ At(s, I)[n] = s[j]
  <2>1. at[m] \in I /\ at[n] \in I /\ at[m] < at[n]
    BY <1>3, <1>5, <1>10
  <2>2. At(s, I)[m] = s[at[m]] /\ At(s, I)[n] = s[at[n]]
    BY <1>4
  <2> QED
    BY <2>1, <2>2
<1> QED
  BY <1>7, <1>8, <1>9, <1>10 DEF N

\* The elements of two sequences are those of both.
LEMMA Joined ==
  ASSUME NEW S, NEW s \in Seq(S), NEW t \in Seq(S)
  PROVE  s \o t \in Seq(S) /\ ToSet(s \o t) = ToSet(s) \cup ToSet(t)
<1>1. /\ s \o t \in Seq(S) /\ Len(s \o t) = Len(s) + Len(t)
      /\ \A i \in 1..Len(s \o t) :
           (s \o t)[i] = IF i <= Len(s) THEN s[i] ELSE t[i - Len(s)]
  OBVIOUS
<1>2. ToSet(s \o t) \subseteq ToSet(s) \cup ToSet(t)
  BY <1>1 DEF ToSet
<1>3. ASSUME NEW i \in DOMAIN s
      PROVE  s[i] \in ToSet(s \o t)
  <2>1. i \in DOMAIN (s \o t) /\ (s \o t)[i] = s[i]
    BY <1>1
  <2> QED
    BY <2>1 DEF ToSet
<1>4. ASSUME NEW i \in DOMAIN t
      PROVE  t[i] \in ToSet(s \o t)
  <2>1. Len(s) + i \in DOMAIN (s \o t) /\ (s \o t)[Len(s) + i] = t[i]
    BY <1>1
  <2> QED
    BY <2>1 DEF ToSet
<1> QED
  BY <1>1, <1>2, <1>3, <1>4 DEF ToSet

----------------------------------------------------------------------------
(* Numbers.                                                                *)

\* A set of numbers with 0 and every successor is all of them: induction over
\* a set, from finite sets being well founded.
LEMMA EveryNumber ==
  ASSUME NEW S, 0 \in S, \A n \in Nat : n \in S => n + 1 \in S
  PROVE  Nat \subseteq S
<1> SUFFICES ASSUME NEW b \in Nat, b \notin S
             PROVE  FALSE
  OBVIOUS
<1> DEFINE R == StrictSubsetOrdering(Nat)
           F == FiniteSubsetsOf(Nat)
           V == {0..m : m \in Nat \ S}
<1>1. IsWellFoundedOn(R, F)
  BY FS_StrictSubsetOrderingWellFounded
<1>2. V \subseteq F /\ V # {}
  <2>1. ASSUME NEW m \in Nat
        PROVE  0..m \in F
    BY FS_Interval DEF FiniteSubsetsOf
  <2> QED
    BY <2>1
<1> HIDE DEF R, F, V
<1>3. PICK x \in V : \A y \in V : <<y, x>> \notin R
  BY <1>1, <1>2, WFMin
<1>4. PICK m \in Nat \ S : x = 0..m
  BY DEF V
<1>5. m - 1 \in Nat /\ m - 1 \notin S
  <2>1. m # 0
    BY <1>4
  <2>2. m - 1 \in Nat /\ (m - 1) + 1 = m
    BY <2>1
  <2> QED
    BY <1>4, <2>2
<1>6. 0..(m - 1) \in V /\ <<0..(m - 1), 0..m>> \notin R
  BY <1>3, <1>4, <1>5 DEF V
<1>7. 0..(m - 1) \subseteq 0..m /\ 0..(m - 1) # 0..m
  <2>1. m \in 0..m /\ m \notin 0..(m - 1)
    BY <1>5
  <2> QED
    BY <1>5, <2>1
<1> QED
  BY <1>5, <1>6, <1>7 DEF R, StrictSubsetOrdering

\* A set of numbers has a least one.
LEMMA LeastNumber ==
  ASSUME NEW S \in SUBSET Nat, S # {}
  PROVE  MinOf(S) \in S /\ \A k \in S : MinOf(S) <= k
<1> DEFINE R == StrictSubsetOrdering(Nat)
           F == FiniteSubsetsOf(Nat)
           V == {0..m : m \in S}
<1>1. IsWellFoundedOn(R, F)
  BY FS_StrictSubsetOrderingWellFounded
<1>2. V \subseteq F /\ V # {}
  <2>1. ASSUME NEW m \in S
        PROVE  0..m \in F
    BY FS_Interval DEF FiniteSubsetsOf
  <2> QED
    BY <2>1
<1> HIDE DEF R, F, V
<1>3. PICK x \in V : \A y \in V : <<y, x>> \notin R
  BY <1>1, <1>2, WFMin
<1>4. PICK m \in S : x = 0..m
  BY DEF V
<1>5. ASSUME NEW k \in S, k < m
      PROVE  FALSE
  <2>1. 0..k \in V /\ <<0..k, 0..m>> \notin R
    BY <1>3, <1>4 DEF V
  <2>2. 0..k \subseteq 0..m /\ 0..k # 0..m /\ 0..k \subseteq Nat /\ 0..m \subseteq Nat
    BY <1>5
  <2> QED
    BY <2>1, <2>2 DEF R, StrictSubsetOrdering
<1>6. \A k \in S : m <= k
  BY <1>5
<1> QED
  BY <1>6 DEF MinOf

\* A set of numbers with a bound has a greatest one.
LEMMA GreatestNumber ==
  ASSUME NEW S \in SUBSET Nat, S # {}, NEW b \in Nat, \A k \in S : k <= b
  PROVE  MaxOf(S) \in S /\ \A k \in S : k <= MaxOf(S)
<1> DEFINE D == {b - k : k \in S}
<1>1. \A k \in S : k \in Nat /\ b - k \in Nat
  OBVIOUS
<1>2. D \in SUBSET Nat /\ D # {}
  BY <1>1
<1>3. \A k \in S : b - k \in D
  OBVIOUS
<1>4. \A d \in D : \E k \in S : d = b - k
  OBVIOUS
<1> HIDE DEF D
<1>5. MinOf(D) \in D /\ \A d \in D : MinOf(D) <= d
  BY <1>2, LeastNumber
<1>6. PICK m \in S : MinOf(D) = b - m
  BY <1>4, <1>5
<1>7. ASSUME NEW k \in S
      PROVE  k <= m
  BY <1>1, <1>3, <1>5, <1>6
<1> QED
  BY <1>7 DEF MaxOf

----------------------------------------------------------------------------
(* The sequences of collect.                                               *)

Target == [host : Hosts, port : Ports, sni : Hosts \cup {""}, written : BOOLEAN]

LEMMA AddrType ==
  ASSUME NEW t \in Target
  PROVE  /\ t.host \in Hosts /\ t.port \in Ports /\ t.sni \in Hosts \cup {""}
         /\ Addr(t) \in Hosts \X Ports
BY DEF Target, Addr

\* What a set of words says, as far as it can be parsed.
Meaning(W) == {Parse(w) : w \in {v \in W : Parses(v)}}

LEMMA ParsedEach ==
  ASSUME NEW s \in Seq(Words)
  PROVE  ParseAll(s) \in Seq(Target) /\ ToSet(ParseAll(s)) = Meaning(ToSet(s))
<1> DEFINE J == {i \in DOMAIN s : Parses(s[i])}
           good == At(s, J)
<1>1. good \in Seq(Words) /\ ToSet(good) = {s[i] : i \in J}
  BY Picked
<1>2. ParseAll(s) = [i \in DOMAIN good |-> Parse(good[i])]
  BY DEF ParseAll
<1>3. {s[i] : i \in J} = {w \in ToSet(s) : Parses(w)}
  BY DEF ToSet
<1> HIDE DEF J, good
<1>4. DOMAIN good = 1..Len(good) /\ Len(good) \in Nat
  BY <1>1, PlacesOf
<1>5. ASSUME NEW i \in DOMAIN good
      PROVE  Parse(good[i]) \in Target
  <2>1. good[i] \in ToSet(good)
    BY DEF ToSet
  <2>2. good[i] \in Words /\ Parses(good[i])
    BY <1>1, <1>3, <2>1
  <2> QED
    BY <2>2, PortAssumption DEF Words, Parses, Parse, Target
<1>6. ParseAll(s) \in Seq(Target)
  BY <1>2, <1>4, <1>5, SeqDef
<1>7. ToSet(ParseAll(s)) = {Parse(w) : w \in ToSet(good)}
  BY <1>2 DEF ToSet
<1> QED
  BY <1>1, <1>3, <1>6, <1>7 DEF Meaning

\* The same, of some places of a sequence.
LEMMA ParsedSome ==
  ASSUME NEW S, NEW s \in Seq(S), NEW I \in SUBSET DOMAIN s, \A i \in I : s[i] \in Words
  PROVE  /\ At(s, I) \in Seq(Words)
         /\ ParseAll(At(s, I)) \in Seq(Target)
         /\ ToSet(ParseAll(At(s, I))) = Meaning({s[i] : i \in I})
<1>1. At(s, I) \in Seq(S) /\ ToSet(At(s, I)) = {s[i] : i \in I}
  BY Picked
<1>2. \A n \in DOMAIN At(s, I) : At(s, I)[n] \in Words
  BY <1>1 DEF ToSet
<1>3. At(s, I) \in Seq(Words)
  BY <1>1, <1>2, PlacesOf, SeqDef
<1> QED
  BY <1>1, <1>3, ParsedEach

\* Of the lines of an inventory one at each address is left.
LEMMA Collapsed ==
  ASSUME NEW ts \in Seq(Target)
  PROVE  /\ Collapse(ts) \in Seq(Target)
         /\ ToSet(Collapse(ts)) \subseteq ToSet(ts)
         /\ \A t \in ToSet(ts) : \E u \in ToSet(Collapse(ts)) : Addr(u) = Addr(t)
<1> DEFINE D == DOMAIN ts
           A == {Addr(ts[i]) : i \in D}
           R == {p \in A \X A : Less(p[1], p[2])}
           at == InOrder(A, R)
           IsLast(a, i) == Addr(ts[i]) = a /\ \A j \in D : Addr(ts[j]) = a => j <= i
           latest(a) == CHOOSE i \in D : IsLast(a, i)
           N == Cardinality(A)
<1>1. D = 1..Len(ts) /\ Len(ts) \in Nat /\ IsFiniteSet(D)
  BY PlacesOf
<1>2. A \subseteq Hosts \X Ports
  <2>1. \A i \in D : ts[i] \in Target
    BY <1>1
  <2> QED
    BY <2>1, AddrType
<1>3. IsFiniteSet(A)
  <2>1. [i \in D |-> Addr(ts[i])] \in Surjection(D, A)
    BY DEF Surjection
  <2> QED
    BY <1>1, <2>1, FS_Surjection
<1>4. ASSUME NEW a \in A
      PROVE  latest(a) \in D /\ Addr(ts[latest(a)]) = a
  <2> DEFINE P == {i \in D : Addr(ts[i]) = a}
  <2>1. P \in SUBSET Nat /\ P # {} /\ \A i \in P : i <= Len(ts)
    BY <1>1
  <2>2. MaxOf(P) \in P /\ \A i \in P : i <= MaxOf(P)
    BY <1>1, <2>1, GreatestNumber
  <2>3. \E i \in D : IsLast(a, i)
    BY <2>2
  <2> QED
    BY <2>3
<1>5. Collapse(ts) = [n \in DOMAIN at |-> ts[latest(at[n])]]
  BY DEF Collapse
<1>6. Orders(R, A)
  <2>1. \A x, y \in A : <<x, y>> \in R <=> Less(x, y)
    OBVIOUS
  <2> HIDE DEF R
  <2> QED
    BY <1>2, <2>1, OrderAssumption DEF Orders
<1> HIDE DEF R, latest, D, A
<1>7. N \in Nat /\ at \in [1..N -> A] /\ \A a \in A : \E n \in 1..N : at[n] = a
  BY <1>3, <1>6, Ordered
<1> HIDE DEF at, N
<1>8. DOMAIN at = 1..N /\ \A n \in 1..N : ts[latest(at[n])] \in Target /\ latest(at[n]) \in D
  BY <1>4, <1>7 DEF D
<1>9. Collapse(ts) \in Seq(Target) /\ DOMAIN Collapse(ts) = 1..N
  BY <1>5, <1>7, <1>8, SeqDef
<1>10. ToSet(Collapse(ts)) = {ts[latest(at[n])] : n \in 1..N}
  BY <1>5, <1>8 DEF ToSet
<1>11. ToSet(Collapse(ts)) \subseteq ToSet(ts)
  BY <1>8, <1>10 DEF ToSet, D
<1>12. ASSUME NEW t \in ToSet(ts)
       PROVE  \E u \in ToSet(Collapse(ts)) : Addr(u) = Addr(t)
  <2>1. Addr(t) \in A
    BY DEF ToSet, A, D
  <2>2. PICK n \in 1..N : at[n] = Addr(t)
    BY <1>7, <2>1
  <2> QED
    BY <1>4, <1>10, <2>1, <2>2
<1> QED
  BY <1>9, <1>11, <1>12

\* Of the targets with one key the first is left.
LEMMA Deduped ==
  ASSUME NEW ts \in Seq(Target)
  PROVE  /\ Deduplicated(ts) \in Seq(Target)
         /\ ToSet(Deduplicated(ts)) \subseteq ToSet(ts)
         /\ \A t \in ToSet(ts) : \E u \in ToSet(Deduplicated(ts)) : Key(u) = Key(t)
         /\ \A m, n \in DOMAIN Deduplicated(ts) :
              Key(Deduplicated(ts)[m]) = Key(Deduplicated(ts)[n]) => m = n
<1> DEFINE I == {i \in DOMAIN ts : \A j \in 1..(i - 1) : Key(ts[j]) # Key(ts[i])}
           d == At(ts, I)
<1>1. DOMAIN ts = 1..Len(ts) /\ Len(ts) \in Nat
  BY PlacesOf
<1>2. I \in SUBSET DOMAIN ts
  OBVIOUS
<1>8. /\ \A i \in I : i \in DOMAIN ts
      /\ \A j \in I : \A i \in 1..(j - 1) : Key(ts[i]) # Key(ts[j])
      /\ \A j \in DOMAIN ts : (\A i \in 1..(j - 1) : Key(ts[i]) # Key(ts[j])) => j \in I
  OBVIOUS
<1>4. Deduplicated(ts) = d
  BY DEF Deduplicated
<1> HIDE DEF I
<1>3. /\ d \in Seq(Target) /\ ToSet(d) = {ts[i] : i \in I}
      /\ \A m, n \in DOMAIN d : m < n => \E i, j \in I : i < j /\ d[m] = ts[i] /\ d[n] = ts[j]
  BY <1>2, Picked
<1>5. ASSUME NEW t \in ToSet(ts)
      PROVE  \E u \in ToSet(d) : Key(u) = Key(t)
  <2> DEFINE P == {i \in DOMAIN ts : Key(ts[i]) = Key(t)}
  <2>1. P \in SUBSET Nat /\ P # {}
    BY <1>1 DEF ToSet
  <2>2. MinOf(P) \in P /\ \A i \in P : MinOf(P) <= i
    BY <2>1, LeastNumber
  <2>3. ASSUME NEW j \in 1..(MinOf(P) - 1)
        PROVE  Key(ts[j]) # Key(ts[MinOf(P)])
    <3>1. j \in DOMAIN ts /\ ~(MinOf(P) <= j)
      BY <1>1, <2>2
    <3> QED
      BY <2>2, <3>1
  <2>4. MinOf(P) \in I
    BY <1>8, <2>2, <2>3
  <2> QED
    BY <1>3, <2>2, <2>4
<1>6. ASSUME NEW m \in DOMAIN d, NEW n \in DOMAIN d, m < n
      PROVE  Key(d[m]) # Key(d[n])
  <2>1. PICK i \in I, j \in I : i < j /\ d[m] = ts[i] /\ d[n] = ts[j]
    BY <1>3, <1>6
  <2>2. i \in 1..(j - 1)
    BY <1>1, <1>8, <2>1
  <2> QED
    BY <1>8, <2>1, <2>2
<1> HIDE DEF d
<1>7. \A m, n \in DOMAIN d : Key(d[m]) = Key(d[n]) => m = n
  <2>1. \A m \in DOMAIN d : m \in Nat
    BY <1>3, PlacesOf
  <2> QED
    BY <1>6, <2>1
<1>9. ToSet(d) \subseteq ToSet(ts)
  <2>1. \A i \in I : ts[i] \in ToSet(ts)
    BY <1>8 DEF ToSet
  <2> QED
    BY <1>3, <2>1
<1> QED
  BY <1>3, <1>4, <1>5, <1>7, <1>9

\* Putting them in the order of their addresses loses and repeats nothing.
LEMMA InAddressOrder ==
  ASSUME NEW ts \in Seq(Target)
  PROVE  /\ Sorted(ts) \in Seq(Target)
         /\ ToSet(Sorted(ts)) = ToSet(ts)
         /\ (\A m, n \in DOMAIN ts : Key(ts[m]) = Key(ts[n]) => m = n) =>
              \A m, n \in DOMAIN Sorted(ts) : Key(Sorted(ts)[m]) = Key(Sorted(ts)[n]) => m = n
<1> DEFINE D == DOMAIN ts
           Before(i, j) == \/ Less(Addr(ts[i]), Addr(ts[j]))
                           \/ Addr(ts[i]) = Addr(ts[j]) /\ i < j
           R == {p \in D \X D : Before(p[1], p[2])}
           at == InOrder(D, R)
           N == Cardinality(D)
<1>1. D = 1..Len(ts) /\ Len(ts) \in Nat /\ IsFiniteSet(D)
  BY PlacesOf
<1>2. \A i \in D : ts[i] \in Target /\ Addr(ts[i]) \in Hosts \X Ports /\ i \in Nat
  <2>1. ASSUME NEW i \in D
        PROVE  ts[i] \in Target /\ i \in Nat
    BY <1>1
  <2> QED
    BY <2>1, AddrType
<1>3. Orders(R, D)
  <2>1. \A i, j \in D : <<i, j>> \in R <=> Before(i, j)
    OBVIOUS
  <2>2. \A i, j \in D : Before(i, j) => ~Before(j, i)
    BY <1>2, OrderAssumption
  <2>3. \A i, j \in D : i # j => Before(i, j) \/ Before(j, i)
    BY <1>2, OrderAssumption
  <2>4. \A i, j, k \in D : Before(i, j) /\ Before(j, k) => Before(i, k)
    BY <1>2, OrderAssumption
  <2> HIDE DEF R, Before, D
  <2> QED
    BY <2>1, <2>2, <2>3, <2>4 DEF Orders
<1>4. Sorted(ts) = [n \in DOMAIN at |-> ts[at[n]]]
  BY DEF Sorted
<1> HIDE DEF R, D
<1>12. IsFiniteSet(D)
  BY <1>1
<1>5. /\ N \in Nat /\ at \in [1..N -> D] /\ \A i \in D : \E n \in 1..N : at[n] = i
      /\ \A m, n \in 1..N : m < n => <<at[m], at[n]>> \in R
  BY <1>3, <1>12, Ordered
<1> HIDE DEF at, N
<1>6. DOMAIN at = 1..N /\ \A n \in 1..N : ts[at[n]] \in Target /\ at[n] \in D
  BY <1>2, <1>5
<1>7. Sorted(ts) \in Seq(Target) /\ DOMAIN Sorted(ts) = 1..N
  BY <1>4, <1>5, <1>6, SeqDef
<1>8. ToSet(Sorted(ts)) = {ts[at[n]] : n \in 1..N}
  BY <1>4, <1>6 DEF ToSet
<1>9. ToSet(Sorted(ts)) = ToSet(ts)
  <2>1. ToSet(ts) = {ts[i] : i \in D}
    BY DEF ToSet, D
  <2> QED
    BY <1>5, <1>6, <1>8, <2>1
<1>10. ASSUME NEW m \in 1..N, NEW n \in 1..N, at[m] = at[n]
       PROVE  m = n
  <2>1. \A i \in D : <<i, i>> \notin R
    BY <1>3 DEF Orders
  <2>2. ~(m < n) /\ ~(n < m)
    BY <1>5, <1>6, <1>10, <2>1
  <2> QED
    BY <2>2
<1>11. ASSUME \A m, n \in D : Key(ts[m]) = Key(ts[n]) => m = n,
              NEW m \in 1..N, NEW n \in 1..N, Key(Sorted(ts)[m]) = Key(Sorted(ts)[n])
       PROVE  m = n
  BY <1>4, <1>6, <1>10, <1>11
<1> QED
  BY <1>7, <1>9, <1>11 DEF D

\* g is what FlattenSeq has put together after each of the first m parts.
Joins(g, ss, m) ==
  g = [i \in 1..m |-> IF i = 1 THEN ss[i] ELSE g[i - 1] \o ss[i]]

\* There is such a g, however many parts there are.
LEMMA JoiningRuns ==
  ASSUME NEW ss, NEW m \in Nat
  PROVE  \E g : Joins(g, ss, m)
<1> DEFINE M == {i \in Nat : \E g : Joins(g, ss, i)}
<1>1. 0 \in M
  <2>1. PICK g : g = [i \in 1..0 |-> << >>]
    OBVIOUS
  <2>2. Joins(g, ss, 0)
    BY <2>1 DEF Joins
  <2> QED
    BY <2>2
<1>2. ASSUME NEW i \in Nat, i \in M
      PROVE  i + 1 \in M
  <2>1. PICK g : Joins(g, ss, i)
    BY <1>2
  <2> DEFINE new == IF i = 0 THEN ss[1] ELSE g[i] \o ss[i + 1]
             h == [k \in 1..(i + 1) |-> IF k = i + 1 THEN new ELSE g[k]]
             r == [k \in 1..(i + 1) |-> IF k = 1 THEN ss[k] ELSE h[k - 1] \o ss[k]]
  <2>2. ASSUME NEW k \in 1..(i + 1)
        PROVE  h[k] = r[k]
    <3>1. CASE k = i + 1
      <4>1. k # 1 => h[k - 1] = g[i] /\ i # 0
        BY <3>1
      <4> QED
        BY <3>1, <4>1
    <3>2. CASE k # i + 1
      <4>1. k \in 1..i /\ (k # 1 => k - 1 \in 1..i)
        BY <3>2
      <4>2. h[k] = g[k] /\ (k # 1 => h[k - 1] = g[k - 1])
        BY <4>1
      <4>3. g[k] = IF k = 1 THEN ss[k] ELSE g[k - 1] \o ss[k]
        BY <2>1, <4>1 DEF Joins
      <4> QED
        BY <4>2, <4>3
    <3> QED
      BY <3>1, <3>2
  <2>3. h = r
    <3>1. \A k \in 1..(i + 1) : h[k] = r[k]
      BY <2>2
    <3> HIDE DEF new
    <3> QED
      BY <3>1
  <2>4. Joins(h, ss, i + 1)
    BY <2>3 DEF Joins
  <2> HIDE DEF h
  <2> QED
    BY <2>4
<1> HIDE DEF M
<1>3. m \in M
  BY <1>1, <1>2, EveryNumber
<1> QED
  BY <1>3 DEF M

\* FlattenSeq loses nothing and makes nothing up.
LEMMA Flattened ==
  ASSUME NEW S, NEW ss \in Seq(Seq(S))
  PROVE  /\ FlattenSeq(ss) \in Seq(S)
         /\ ToSet(FlattenSeq(ss)) = UNION {ToSet(ss[i]) : i \in DOMAIN ss}
<1> DEFINE n == Len(ss)
           g == CHOOSE f : Joins(f, ss, n)
           M == {i \in Nat : i \in 1..n =>
                   g[i] \in Seq(S) /\ ToSet(g[i]) = UNION {ToSet(ss[j]) : j \in 1..i}}
<1>1. n \in Nat /\ DOMAIN ss = 1..n /\ \A i \in 1..n : ss[i] \in Seq(S)
  OBVIOUS
<1>2. Joins(g, ss, n)
  BY <1>1, JoiningRuns
<1>3. CASE n = 0
  <2>1. ss = << >> /\ FlattenSeq(ss) = ss
    BY <1>1, <1>3 DEF FlattenSeq
  <2>2. << >> \in Seq(S) /\ DOMAIN ss = {}
    BY <2>1
  <2> QED
    BY <2>1, <2>2 DEF ToSet
<1>4. CASE n # 0
  <2>1. FlattenSeq(ss) = g[n]
    BY <1>4 DEF FlattenSeq, Joins
  <2>2. \A i \in 1..n : g[i] = IF i = 1 THEN ss[i] ELSE g[i - 1] \o ss[i]
    BY <1>2 DEF Joins
  <2> HIDE DEF g, n
  <2>3. 0 \in M
    OBVIOUS
  <2>4. ASSUME NEW i \in Nat, i \in M
        PROVE  i + 1 \in M
    <3> SUFFICES ASSUME i + 1 \in 1..n
                 PROVE  /\ g[i + 1] \in Seq(S)
                        /\ ToSet(g[i + 1]) = UNION {ToSet(ss[j]) : j \in 1..(i + 1)}
      OBVIOUS
    <3>1. CASE i = 0
      <4>1. g[i + 1] = ss[1] /\ ss[1] \in Seq(S) /\ 1..(i + 1) = {1}
        BY <1>1, <2>2, <3>1
      <4> QED
        BY <4>1
    <3>2. CASE i # 0
      <4>1. g[i] \in Seq(S) /\ ToSet(g[i]) = UNION {ToSet(ss[j]) : j \in 1..i}
        BY <1>1, <2>4, <3>2
      <4>2. g[i + 1] = g[i] \o ss[i + 1] /\ ss[i + 1] \in Seq(S)
        <5>1. (i + 1) - 1 = i /\ i + 1 # 1
          BY <3>2
        <5> QED
          BY <1>1, <2>2, <5>1
      <4>3. g[i + 1] \in Seq(S) /\ ToSet(g[i + 1]) = ToSet(g[i]) \cup ToSet(ss[i + 1])
        BY <4>1, <4>2, Joined
      <4>4. 1..(i + 1) = 1..i \cup {i + 1}
        OBVIOUS
      <4> QED
        BY <4>1, <4>3, <4>4
    <3> QED
      BY <3>1, <3>2
  <2> HIDE DEF M
  <2>5. n \in M
    BY <1>1, <2>3, <2>4, EveryNumber
  <2>6. n \in 1..n
    BY <1>1, <1>4
  <2> QED
    BY <1>1, <2>1, <2>5, <2>6 DEF M
<1> QED
  BY <1>3, <1>4

LEMMA Made ==
  ASSUME NEW h \in Hosts, NEW p \in Ports, NEW n \in Hosts, n # ""
  PROVE  /\ [host |-> h, port |-> p, sni |-> n, written |-> FALSE] \in Target
         /\ ServerName([host |-> h, port |-> p, sni |-> n, written |-> FALSE]) = n
BY DEF Target, ServerName

\* What ExpandAddresses puts in the place of a target stands for it.
LEMMA Expanded ==
  ASSUME NEW t \in Target, zone \in [Hosts \ Literals -> Seq(Literals)]
  PROVE  /\ Expand(t) \in Seq(Target) /\ ToSet(Expand(t)) # {}
         /\ \A u \in ToSet(Expand(t)) : Stands(u, t)
<1> DEFINE ips == zone[t.host]
           I == {i \in DOMAIN ips : inFamily(ips[i], cmd.network)}
           kept == At(ips, I)
           inPlace == [i \in DOMAIN kept |-> [t EXCEPT !.host = kept[i], !.sni = ServerName(t),
                                                       !.written = FALSE]]
<1>1. t.host \in Hosts /\ t.port \in Ports /\ t.sni \in Hosts \cup {""} /\ t.host # ""
  BY AddrType, TargetsAssumption
<1>2. CASE t.host \in Literals \/ kept = << >>
  <2>1. Expand(t) = <<t>>
    BY <1>2 DEF Expand
  <2>2. ToSet(<<t>>) = {t} /\ <<t>> \in Seq(Target)
    BY DEF ToSet
  <2>3. Stands(t, t)
    BY DEF Stands
  <2> QED
    BY <2>1, <2>2, <2>3
<1>3. CASE ~(t.host \in Literals \/ kept = << >>)
  <2>1. Expand(t) = inPlace
    BY <1>3 DEF Expand
  <2>2. ips \in Seq(Literals)
    BY <1>1, <1>3
  <2>3. kept \in Seq(Literals) /\ ToSet(kept) = {ips[i] : i \in I}
    BY <2>2, Picked
  <2>4. \A i \in DOMAIN kept : kept[i] \in ToSet(kept)
    BY DEF ToSet
  <2>9. \A i \in I : ips[i] \in ToSet(ips) /\ ips[i] \in Literals /\ inFamily(ips[i], cmd.network)
    BY <2>2, PlacesOf DEF ToSet
  <2> HIDE DEF kept, ips, I
  <2>5. \A i \in DOMAIN kept : /\ kept[i] \in ToSet(ips) /\ inFamily(kept[i], cmd.network)
                               /\ kept[i] \in Literals
    BY <2>3, <2>4, <2>9
  <2>6. DOMAIN kept = 1..Len(kept) /\ Len(kept) \in Nat /\ DOMAIN kept # {}
    <3>1. kept # << >>
      BY <1>3
    <3>2. Len(kept) \in Nat /\ Len(kept) # 0 /\ DOMAIN kept = 1..Len(kept)
      BY <2>3, <3>1, EmptySeq
    <3>3. 1 \in 1..Len(kept)
      BY <3>2
    <3> QED
      BY <3>2, <3>3
  <2>7. ASSUME NEW i \in DOMAIN kept
        PROVE  inPlace[i] \in Target /\ Stands(inPlace[i], t)
    <3>1. inPlace[i] = [host |-> kept[i], port |-> t.port, sni |-> ServerName(t), written |-> FALSE]
      BY DEF Target
    <3>2. ServerName(t) \in Hosts /\ ServerName(t) # "" /\ kept[i] \in Hosts
      BY <1>1, <2>5, TargetsAssumption DEF ServerName
    <3> HIDE DEF inPlace
    <3> DEFINE u == [host |-> kept[i], port |-> t.port, sni |-> ServerName(t), written |-> FALSE]
    <3>3. u \in Target /\ ServerName(u) = ServerName(t)
      BY <1>1, <3>2, Made
    <3> HIDE DEF u
    <3>4. inPlace[i] \in Target
      BY <3>1, <3>3 DEF u
    <3>5. ServerName(inPlace[i]) = ServerName(t)
      BY <3>1, <3>3 DEF u
    <3> QED
      BY <1>3, <2>5, <3>1, <3>4, <3>5 DEF Stands, ips
  <2>8. inPlace \in Seq(Target) /\ DOMAIN inPlace = DOMAIN kept
    <3>1. DOMAIN inPlace = DOMAIN kept /\ inPlace \in [DOMAIN kept -> Target]
      BY <2>7
    <3> HIDE DEF inPlace
    <3> QED
      BY <2>6, <3>1, SeqDef
  <2> HIDE DEF inPlace
  <2> QED
    BY <2>1, <2>6, <2>7, <2>8 DEF ToSet
<1> QED
  BY <1>2, <1>3

----------------------------------------------------------------------------
(* The fleet.                                                              *)

\* What the day has is what the session and the world may have on it.
Inputs ==
  /\ Today
  /\ cmd = session.commands[run]
  /\ zone \in Zones(session.trial, run)
  /\ world \in Worlds(session.trial, run)

\* The words of the operands, and of standard input if a dash asks for it.
Operands ==
  (ToSet(cmd.args) \ {Dash}) \cup
  IF Dash \in ToSet(cmd.args) THEN ToSet(cmd.stdin.words) ELSE {}

Steps == {"flags", "operands", "list", "inventory", "merge", "expand", "usage", "run",
          "annotate", "compare", "render", "publish", "publishing", "exit", "over"}

\* Source by source, what has been read is what was written there; nothing is
\* known of a run in which a source went without standard input, and none such
\* gets past the merge.
Gathered ==
  /\ pc \in Steps
  /\ all \in Seq(Target) /\ out \in Seq(Target)
  /\ Len(taken) <= 1 /\ twice \in BOOLEAN
  /\ pc = "list" => ToSet(all) = Meaning(Operands)
  /\ pc = "inventory" /\ ~twice => ToSet(all) = Meaning(Written)
  /\ pc = "merge" /\ ~twice =>
       /\ Meaning(Written) \subseteq ToSet(all)
       /\ ToSet(all) \subseteq Meaning(Written \cup Hosted)
       /\ \A w \in Hosted : Parses(w) => \E t \in ToSet(all) : t.host = w.host
  /\ pc \in {"expand", "run"} => ~twice /\ out # << >>
  /\ pc = "expand" => cmd.perAddress
  /\ FleetIsWhatWasNamed

LEMMA InputsTyped ==
  ASSUME Inputs
  PROVE  /\ cmd \in CommandLine
         /\ zone \in [Hosts \ Literals -> Seq(Literals)]
         /\ world.routes \subseteq Families
         /\ world.class \in [Literals -> Class]
         /\ world.besides \in [Literals -> SUBSET ((STRING \ RunChecks) \X Status)]
<1>1. session \in Sessions /\ session.commands \in Seq(CommandLine)
      /\ run \in 1..Len(session.commands) /\ run \in DOMAIN session.commands
  <2>1. session \in Sessions /\ run \in 1..Len(session.commands)
    BY DEF Inputs, Today
  <2>2. session.commands \in Seq(CommandLine)
    BY <2>1, WorldAssumption
  <2> QED
    BY <2>1, <2>2
<1>2. cmd \in CommandLine
  BY <1>1 DEF Inputs
<1>3. zone \in Zones(session.trial, run) /\ world \in Worlds(session.trial, run)
  BY DEF Inputs
<1> QED
  BY <1>1, <1>2, <1>3, WorldAssumption

LEMMA CommandTyped ==
  ASSUME NEW c \in CommandLine
  PROVE  /\ c.args \in Seq(Words \cup {Dash})
         /\ c.list.piped \in BOOLEAN /\ c.list.holds \in Seq(Words)
         /\ c.inventory.piped \in BOOLEAN /\ c.inventory.holds \in Seq(Lines)
         /\ c.stdin.words \in Seq(Words) /\ c.stdin.lines \in Seq(Lines)
         /\ c.port \in Ports \cup {""} /\ c.sni \in Hosts \cup {""}
         /\ c.perAddress \in BOOLEAN /\ c.network \in Families \cup {""}
<1> DEFINE FromWords == [piped : BOOLEAN, holds : Seq(Words)]
           FromLines == [piped : BOOLEAN, holds : Seq(Lines)]
           Both == [words : Seq(Words), lines : Seq(Lines)]
<1>1. /\ c.args \in Seq(Words \cup {Dash}) /\ c.list \in FromWords
      /\ c.inventory \in FromLines /\ c.stdin \in Both
      /\ c.port \in Ports \cup {""} /\ c.sni \in Hosts \cup {""}
      /\ c.perAddress \in BOOLEAN /\ c.network \in Families \cup {""}
  BY DEF CommandLine
<1>2. /\ \A x \in FromWords : x.piped \in BOOLEAN /\ x.holds \in Seq(Words)
      /\ \A x \in FromLines : x.piped \in BOOLEAN /\ x.holds \in Seq(Lines)
      /\ \A x \in Both : x.words \in Seq(Words) /\ x.lines \in Seq(Lines)
  OBVIOUS
<1> QED
  BY <1>1, <1>2

LEMMA MeaningJoined ==
  ASSUME NEW V, NEW W
  PROVE  Meaning(V \cup W) = Meaning(V) \cup Meaning(W)
BY DEF Meaning

\* An inventory: the hosts of the wanted groups, one target at an address.
LEMMA InventoryRead ==
  ASSUME NEW lines \in Seq(Lines), NEW groups
  PROVE  LET H == {l.word : l \in {m \in ToSet(lines) : Wanted(groups, m)}}
         IN  /\ ReadAnsibleINI(lines, groups) \in Seq(Target)
             /\ ToSet(ReadAnsibleINI(lines, groups)) \subseteq Meaning(H)
             /\ \A w \in H : Parses(w) =>
                  \E t \in ToSet(ReadAnsibleINI(lines, groups)) : t.host = w.host
<1> DEFINE H == {l.word : l \in {m \in ToSet(lines) : Wanted(groups, m)}}
           I == {i \in DOMAIN lines : Wanted(groups, lines[i])}
           kept == At(lines, I)
           words == [i \in DOMAIN kept |-> kept[i].word]
           parsed == ParseAll(words)
<1>1. kept \in Seq(Lines) /\ ToSet(kept) = {lines[i] : i \in I}
  BY Picked
<1>2. {lines[i] : i \in I} = {m \in ToSet(lines) : Wanted(groups, m)}
  BY DEF ToSet
<1>3. ReadAnsibleINI(lines, groups) = Collapse(parsed)
  BY DEF ReadAnsibleINI
<1> HIDE DEF kept, I
<1>4. words \in Seq(Words)
  <2>1. DOMAIN kept = 1..Len(kept) /\ Len(kept) \in Nat /\ \A i \in DOMAIN kept : kept[i] \in Lines
    BY <1>1
  <2>2. \A i \in DOMAIN kept : kept[i].word \in Words
    BY <2>1 DEF Lines
  <2> QED
    BY <2>1, <2>2, SeqDef
<1>5. ToSet(words) = H
  <2>1. ToSet(words) = {l.word : l \in ToSet(kept)}
    BY DEF ToSet
  <2> QED
    BY <1>1, <1>2, <2>1
<1> HIDE DEF words, H
<1>6. parsed \in Seq(Target) /\ ToSet(parsed) = Meaning(H)
  BY <1>4, <1>5, ParsedEach
<1> HIDE DEF parsed
<1>7. /\ Collapse(parsed) \in Seq(Target) /\ ToSet(Collapse(parsed)) \subseteq Meaning(H)
      /\ \A t \in Meaning(H) : \E u \in ToSet(Collapse(parsed)) : Addr(u) = Addr(t)
  BY <1>6, Collapsed
<1>8. ASSUME NEW w \in H, Parses(w)
      PROVE  \E t \in ToSet(Collapse(parsed)) : t.host = w.host
  <2>1. Parse(w) \in Meaning(H) /\ Parse(w).host = w.host
    BY <1>8 DEF Meaning, Parse
  <2>2. PICK u \in ToSet(Collapse(parsed)) : Addr(u) = Addr(Parse(w))
    BY <1>7, <2>1
  <2> QED
    BY <2>1, <2>2 DEF Addr
<1> QED
  BY <1>3, <1>7, <1>8 DEF H

\* The override of --port and --sni is what a word means on this command line.
LEMMA OverriddenMeans ==
  ASSUME NEW w \in Words, Parses(w), Inputs
  PROVE  /\ Override(Parse(w)).host = Meant(w).host
         /\ Override(Parse(w)).port = Meant(w).port
         /\ Override(Parse(w)).sni = Meant(w).sni
BY TargetsAssumption DEF Words, Parse, Parses, Override, Meant

LEMMA OverrideType ==
  ASSUME NEW t \in Target, Inputs
  PROVE  Override(t) \in Target /\ Override(t).host = t.host
<1>1. cmd.port \in Ports \cup {""} /\ cmd.sni \in Hosts \cup {""}
  BY InputsTyped, CommandTyped
<1> DEFINE p == IF cmd.port # "" /\ ~t.written THEN cmd.port ELSE t.port
           n == IF cmd.sni # "" THEN cmd.sni ELSE t.sni
<1>2. Override(t) = [t EXCEPT !.port = p, !.sni = n]
  BY DEF Override
<1>3. p \in Ports /\ n \in Hosts \cup {""}
  BY <1>1, AddrType
<1> HIDE DEF p, n
<1> QED
  BY <1>2, <1>3 DEF Target

LEMMA OperandsKeep ==
  ASSUME Inputs, Gathered, ReadOperands, Inputs'
  PROVE  Gathered'
<1> DEFINE args == cmd.args
           I == {i \in DOMAIN args : args[i] # Dash}
           D == {i \in DOMAIN args : args[i] = Dash}
           piped == IF Cardinality(D) > 0 THEN ReadList(cmd.stdin.words) ELSE << >>
           typed == ParseAll(At(args, I))
<1>1. args \in Seq(Words \cup {Dash}) /\ cmd.stdin.words \in Seq(Words)
  BY InputsTyped, CommandTyped
<1>2. /\ pc' = "list" /\ all' = piped \o typed /\ UNCHANGED <<cmd, zone, out>>
      /\ taken' = (IF Cardinality(D) > 0 THEN <<"operand">> ELSE << >>)
      /\ twice' = (Cardinality(D) > 1)
  BY DEF ReadOperands
<1>3. Cardinality(D) \in Nat /\ (Cardinality(D) > 0 <=> Dash \in ToSet(args))
  <2>1. IsFiniteSet(DOMAIN args) /\ D \subseteq DOMAIN args
    BY <1>1, PlacesOf
  <2>2. IsFiniteSet(D)
    BY <2>1, FS_Subset
  <2>3. Cardinality(D) \in Nat /\ (Cardinality(D) = 0 <=> D = {})
    BY <2>2, FS_CardinalityType, FS_EmptySet
  <2>4. D # {} <=> Dash \in ToSet(args)
    BY DEF ToSet
  <2> HIDE DEF D
  <2> QED
    BY <2>3, <2>4
<1>4. {args[i] : i \in I} = ToSet(args) \ {Dash}
  BY DEF ToSet
<1>5. I \in SUBSET DOMAIN args /\ \A i \in I : args[i] \in Words
  BY <1>1
<1> HIDE DEF args, I, D
<1>6. typed \in Seq(Target) /\ ToSet(typed) = Meaning(ToSet(args) \ {Dash})
  BY <1>1, <1>4, <1>5, ParsedSome
<1>7. /\ piped \in Seq(Target)
      /\ ToSet(piped) = Meaning(IF Dash \in ToSet(args) THEN ToSet(cmd.stdin.words) ELSE {})
  <2>1. CASE Dash \in ToSet(args)
    BY <1>1, <1>3, <2>1, ParsedEach DEF ReadList
  <2>2. CASE Dash \notin ToSet(args)
    <3>1. piped = << >> /\ << >> \in Seq(Target) /\ ToSet(<< >>) = {} /\ Meaning({}) = {}
      BY <1>3, <2>2 DEF ToSet, Meaning
    <3> QED
      BY <2>2, <3>1
  <2> QED
    BY <2>1, <2>2
<1> HIDE DEF piped, typed
<1>8. all' \in Seq(Target) /\ ToSet(all') = Meaning(Operands)
  <2> DEFINE V == ToSet(args) \ {Dash}
             W == IF Dash \in ToSet(args) THEN ToSet(cmd.stdin.words) ELSE {}
  <2>1. all' \in Seq(Target) /\ ToSet(all') = ToSet(piped) \cup ToSet(typed)
    BY <1>2, <1>6, <1>7, Joined
  <2>2. Operands = V \cup W
    BY DEF Operands, args
  <2> HIDE DEF V, W
  <2>3. Meaning(V \cup W) = Meaning(V) \cup Meaning(W)
    BY MeaningJoined
  <2> QED
    BY <1>6, <1>7, <2>1, <2>2, <2>3 DEF V, W
<1>9. Operands' = Operands
  BY <1>2 DEF Operands
<1>10. Len(taken') <= 1 /\ twice' \in BOOLEAN
  BY <1>2
<1>11. FleetIsWhatWasNamed'
  BY <1>2 DEF FleetIsWhatWasNamed, Collected
<1> QED
  BY <1>2, <1>8, <1>9, <1>10, <1>11 DEF Gathered, Steps

\* What --list adds to what is there.
LEMMA ListKeeps ==
  ASSUME Inputs, Gathered, ReadListFlag, Inputs'
  PROVE  Gathered'
<1>1. /\ pc = "list" /\ pc' = "inventory" /\ UNCHANGED <<cmd, zone, out>>
      /\ all \in Seq(Target) /\ ToSet(all) = Meaning(Operands)
  BY DEF ReadListFlag, Gathered
<1>2. cmd.list.holds \in Seq(Words) /\ cmd.stdin.words \in Seq(Words)
  BY InputsTyped, CommandTyped
<1>3. Written = Operands \cup WordsOf(cmd.list, cmd.stdin.words)
  BY DEF Written, Operands
<1>4. ASSUME NEW s \in Seq(Words), all' = all \o ReadList(s)
      PROVE  /\ all' \in Seq(Target)
             /\ ToSet(all') = Meaning(Operands \cup ToSet(s))
  <2>1. ReadList(s) \in Seq(Target) /\ ToSet(ReadList(s)) = Meaning(ToSet(s))
    BY ParsedEach DEF ReadList
  <2>2. all' \in Seq(Target) /\ ToSet(all') = ToSet(all) \cup ToSet(ReadList(s))
    BY <1>1, <1>4, <2>1, Joined
  <2>3. Meaning(Operands \cup ToSet(s)) = Meaning(Operands) \cup Meaning(ToSet(s))
    BY MeaningJoined
  <2> QED
    BY <1>1, <2>1, <2>2, <2>3
<1>5. /\ all' \in Seq(Target) /\ Len(taken') <= 1 /\ twice' \in BOOLEAN
      /\ ~twice' => ToSet(all') = Meaning(Written)
  <2>1. CASE cmd.list.piped
    <3>1. /\ taken' = (IF taken = << >> THEN <<"list">> ELSE taken)
          /\ twice' = (twice \/ taken # << >>)
          /\ all' = IF taken = << >> THEN all \o ReadList(cmd.stdin.words) ELSE all
      BY <2>1 DEF ReadListFlag, Claim
    <3>2. Len(taken') <= 1 /\ twice' \in BOOLEAN
      BY <3>1 DEF Gathered
    <3>3. CASE taken = << >>
      BY <1>2, <1>3, <1>4, <2>1, <3>1, <3>2, <3>3 DEF WordsOf
    <3>4. CASE taken # << >>
      BY <1>1, <3>1, <3>2, <3>4
    <3> QED
      BY <3>3, <3>4
  <2>2. CASE ~cmd.list.piped
    <3>1. all' = all \o ReadList(cmd.list.holds) /\ UNCHANGED <<taken, twice>>
      BY <2>2 DEF ReadListFlag
    <3> QED
      BY <1>2, <1>3, <1>4, <2>2, <3>1 DEF WordsOf, Gathered
  <2> QED
    BY <2>1, <2>2
<1>6. Written' = Written
  BY <1>1 DEF Written
<1>7. FleetIsWhatWasNamed'
  BY <1>1 DEF FleetIsWhatWasNamed, Collected
<1> QED
  BY <1>1, <1>5, <1>6, <1>7 DEF Gathered, Steps

\* And what --inventory adds.
LEMMA InventoryKeeps ==
  ASSUME Inputs, Gathered, ReadInventory, Inputs'
  PROVE  Gathered'
<1>1. /\ pc = "inventory" /\ pc' = "merge" /\ UNCHANGED <<cmd, zone, out>>
      /\ all \in Seq(Target) /\ (~twice => ToSet(all) = Meaning(Written))
  BY DEF ReadInventory, Gathered
<1>2. cmd.inventory.holds \in Seq(Lines) /\ cmd.stdin.lines \in Seq(Lines)
  BY InputsTyped, CommandTyped
<1> DEFINE Wants(lines) == {l.word : l \in {m \in ToSet(lines) : Wanted(cmd.groups, m)}}
<1>3. ASSUME NEW lines \in Seq(Lines), all' = all \o ReadAnsibleINI(lines, cmd.groups)
      PROVE  /\ all' \in Seq(Target)
             /\ ~twice =>
                  /\ Meaning(Written) \subseteq ToSet(all')
                  /\ ToSet(all') \subseteq Meaning(Written \cup Wants(lines))
                  /\ \A w \in Wants(lines) : Parses(w) => \E t \in ToSet(all') : t.host = w.host
  <2> DEFINE r == ReadAnsibleINI(lines, cmd.groups)
  <2>1. /\ r \in Seq(Target) /\ ToSet(r) \subseteq Meaning(Wants(lines))
        /\ \A w \in Wants(lines) : Parses(w) => \E t \in ToSet(r) : t.host = w.host
    BY InventoryRead
  <2> HIDE DEF r, Wants
  <2>2. all' \in Seq(Target) /\ ToSet(all') = ToSet(all) \cup ToSet(r)
    BY <1>1, <1>3, <2>1, Joined DEF r
  <2> QED
    BY <1>1, <2>1, <2>2, MeaningJoined
<1>4. Hosted = Wants(IF cmd.inventory.piped THEN cmd.stdin.lines ELSE cmd.inventory.holds)
  BY DEF Hosted, WordsOf
<1> HIDE DEF Wants
<1> DEFINE AllIn ==
             /\ Meaning(Written) \subseteq ToSet(all')
             /\ ToSet(all') \subseteq Meaning(Written \cup Hosted)
             /\ \A w \in Hosted : Parses(w) => \E t \in ToSet(all') : t.host = w.host
<1>5. all' \in Seq(Target) /\ Len(taken') <= 1 /\ twice' \in BOOLEAN /\ (~twice' => AllIn)
  <2>1. CASE cmd.inventory.piped
    <3>1. /\ taken' = (IF taken = << >> THEN <<"inventory">> ELSE taken)
          /\ twice' = (twice \/ taken # << >>)
          /\ all' = IF taken = << >> THEN all \o ReadAnsibleINI(cmd.stdin.lines, cmd.groups)
                    ELSE all
      BY <2>1 DEF ReadInventory, Claim
    <3>2. Len(taken') <= 1 /\ twice' \in BOOLEAN
      BY <3>1 DEF Gathered
    <3>3. CASE taken = << >>
      BY <1>2, <1>3, <1>4, <2>1, <3>1, <3>2, <3>3
    <3>4. CASE taken # << >>
      BY <1>1, <3>1, <3>2, <3>4
    <3> QED
      BY <3>3, <3>4
  <2>2. CASE ~cmd.inventory.piped
    <3>1. all' = all \o ReadAnsibleINI(cmd.inventory.holds, cmd.groups) /\ UNCHANGED <<taken, twice>>
      BY <2>2 DEF ReadInventory
    <3>2. Len(taken') <= 1 /\ twice' \in BOOLEAN
      BY <3>1 DEF Gathered
    <3> QED
      BY <1>2, <1>3, <1>4, <2>2, <3>1, <3>2
  <2> QED
    BY <2>1, <2>2
<1>6. Written' = Written /\ Hosted' = Hosted
  BY <1>1 DEF Written, Hosted
<1>7. FleetIsWhatWasNamed'
  BY <1>1 DEF FleetIsWhatWasNamed, Collected
<1> QED
  BY <1>1, <1>5, <1>6, <1>7 DEF Gathered, Steps

\* The merge: overrides, the first of each key, in order.
LEMMA MergeKeeps ==
  ASSUME Inputs, Gathered, Merge, Inputs'
  PROVE  Gathered'
<1> DEFINE over == [i \in DOMAIN all |-> Override(all[i])]
           kept == Deduplicated(over)
<1>1. /\ pc = "merge" /\ out' = Sorted(kept) /\ UNCHANGED <<cmd, zone, taken, twice, all>>
      /\ pc' = IF twice \/ out' = << >> THEN "usage" ELSE IF cmd.perAddress THEN "expand" ELSE "run"
  BY DEF Merge
<1>2. all \in Seq(Target) /\ DOMAIN all = 1..Len(all) /\ Len(all) \in Nat
  BY PlacesOf DEF Gathered
<1>3. \A i \in DOMAIN all : Override(all[i]) \in Target
  <2>1. \A i \in DOMAIN all : all[i] \in Target
    BY <1>2
  <2> QED
    BY <2>1, OverrideType
<1>4. over \in Seq(Target) /\ ToSet(over) = {Override(t) : t \in ToSet(all)}
  BY <1>2, <1>3, SeqDef DEF ToSet
<1> HIDE DEF over
<1>5. /\ kept \in Seq(Target) /\ ToSet(kept) \subseteq ToSet(over)
      /\ \A t \in ToSet(over) : \E u \in ToSet(kept) : Key(u) = Key(t)
      /\ \A m, n \in DOMAIN kept : Key(kept[m]) = Key(kept[n]) => m = n
  BY <1>4, Deduped
<1> HIDE DEF kept
<1>6. /\ out' \in Seq(Target) /\ ToSet(out') = ToSet(kept)
      /\ \A m, n \in DOMAIN out' : Key(out'[m]) = Key(out'[n]) => m = n
  BY <1>1, <1>5, InAddressOrder
<1>7. ASSUME NEW t \in ToSet(all)
      PROVE  \E i \in DOMAIN out' : Key(out'[i]) = Key(Override(t))
  <2>1. PICK u \in ToSet(out') : Key(u) = Key(Override(t))
    BY <1>4, <1>5, <1>6
  <2> QED
    BY <2>1 DEF ToSet
<1>8. ASSUME NEW i \in DOMAIN out'
      PROVE  \E t \in ToSet(all) : out'[i] = Override(t)
  <2>1. out'[i] \in ToSet(out')
    BY DEF ToSet
  <2> QED
    BY <1>4, <1>5, <1>6, <2>1
<1>9. Written' = Written /\ Hosted' = Hosted
  BY <1>1 DEF Written, Hosted
<1>10. Written \subseteq Words /\ Hosted \subseteq Words
  <2>1. /\ cmd.args \in Seq(Words \cup {Dash}) /\ cmd.list.holds \in Seq(Words)
        /\ cmd.stdin.words \in Seq(Words)
        /\ cmd.inventory.holds \in Seq(Lines) /\ cmd.stdin.lines \in Seq(Lines)
    BY InputsTyped, CommandTyped
  <2>2. /\ ToSet(cmd.args) \subseteq Words \cup {Dash} /\ ToSet(cmd.list.holds) \subseteq Words
        /\ ToSet(cmd.stdin.words) \subseteq Words
        /\ ToSet(cmd.inventory.holds) \subseteq Lines /\ ToSet(cmd.stdin.lines) \subseteq Lines
    BY <2>1, PlacesOf
  <2>3. Written \subseteq Words
    BY <2>2 DEF Written, WordsOf
  <2>4. \A l \in Lines : l.word \in Words
    BY DEF Lines
  <2> QED
    BY <2>2, <2>3, <2>4 DEF Hosted, WordsOf
<1>11. ASSUME NEW w \in Words, Parses(w), NEW t, Key(t) = Key(Override(Parse(w)))
       PROVE  <<t.host, t.port, t.sni>> = <<Meant(w).host, Meant(w).port, Meant(w).sni>>
  <2>1. /\ t.host = Override(Parse(w)).host /\ t.port = Override(Parse(w)).port
        /\ t.sni = Override(Parse(w)).sni
    BY <1>11 DEF Key, Addr
  <2> QED
    BY <1>11, <2>1, OverriddenMeans
<1>12. ASSUME ~twice
       PROVE  /\ \A w \in Written : Parses(w) => Dialled(Meant(w), out')
              /\ \A w \in Hosted : Parses(w) => \E i \in DOMAIN out' : out'[i].host = w.host
              /\ \A i \in DOMAIN out' : \E w \in Written \cup Hosted :
                   Parses(w) /\ Dialled(Meant(w), <<out'[i]>>)
  <2>1. /\ Meaning(Written) \subseteq ToSet(all)
        /\ ToSet(all) \subseteq Meaning(Written \cup Hosted)
        /\ \A w \in Hosted : Parses(w) => \E t \in ToSet(all) : t.host = w.host
    BY <1>1, <1>12 DEF Gathered
  <2>2. ASSUME NEW w \in Written, Parses(w)
        PROVE  Dialled(Meant(w), out')
    <3>1. Parse(w) \in ToSet(all)
      BY <2>1, <2>2 DEF Meaning
    <3>2. PICK i \in DOMAIN out' : Key(out'[i]) = Key(Override(Parse(w)))
      BY <1>7, <3>1
    <3>3. <<out'[i].host, out'[i].port, out'[i].sni>> = <<Meant(w).host, Meant(w).port, Meant(w).sni>>
      BY <1>10, <1>11, <2>2, <3>2
    <3> QED
      BY <3>3 DEF Dialled
  <2>3. ASSUME NEW w \in Hosted, Parses(w)
        PROVE  \E i \in DOMAIN out' : out'[i].host = w.host
    <3>1. PICK t \in ToSet(all) : t.host = w.host
      BY <2>1, <2>3
    <3>2. PICK i \in DOMAIN out' : Key(out'[i]) = Key(Override(t))
      BY <1>7
    <3>3. t \in Target
      BY <1>2, PlacesOf
    <3> QED
      BY <3>1, <3>2, <3>3, OverrideType DEF Key, Addr
  <2>4. ASSUME NEW i \in DOMAIN out'
        PROVE  \E w \in Written \cup Hosted : Parses(w) /\ Dialled(Meant(w), <<out'[i]>>)
    <3>1. PICK t \in ToSet(all) : out'[i] = Override(t)
      BY <1>8
    <3>2. PICK w \in Written \cup Hosted : Parses(w) /\ t = Parse(w)
      BY <2>1 DEF Meaning
    <3> DEFINE u == out'[i]
    <3>3. <<u.host, u.port, u.sni>> = <<Meant(w).host, Meant(w).port, Meant(w).sni>>
      BY <1>10, <1>11, <3>1, <3>2
    <3> HIDE DEF u
    <3>4. 1 \in DOMAIN <<u>> /\ <<u>>[1] = u
      OBVIOUS
    <3>5. Dialled(Meant(w), <<u>>)
      BY <3>3, <3>4 DEF Dialled
    <3> QED
      BY <3>2, <3>5 DEF u
  <2> QED
    BY <2>2, <2>3, <2>4
<1>13. \A w : Meant(w)' = Meant(w)
  BY <1>1 DEF Meant
<1>14. FleetIsWhatWasNamed'
  <2> SUFFICES ASSUME Collected'
               PROVE  FleetIsWhatWasNamed'
    BY DEF FleetIsWhatWasNamed
  <2>1. ~twice
    BY <1>1 DEF Collected
  <2> QED
    BY <1>6, <1>9, <1>12, <1>13, <2>1 DEF FleetIsWhatWasNamed
<1>15. /\ pc' \in {"usage", "expand", "run"}
       /\ pc' \in {"expand", "run"} => ~twice' /\ out' # << >>
       /\ pc' = "expand" => cmd'.perAddress
  BY <1>1
<1> QED
  BY <1>1, <1>2, <1>6, <1>14, <1>15 DEF Gathered, Steps

\* The expansion: nothing vanishes, and nothing else comes.
LEMMA ExpansionKeeps ==
  ASSUME Inputs, Gathered, ExpandAddresses, Inputs'
  PROVE  /\ Gathered'
         /\ \A i \in DOMAIN out  : \E j \in DOMAIN out' : Stands(out'[j], out[i])
         /\ \A j \in DOMAIN out' : \E i \in DOMAIN out  : Stands(out'[j], out[i])
<1> DEFINE parts == [i \in DOMAIN out |-> Expand(out[i])]
<1>1. /\ pc = "expand" /\ pc' = "run" /\ out' = FlattenSeq(parts)
      /\ UNCHANGED <<cmd, zone, taken, twice, all>>
  BY DEF ExpandAddresses
<1>2. out \in Seq(Target) /\ DOMAIN out = 1..Len(out) /\ Len(out) \in Nat /\ out # << >>
  BY <1>1, PlacesOf DEF Gathered
<1>3. ASSUME NEW i \in DOMAIN out
      PROVE  /\ Expand(out[i]) \in Seq(Target) /\ ToSet(Expand(out[i])) # {}
             /\ \A u \in ToSet(Expand(out[i])) : Stands(u, out[i])
  <2>1. out[i] \in Target
    BY <1>2
  <2> QED
    BY <2>1, Expanded, InputsTyped
<1>4. parts \in Seq(Seq(Target)) /\ DOMAIN parts = DOMAIN out
  BY <1>2, <1>3, SeqDef
<1>5. \A i \in DOMAIN out : parts[i] = Expand(out[i])
  OBVIOUS
<1> HIDE DEF parts
<1>6. /\ out' \in Seq(Target)
      /\ ToSet(out') = UNION {ToSet(Expand(out[i])) : i \in DOMAIN out}
  BY <1>1, <1>4, <1>5, Flattened
<1>7. ASSUME NEW i \in DOMAIN out
      PROVE  \E j \in DOMAIN out' : Stands(out'[j], out[i])
  <2>1. PICK u \in ToSet(out') : Stands(u, out[i])
    BY <1>3, <1>6
  <2> QED
    BY <2>1 DEF ToSet
<1>8. ASSUME NEW j \in DOMAIN out'
      PROVE  \E i \in DOMAIN out : Stands(out'[j], out[i])
  <2>1. out'[j] \in ToSet(out')
    BY DEF ToSet
  <2> QED
    BY <1>3, <1>6, <2>1
<1>9. out' # << >>
  <2>1. 1 \in DOMAIN out
    <3>1. Len(out) # 0
      BY <1>2, EmptySeq
    <3> QED
      BY <1>2, <3>1
  <2>2. DOMAIN out' # {}
    BY <1>7, <2>1
  <2> QED
    BY <2>2
<1>10. cmd.perAddress
  BY <1>1 DEF Gathered
<1>11. FleetIsWhatWasNamed'
  BY <1>1, <1>10 DEF FleetIsWhatWasNamed, Collected
<1> QED
  BY <1>1, <1>6, <1>7, <1>8, <1>9, <1>11 DEF Gathered, Steps

LEMMA InputsInit ==
  Init => Inputs
BY TodayInit DEF Init, Inputs

LEMMA InputsStep ==
  ASSUME Inputs, [Next]_vars
  PROVE  Inputs'
<1>1. Today'
  BY TodayStep DEF Inputs
<1>2. CASE NextDay
  BY <1>1, <1>2 DEF NextDay, Inputs
<1>3. CASE ~NextDay
  <2>1. UNCHANGED <<session, run, cmd, zone, world>>
    BY <1>3
    DEF Next, vars, assembly, day, Flags, Collect, Assemble, ReadOperands, ReadListFlag,
        ReadInventory, Merge, ExpandAddresses, Usage, Probe, Annotate, Compare, Render,
        RenderFails, Publish, Publishing, Published, Exit, Kill, Over
  <2> QED
    BY <1>1, <2>1 DEF Inputs
<1> QED
  BY <1>2, <1>3

LEMMA GatheredInit ==
  Init => Gathered
<1> SUFFICES ASSUME Init
             PROVE  Gathered
  OBVIOUS
<1>1. pc = "flags" /\ taken = << >> /\ twice = FALSE /\ all = << >> /\ out = << >>
  BY DEF Init, Fresh
<1>2. << >> \in Seq(Target)
  OBVIOUS
<1>3. FleetIsWhatWasNamed
  BY <1>1 DEF FleetIsWhatWasNamed, Collected
<1>4. all \in Seq(Target) /\ out \in Seq(Target) /\ twice \in BOOLEAN
  BY <1>1, <1>2
<1>6. Len(taken) <= 1
  BY <1>1
<1>5. pc \in Steps /\ pc = "flags"
  BY <1>1 DEF Steps
<1> QED
  BY <1>1, <1>3, <1>4, <1>5, <1>6 DEF Gathered

\* The steps that assemble nothing.
LEMMA OthersLeaveAssembly ==
  ASSUME [Next]_vars, ~Assemble, ~NextDay
  PROVE  /\ UNCHANGED assembly
         /\ \/ pc' = pc
            \/ pc' \in Steps \ {"list", "inventory", "merge", "expand", "run"}
BY DEF Next, vars, Steps, Flags, Collect, Usage, Probe, Annotate, Compare, Render,
       RenderFails, Publish, Publishing, Published, Exit, Kill, Over

LEMMA GatheredStep ==
  ASSUME Inputs, Gathered, [Next]_vars
  PROVE  Gathered'
<1>0. Inputs'
  BY InputsStep
<1>1. CASE Assemble
  BY <1>0, <1>1, OperandsKeep, ListKeeps, InventoryKeeps, MergeKeeps, ExpansionKeeps DEF Assemble
<1>2. CASE NextDay
  <2>1. pc' = "flags" /\ taken' = << >> /\ twice' = FALSE /\ all' = << >> /\ out' = << >>
    BY <1>2 DEF NextDay, Clear
  <2>2. << >> \in Seq(Target)
    OBVIOUS
  <2>3. FleetIsWhatWasNamed'
    BY <2>1 DEF FleetIsWhatWasNamed, Collected
  <2>4. all' \in Seq(Target) /\ out' \in Seq(Target) /\ twice' \in BOOLEAN
    BY <2>1, <2>2
  <2>6. Len(taken') <= 1
    BY <2>1
  <2>5. pc' \in Steps /\ pc' = "flags"
    BY <2>1 DEF Steps
  <2> QED
    BY <2>1, <2>3, <2>4, <2>5, <2>6 DEF Gathered
<1>3. CASE ~Assemble /\ ~NextDay
  <2>1. UNCHANGED <<cmd, zone, taken, twice, all, out>>
    BY <1>3, OthersLeaveAssembly DEF assembly
  <2>2. CASE pc' = pc
    <3>1. Written' = Written /\ Hosted' = Hosted /\ Operands' = Operands
      BY <2>1 DEF Written, Hosted, Operands
    <3>2. \A w : Meant(w)' = Meant(w)
      BY <2>1 DEF Meant
    <3>3. FleetIsWhatWasNamed'
      BY <2>1, <2>2, <3>1, <3>2 DEF Gathered, FleetIsWhatWasNamed, Collected
    <3> QED
      BY <2>1, <2>2, <3>1, <3>3 DEF Gathered
  <2>3. CASE pc' \in Steps \ {"list", "inventory", "merge", "expand", "run"}
    BY <2>1, <2>3 DEF Gathered, Steps, FleetIsWhatWasNamed, Collected
  <2> QED
    BY <1>3, <2>2, <2>3, OthersLeaveAssembly
<1> QED
  BY <1>1, <1>2, <1>3

LEMMA FleetInvariant ==
  Spec => [](Inputs /\ Gathered)
<1>1. Init => Inputs /\ Gathered
  BY InputsInit, GatheredInit
<1>2. Inputs /\ Gathered /\ [Next]_vars => (Inputs /\ Gathered)'
  BY InputsStep, GatheredStep
<1> QED
  BY <1>1, <1>2, PTL DEF Spec

\* The fleet is what was named, whoever named it: every word that parses is
\* dialled as what it means, every host of the wanted groups is dialled, nobody
\* else is, and nobody twice (collect, readList, ParseAll, ReadAnsibleINI).
THEOREM FleetIsNamed ==
  Spec => []FleetIsWhatWasNamed
<1>1. Gathered => FleetIsWhatWasNamed
  BY DEF Gathered
<1> QED
  BY <1>1, FleetInvariant, PTL

\* Standard input has one reader, and a command in which two asked for it
\* dials nobody (collect and its stdin guard).
THEOREM InputHasOneReader ==
  Spec => []OneReader
<1>1. Gathered => OneReader
  BY DEF Gathered, OneReader
<1> QED
  BY <1>1, FleetInvariant, PTL

\* ExpandAddresses drops no endpoint, adds none that nobody named, and asks
\* every address of a name for that name.
THEOREM NothingIsDropped ==
  Spec => NothingVanishes
<1> DEFINE Kept ==
      pc = "expand" =>
        /\ \A i \in DOMAIN out  : \E j \in DOMAIN out' : Stands(out'[j], out[i])
        /\ \A j \in DOMAIN out' : \E i \in DOMAIN out  : Stands(out'[j], out[i])
<1>1. ASSUME Inputs, Gathered, [Next]_vars
      PROVE  [Kept]_assembly
  <2>1. CASE ExpandAddresses
    BY <1>1, <2>1, InputsStep, ExpansionKeeps
  <2>2. CASE Assemble /\ ~ExpandAddresses
    BY <2>2 DEF Assemble, ReadOperands, ReadListFlag, ReadInventory, Merge
  <2>3. CASE NextDay
    BY <2>3 DEF NextDay
  <2>4. CASE ~Assemble /\ ~NextDay
    BY <1>1, <2>4, OthersLeaveAssembly
  <2> QED
    BY <2>1, <2>2, <2>3, <2>4
<1> QED
  BY <1>1, FleetInvariant, PTL DEF Spec, NothingVanishes

----------------------------------------------------------------------------
(* The reports.                                                            *)

\* What the day's probe says of each target, and what is added to that.
Evaluated == [i \in DOMAIN out |-> ReportOf(out[i], Seen(out[i]))]
Names == [i \in DOMAIN out |-> ServerName(out[i])]
Pooled == IF cmd.perAddress THEN addressFindings(Names, Evaluated) ELSE Evaluated
Known == resolverFindings(cmd.dns, netFindings(cmd.network, Pooled))
Annotated == egressFindings(Known, cmd.network, world.routes)
Complete == IF cmd.baseline /\ Loads(saved) THEN addTransitions(saved, Annotated) ELSE Annotated

\* The targets of reports and their classes.
Pairs(rs) == {<<rs[i].target, rs[i].class>> : i \in DOMAIN rs}
Fleet == {<<String(out[i]), Seen(out[i]).class>> : i \in DOMAIN out}

TargetName == Hosts \X Ports \X (Hosts \cup {""})

\* What ExitIsEarned says of exit code 1.
Severe(i) == \/ AtLeast(StatusOf(Seen(out[i]).class), cmd.exitOn)
             \/ \E f \in Seen(out[i]).besides : AtLeast(f[2], cmd.exitOn)
Earned ==
  \/ cmd.exitOn \in Status
     /\ ((\E i \in DOMAIN out : Severe(i)) \/ (Vanished /\ AtLeast("WARN", cmd.exitOn)))
  \/ cmd.exitOn \in Class /\ \E i \in DOMAIN out : Seen(out[i]).class = cmd.exitOn

\* Reports of the endpoints of the run, in some order.
Solid(rs) ==
  /\ DOMAIN rs = DOMAIN out
  /\ Pairs(rs) = Fleet
  /\ \A i \in DOMAIN rs : /\ rs[i].target \in TargetName /\ rs[i].class \in Class
                          /\ \A f \in rs[i].findings : f.status \in Status

Reported ==
  /\ pc \in {"annotate", "compare", "render", "publish", "publishing", "exit"} => out # << >>
  /\ pc \in {"flags", "operands", "list", "inventory", "merge", "expand", "usage", "run"} =>
       reports = << >> /\ exit = "none" /\ complaint = FALSE
  /\ reports # << >> => Solid(reports)
  /\ complaint \in BOOLEAN
  /\ exit \in {"none", "0", "1", "2", "killed"}
  /\ pc = "annotate" => reports = Evaluated
  /\ pc = "compare" => reports = Annotated
  /\ pc = "render" => reports = Complete /\ complaint = (cmd.baseline /\ ~Loads(saved))
  /\ pc \in {"publish", "publishing", "exit"} => (shouldExit(reports, cmd.exitOn) <=> Earned)
  /\ pc = "over" /\ exit \in {"0", "1"} => (exit = "1" <=> Earned)

\* What the next comparison starts from.
Remembered ==
  /\ saved.form \in {"object", "findings", "text", "cut"}
  /\ saved.reports \in Seq([target : TargetName, class : Class])
  /\ \A i, j \in DOMAIN saved.reports :
       saved.reports[i].target = saved.reports[j].target => saved.reports[i] = saved.reports[j]
  /\ saved.reports # << >> =>
       /\ saved.form = "object" /\ saved.tool = "pqprobe"
       /\ Pairs(saved.reports) =
            IF pc \in {"publish", "publishing", "exit", "over"} THEN Pairs(reports) ELSE last

\* A report has these fields, and ss says of the endpoints what rs says.
Fields == {"target", "class", "unroutable", "findings"}

SameEndpoints(ss, rs) ==
  /\ DOMAIN ss = DOMAIN rs
  /\ \A i \in DOMAIN rs :
       /\ DOMAIN ss[i] = Fields
       /\ ss[i].target = rs[i].target /\ ss[i].class = rs[i].class
       /\ ss[i].unroutable = rs[i].unroutable

LEMMA FiledAdds ==
  ASSUME NEW rs, NEW added, \A i \in DOMAIN rs : DOMAIN rs[i] = Fields
  PROVE  /\ SameEndpoints(Filed(rs, added), rs)
         /\ \A i \in DOMAIN rs : Filed(rs, added)[i].findings = rs[i].findings \cup added[i]
BY DEF Filed, SameEndpoints, Fields

LEMMA EvaluatedIs ==
  /\ DOMAIN Evaluated = DOMAIN out
  /\ \A i \in DOMAIN out :
       /\ DOMAIN Evaluated[i] = Fields
       /\ Evaluated[i].target = String(out[i]) /\ Evaluated[i].class = Seen(out[i]).class
       /\ Evaluated[i].unroutable = Seen(out[i]).unroutable
       /\ Evaluated[i].findings =
            {Finding("verdict", String(out[i]), StatusOf(Seen(out[i]).class),
                     IF Seen(out[i]).unroutable THEN <<"guess">> ELSE << >>, 0)}
            \cup {Finding(f[1], String(out[i]), f[2], << >>, 0) : f \in Seen(out[i]).besides}
BY DEF Evaluated, ReportOf, Fields

\* The endpoints that ask for one name, and what addressFindings says of them
\* on the report of endpoint i.
Pool(name) == {i \in DOMAIN Names : Names[i] = name}
PlacesIn(name) == At([i \in DOMAIN Names |-> i], Pool(name))
Members(name) == At(Evaluated, Pool(name))
Pools == {name \in ToSet(Names) : Len(PlacesIn(name)) > 1}
PoolSays(i) ==
  IF cmd.perAddress
  THEN {AddressConsistency(name, Members(name)) :
          name \in {p \in Pools : PlacesIn(p)[worst(Members(p))] = i}}
  ELSE {}

\* What netFindings and resolverFindings say there.
NetSays(i) ==
  IF cmd.network = "" THEN {} ELSE {Finding("net", String(out[i]), "OK", <<cmd.network>>, 0)}
ResolverSays(i) ==
  IF cmd.dns = "" \/ i # 1 THEN {} ELSE {Finding("resolver", String(out[1]), "OK", <<cmd.dns>>, 0)}

\* The endpoints no packet was sent to in a family, the families this host is
\* blamed for, and what egressFindings says of them and does to a verdict.
Stranded(f) == {i \in DOMAIN out : /\ Evaluated[i].unroutable
                                   /\ familyOf(Evaluated[i], cmd.network) = f}
Missing == {f \in Families \ world.routes : Stranded(f) # {}}
EgressSays(i) ==
  {Finding("egress", String(out[i]), "ERROR", <<f>>, Cardinality(Stranded(f))) :
     f \in {m \in Missing : i = MinOf(Stranded(m))}}
Referred(i) == \E f \in Missing : i \in Stranded(f)
Hinted(f, i) ==
  IF f.check = "verdict" /\ Referred(i) THEN [f EXCEPT !.about = <<"egress">>] ELSE f

Own(i) == Evaluated[i].findings \cup PoolSays(i) \cup NetSays(i) \cup ResolverSays(i)

LEMMA PooledIs ==
  /\ SameEndpoints(Pooled, Evaluated)
  /\ \A i \in DOMAIN out : Pooled[i].findings = Evaluated[i].findings \cup PoolSays(i)
<1> DEFINE added == [i \in DOMAIN Evaluated |-> PoolSays(i)]
<1>1. DOMAIN Evaluated = DOMAIN out /\ \A i \in DOMAIN out : DOMAIN Evaluated[i] = Fields
  BY EvaluatedIs
<1>2. CASE cmd.perAddress
  <2>1. Pooled = Filed(Evaluated, added)
    BY <1>2 DEF Pooled, addressFindings, PoolSays, Pools, PlacesIn, Members, Pool
  <2> QED
    BY <1>1, <2>1, FiledAdds
<1>3. CASE ~cmd.perAddress
  BY <1>1, <1>3 DEF Pooled, PoolSays, SameEndpoints
<1> QED
  BY <1>2, <1>3

LEMMA KnownIs ==
  /\ SameEndpoints(Known, Evaluated)
  /\ \A i \in DOMAIN out : Known[i].findings = Own(i)
<1> DEFINE net == [i \in DOMAIN Pooled |-> IF cmd.network = "" THEN {}
                     ELSE {Finding("net", Pooled[i].target, "OK", <<cmd.network>>, 0)}]
           rs == netFindings(cmd.network, Pooled)
           dns == [i \in DOMAIN rs |-> IF cmd.dns = "" \/ i # 1 THEN {}
                     ELSE {Finding("resolver", rs[1].target, "OK", <<cmd.dns>>, 0)}]
<1>1. /\ DOMAIN Pooled = DOMAIN out /\ DOMAIN Evaluated = DOMAIN out
      /\ \A i \in DOMAIN out :
           /\ DOMAIN Pooled[i] = Fields /\ Pooled[i].target = String(out[i])
           /\ Pooled[i].class = Evaluated[i].class /\ Pooled[i].unroutable = Evaluated[i].unroutable
           /\ Pooled[i].findings = Evaluated[i].findings \cup PoolSays(i)
  BY PooledIs, EvaluatedIs DEF SameEndpoints
<1>2. rs = Filed(Pooled, net)
  BY DEF netFindings
<1>3. \A i \in DOMAIN out : net[i] = NetSays(i)
  BY <1>1 DEF NetSays
<1> HIDE DEF net
<1>4. SameEndpoints(rs, Pooled) /\ \A i \in DOMAIN out : rs[i].findings = Pooled[i].findings \cup net[i]
  BY <1>1, <1>2, FiledAdds
<1>5. Known = Filed(rs, dns)
  BY DEF Known, resolverFindings
<1> HIDE DEF rs
<1>6. DOMAIN rs = DOMAIN out /\ \A i \in DOMAIN out : DOMAIN rs[i] = Fields /\ rs[i].target = String(out[i])
  BY <1>1, <1>4 DEF SameEndpoints
<1>7. \A i \in DOMAIN out : dns[i] = ResolverSays(i)
  BY <1>6 DEF ResolverSays
<1> HIDE DEF dns
<1>8. SameEndpoints(Known, rs) /\ \A i \in DOMAIN out : Known[i].findings = rs[i].findings \cup dns[i]
  BY <1>5, <1>6, FiledAdds
<1>9. SameEndpoints(Known, Evaluated)
  BY <1>1, <1>4, <1>6, <1>8, EvaluatedIs DEF SameEndpoints
<1>10. \A i \in DOMAIN out : Known[i].findings = Own(i)
  BY <1>1, <1>3, <1>4, <1>7, <1>8 DEF Own
<1> QED
  BY <1>9, <1>10

LEMMA AnnotatedIs ==
  /\ SameEndpoints(Annotated, Evaluated)
  /\ \A i \in DOMAIN out :
       Annotated[i].findings = {Hinted(f, i) : f \in Own(i)} \cup EgressSays(i)
<1>1. /\ DOMAIN Known = DOMAIN out
      /\ \A i \in DOMAIN out :
           /\ DOMAIN Known[i] = Fields /\ Known[i].target = String(out[i])
           /\ Known[i].target = Evaluated[i].target
           /\ Known[i].class = Evaluated[i].class /\ Known[i].unroutable = Evaluated[i].unroutable
           /\ Known[i].findings = Own(i)
  BY KnownIs, EvaluatedIs DEF SameEndpoints
<1>2. \A f : affected(Known, cmd.network, f) = Stranded(f)
  BY <1>1 DEF affected, Stranded, familyOf
<1> DEFINE at(f) == affected(Known, cmd.network, f)
           missing == {f \in Families \ world.routes : at(f) # {}}
           refers(i) == {f \in missing : i \in at(f)}
           hint(f, i) == IF f.check = "verdict" /\ refers(i) # {}
                         THEN [f EXCEPT !.about = <<"egress">>] ELSE f
           said(i) == {Finding("egress", Known[i].target, "ERROR", <<f>>, Cardinality(at(f))) :
                         f \in {m \in missing : i = MinOf(at(m))}}
<1>3. Annotated = [i \in DOMAIN Known |->
                     [Known[i] EXCEPT !.findings = {hint(f, i) : f \in @} \cup said(i)]]
  BY DEF Annotated, egressFindings
<1>4. missing = Missing
  BY <1>2 DEF Missing
<1>5. \A f, i : hint(f, i) = Hinted(f, i)
  BY <1>2, <1>4 DEF Hinted, Referred
<1>6. \A i \in DOMAIN out : said(i) = EgressSays(i)
  BY <1>1, <1>2, <1>4 DEF EgressSays
<1> HIDE DEF hint, said
<1>7. /\ DOMAIN Annotated = DOMAIN out
      /\ \A i \in DOMAIN out :
           /\ DOMAIN Annotated[i] = Fields
           /\ Annotated[i].target = Known[i].target /\ Annotated[i].class = Known[i].class
           /\ Annotated[i].unroutable = Known[i].unroutable
           /\ Annotated[i].findings = {hint(f, i) : f \in Known[i].findings} \cup said(i)
  BY <1>1, <1>3 DEF Fields
<1>8. SameEndpoints(Annotated, Evaluated)
  BY <1>1, <1>7, EvaluatedIs DEF SameEndpoints
<1>9. \A i \in DOMAIN out :
        Annotated[i].findings = {Hinted(f, i) : f \in Own(i)} \cup EgressSays(i)
  BY <1>1, <1>5, <1>6, <1>7
<1> QED
  BY <1>8, <1>9

\* An order puts one member of a finite set before the others.
LEMMA FirstOf ==
  ASSUME NEW S, IsFiniteSet(S), S # {}, NEW R, Orders(R, S)
  PROVE  \E x \in S : \A y \in S : x = y \/ <<x, y>> \in R
<1> DEFINE N == Cardinality(S)
           at == InOrder(S, R)
<1>1. /\ N \in Nat /\ at \in [1..N -> S]
      /\ \A x \in S : \E n \in 1..N : at[n] = x
      /\ \A m, n \in 1..N : m < n => <<at[m], at[n]>> \in R
  BY Ordered
<1>2. N # 0
  BY FS_EmptySet
<1> HIDE DEF N, at
<1>3. 1 \in 1..N /\ at[1] \in S
  BY <1>1, <1>2
<1>4. ASSUME NEW y \in S
      PROVE  at[1] = y \/ <<at[1], y>> \in R
  <2>1. PICK n \in 1..N : at[n] = y
    BY <1>1
  <2>2. n = 1 \/ 1 < n
    BY <2>1
  <2> QED
    BY <1>1, <1>3, <2>1, <2>2
<1> QED
  BY <1>3, <1>4

\* The addresses of a target, and what its report is about.
LEMMA SeenIs ==
  ASSUME Inputs, NEW t \in Target
  PROVE  /\ Tried(t) \subseteq Literals /\ Routed(t) \subseteq Tried(t)
         /\ Seen(t).class \in Class
         /\ Seen(t).besides \subseteq (STRING \ RunChecks) \X Status
         /\ Seen(t).unroutable \in BOOLEAN
         /\ Seen(t).unroutable <=> Routed(t) = {} /\ Tried(t) # {}
         /\ Seen(t).unroutable => Seen(t).class = "unreachable"
<1>1. /\ zone \in [Hosts \ Literals -> Seq(Literals)]
      /\ world.class \in [Literals -> Class]
      /\ world.besides \in [Literals -> SUBSET ((STRING \ RunChecks) \X Status)]
  BY InputsTyped
<1>2. Tried(t) \subseteq Literals /\ IsFiniteSet(Tried(t))
  <2>1. CASE t.host \in Literals
    BY <2>1, FS_Singleton DEF Tried
  <2>2. CASE t.host \notin Literals
    <3>1. zone[t.host] \in Seq(Literals)
      BY <1>1, <2>2, AddrType
    <3>2. ToSet(zone[t.host]) \subseteq Literals /\ IsFiniteSet(DOMAIN zone[t.host])
      BY <3>1, PlacesOf
    <3> DEFINE ips == zone[t.host]
    <3>3. ips \in Surjection(DOMAIN ips, ToSet(ips))
      BY <3>1 DEF Surjection, ToSet
    <3>4. IsFiniteSet(ToSet(ips))
      BY <3>2, <3>3, FS_Surjection
    <3>5. Tried(t) \subseteq ToSet(zone[t.host])
      BY <2>2 DEF Tried
    <3> QED
      BY <3>2, <3>4, <3>5, FS_Subset
  <2> QED
    BY <2>1, <2>2
<1>3. Routed(t) \subseteq Tried(t) /\ IsFiniteSet(Routed(t))
  <2>1. Routed(t) \subseteq Tried(t)
    BY DEF Routed
  <2> QED
    BY <1>2, <2>1, FS_Subset
<1>4. CASE Routed(t) = {}
  BY <1>2, <1>3, <1>4 DEF Seen, Class
<1>5. CASE Routed(t) # {}
  <2> DEFINE R == {p \in Routed(t) \X Routed(t) : Less(<<p[1], DefaultPort>>, <<p[2], DefaultPort>>)}
             Nearest(ip) == \A other \in Routed(t) :
                              ip = other \/ Less(<<ip, DefaultPort>>, <<other, DefaultPort>>)
             best == CHOOSE ip \in Routed(t) : Nearest(ip)
  <2>1. \A x, y \in Routed(t) : <<x, y>> \in R <=> Less(<<x, DefaultPort>>, <<y, DefaultPort>>)
    OBVIOUS
  <2>2. \A x \in Routed(t) : <<x, DefaultPort>> \in Hosts \X Ports
    BY <1>2, <1>3, TargetsAssumption, PortAssumption
  <2> HIDE DEF R
  <2>3. Orders(R, Routed(t))
    BY <2>1, <2>2, OrderAssumption DEF Orders
  <2>4. \E ip \in Routed(t) : Nearest(ip)
    BY <1>3, <1>5, <2>1, <2>3, FirstOf
  <2>5. best \in Routed(t)
    BY <2>4
  <2>6. Seen(t) = [class |-> world.class[best], besides |-> world.besides[best], unroutable |-> FALSE]
    BY <1>5 DEF Seen
  <2> HIDE DEF best
  <2> QED
    BY <1>1, <1>2, <1>3, <1>5, <2>5, <2>6
<1> QED
  BY <1>4, <1>5

\* What is said on a report before the comparison, check by check.
VerdictOn(i) ==
  Finding("verdict", String(out[i]), StatusOf(Seen(out[i]).class),
          IF Seen(out[i]).unroutable THEN <<"guess">> ELSE << >>, 0)
BesidesOn(i) == {Finding(f[1], String(out[i]), f[2], << >>, 0) : f \in Seen(out[i]).besides}

LEMMA ClassHasStatus ==
  \A c \in Class : StatusOf(c) \in Status
BY DEF Class, Grades, StatusOf, Status

LEMMA FindingsAre ==
  ASSUME Inputs, out \in Seq(Target), NEW i \in DOMAIN out
  PROVE  /\ Annotated[i].findings =
              {Hinted(VerdictOn(i), i)} \cup BesidesOn(i) \cup PoolSays(i)
              \cup NetSays(i) \cup ResolverSays(i) \cup EgressSays(i)
         /\ LET v == Hinted(VerdictOn(i), i)
            IN  /\ v.check = "verdict" /\ v.status = StatusOf(Seen(out[i]).class)
                /\ v.about = <<"egress">> <=> Referred(i)
         /\ \A f \in BesidesOn(i) : f.check \notin RunChecks /\ f.status \in Status
         /\ \A f \in PoolSays(i) : f.check = "addresses"
         /\ \A f \in NetSays(i) \cup ResolverSays(i) : f.check \in {"net", "resolver"} /\ f.status = "OK"
         /\ \A f \in EgressSays(i) : f.check = "egress" /\ f.status = "ERROR"
<1>1. out[i] \in Target
  OBVIOUS
<1>2. \A f \in BesidesOn(i) : f.check \notin RunChecks /\ f.status \in Status
  BY <1>1, SeenIs DEF BesidesOn, Finding
<1>3. \A f \in PoolSays(i) : f.check = "addresses"
  BY DEF PoolSays, AddressConsistency, Finding
<1>4. \A f \in NetSays(i) \cup ResolverSays(i) : f.check \in {"net", "resolver"} /\ f.status = "OK"
  <2>1. \A f \in NetSays(i) : f.check = "net" /\ f.status = "OK"
    <3> DEFINE f == Finding("net", String(out[i]), "OK", <<cmd.network>>, 0)
    <3>1. f.check = "net" /\ f.status = "OK"
      BY DEF Finding
    <3>2. NetSays(i) \subseteq {f}
      BY DEF NetSays
    <3> QED
      BY <3>1, <3>2
  <2>2. \A f \in ResolverSays(i) : f.check = "resolver" /\ f.status = "OK"
    <3> DEFINE f == Finding("resolver", String(out[1]), "OK", <<cmd.dns>>, 0)
    <3>1. f.check = "resolver" /\ f.status = "OK"
      BY DEF Finding
    <3>2. ResolverSays(i) \subseteq {f}
      BY DEF ResolverSays
    <3> QED
      BY <3>1, <3>2
  <2> QED
    BY <2>1, <2>2
<1>5. \A f \in EgressSays(i) : f.check = "egress" /\ f.status = "ERROR"
  BY DEF EgressSays, Finding
<1>6. LET v == Hinted(VerdictOn(i), i)
      IN  /\ v.check = "verdict" /\ v.status = StatusOf(Seen(out[i]).class)
          /\ v.about = <<"egress">> <=> Referred(i)
  <2> DEFINE a == IF Seen(out[i]).unroutable THEN <<"guess">> ELSE << >>
             u == VerdictOn(i)
  <2>1. u = [check |-> "verdict", target |-> String(out[i]),
             status |-> StatusOf(Seen(out[i]).class), about |-> a, n |-> 0]
    BY DEF VerdictOn, Finding
  <2>2. a # <<"egress">>
    OBVIOUS
  <2> HIDE DEF a, u
  <2>3. /\ u.check = "verdict" /\ u.status = StatusOf(Seen(out[i]).class) /\ u.about # <<"egress">>
        /\ [u EXCEPT !.about = <<"egress">>].check = "verdict"
        /\ [u EXCEPT !.about = <<"egress">>].status = StatusOf(Seen(out[i]).class)
        /\ [u EXCEPT !.about = <<"egress">>].about = <<"egress">>
    BY <2>1, <2>2
  <2> QED
    BY <2>3 DEF Hinted, u
<1>7. Own(i) = {VerdictOn(i)} \cup BesidesOn(i) \cup PoolSays(i) \cup NetSays(i) \cup ResolverSays(i)
  BY EvaluatedIs DEF Own, VerdictOn, BesidesOn
<1>8. \A f \in BesidesOn(i) \cup PoolSays(i) \cup NetSays(i) \cup ResolverSays(i) : Hinted(f, i) = f
  BY <1>2, <1>3, <1>4 DEF Hinted, RunChecks
<1>9. {Hinted(f, i) : f \in Own(i)} =
        {Hinted(VerdictOn(i), i)} \cup BesidesOn(i) \cup PoolSays(i) \cup NetSays(i) \cup ResolverSays(i)
  BY <1>7, <1>8
<1> QED
  BY <1>2, <1>3, <1>4, <1>5, <1>6, <1>9, AnnotatedIs

\* Where addTransitions files a finding, and what that is on each report.
Filing(f) ==
  LET of == {i \in DOMAIN out : String(out[i]) = f.target}
  IN IF of = {} THEN 1 ELSE MaxOf(of)
NewsSays(i) ==
  IF cmd.baseline /\ Loads(saved)
  THEN {f \in News(saved.reports, Annotated) : Filing(f) = i}
  ELSE {}

LEMMA CompleteIs ==
  /\ SameEndpoints(Complete, Evaluated)
  /\ \A i \in DOMAIN out : Complete[i].findings = Annotated[i].findings \cup NewsSays(i)
<1>1. /\ DOMAIN Annotated = DOMAIN out /\ DOMAIN Evaluated = DOMAIN out
      /\ \A i \in DOMAIN out : DOMAIN Annotated[i] = Fields /\ Annotated[i].target = String(out[i])
  BY AnnotatedIs, EvaluatedIs DEF SameEndpoints
<1>2. CASE cmd.baseline /\ Loads(saved)
  <2> DEFINE of(f) == {i \in DOMAIN Annotated : Annotated[i].target = f.target}
             at(f) == IF of(f) = {} THEN 1 ELSE MaxOf(of(f))
             added == [i \in DOMAIN Annotated |->
                         {f \in News(saved.reports, Annotated) : at(f) = i}]
  <2>1. Complete = Filed(Annotated, added)
    BY <1>2 DEF Complete, addTransitions
  <2>2. \A f : at(f) = Filing(f)
    BY <1>1 DEF Filing
  <2> HIDE DEF at
  <2>3. \A i \in DOMAIN out : added[i] = NewsSays(i)
    BY <1>1, <1>2, <2>2 DEF NewsSays
  <2> HIDE DEF added
  <2>4. SameEndpoints(Complete, Annotated)
        /\ \A i \in DOMAIN out : Complete[i].findings = Annotated[i].findings \cup added[i]
    BY <1>1, <2>1, FiledAdds
  <2> QED
    BY <1>1, <2>3, <2>4, AnnotatedIs DEF SameEndpoints
<1>3. CASE ~(cmd.baseline /\ Loads(saved))
  BY <1>3, AnnotatedIs DEF Complete, NewsSays
<1> QED
  BY <1>2, <1>3

LEMMA NewsIsTransitions ==
  \A i : \A f \in NewsSays(i) : f.check = "transition"
<1> SUFFICES ASSUME NEW i, NEW f \in NewsSays(i)
             PROVE  f.check = "transition"
  OBVIOUS
<1>1. f \in News(saved.reports, Annotated)
  BY DEF NewsSays
<1>2. PICK t : f = Finding("transition", t.target, t.status, <<t.event, t.from, t.to>>, 0)
  BY <1>1 DEF News
<1> QED
  BY <1>2 DEF Finding

\* What a compared run says, by check.
LEMMA SaidIs ==
  ASSUME Inputs, out \in Seq(Target), reports = Complete
  PROVE  /\ DOMAIN reports = DOMAIN out
         /\ \A i \in DOMAIN out :
              /\ reports[i].target = String(out[i]) /\ reports[i].class = Seen(out[i]).class
              /\ {f \in reports[i].findings : f.check = "addresses"} = PoolSays(i)
              /\ {f \in reports[i].findings : f.check = "egress"} = EgressSays(i)
              /\ {f \in reports[i].findings : f.check = "transition"} = NewsSays(i)
              /\ (\E f \in reports[i].findings : f.check = "verdict" /\ f.about = <<"egress">>)
                   <=> Referred(i)
         /\ Said("addresses") = UNION {PoolSays(i) : i \in DOMAIN out}
         /\ Said("egress") = UNION {EgressSays(i) : i \in DOMAIN out}
         /\ Said("transition") = UNION {NewsSays(i) : i \in DOMAIN out}
<1>1. /\ DOMAIN reports = DOMAIN out
      /\ \A i \in DOMAIN out :
           /\ reports[i].target = String(out[i]) /\ reports[i].class = Seen(out[i]).class
           /\ reports[i].findings = Annotated[i].findings \cup NewsSays(i)
  BY CompleteIs, EvaluatedIs DEF SameEndpoints
<1>2. ASSUME NEW i \in DOMAIN out
      PROVE  /\ {f \in reports[i].findings : f.check = "addresses"} = PoolSays(i)
             /\ {f \in reports[i].findings : f.check = "egress"} = EgressSays(i)
             /\ {f \in reports[i].findings : f.check = "transition"} = NewsSays(i)
             /\ (\E f \in reports[i].findings : f.check = "verdict" /\ f.about = <<"egress">>)
                  <=> Referred(i)
  <2> DEFINE v == Hinted(VerdictOn(i), i)
  <2>1. /\ reports[i].findings = {v} \cup BesidesOn(i) \cup PoolSays(i) \cup NetSays(i)
                                 \cup ResolverSays(i) \cup EgressSays(i) \cup NewsSays(i)
        /\ v.check = "verdict" /\ (v.about = <<"egress">> <=> Referred(i))
        /\ \A f \in BesidesOn(i) : f.check \notin RunChecks
        /\ \A f \in PoolSays(i) : f.check = "addresses"
        /\ \A f \in NetSays(i) \cup ResolverSays(i) : f.check \in {"net", "resolver"}
        /\ \A f \in EgressSays(i) : f.check = "egress"
        /\ \A f \in NewsSays(i) : f.check = "transition"
    BY <1>1, FindingsAre, NewsIsTransitions
  <2> HIDE DEF v
  <2> QED
    BY <2>1 DEF RunChecks
<1>3. ASSUME NEW c
      PROVE  Said(c) = UNION {{f \in reports[i].findings : f.check = c} : i \in DOMAIN out}
  BY <1>1 DEF Said
<1>4. /\ Said("addresses") = UNION {PoolSays(i) : i \in DOMAIN out}
      /\ Said("egress") = UNION {EgressSays(i) : i \in DOMAIN out}
      /\ Said("transition") = UNION {NewsSays(i) : i \in DOMAIN out}
  <2> DEFINE has(i, c) == {f \in reports[i].findings : f.check = c}
  <2>1. \A i \in DOMAIN out : /\ has(i, "addresses") = PoolSays(i)
                             /\ has(i, "egress") = EgressSays(i)
                             /\ has(i, "transition") = NewsSays(i)
    BY <1>2
  <2>2. \A c : Said(c) = UNION {has(i, c) : i \in DOMAIN out}
    BY <1>3
  <2> HIDE DEF has
  <2> QED
    BY <2>1, <2>2
<1> QED
  BY <1>1, <1>2, <1>4

\* The name of a target: its address and what else the handshake asks for.
LEMMA StringIs ==
  ASSUME NEW t \in Target
  PROVE  /\ String(t) = <<t.host, t.port, IF t.sni # t.host THEN t.sni ELSE "">>
         /\ String(t) \in TargetName
         /\ String(t)[1] = t.host /\ String(t)[2] = t.port
<1> DEFINE n == IF t.sni # t.host THEN t.sni ELSE ""
<1>1. n \in Hosts \cup {""} /\ t.host \in Hosts /\ t.port \in Ports
  BY AddrType
<1>2. String(t) = Append(<<t.host, t.port>>, n)
  BY DEF String, Addr
<1> HIDE DEF n
<1>3. Append(<<t.host, t.port>>, n) = <<t.host, t.port, n>>
  <2> DEFINE S == {t.host, t.port, n}
             u == Append(<<t.host, t.port>>, n)
             v == <<t.host, t.port, n>>
  <2>1. <<t.host, t.port>> \in Seq(S) /\ n \in S /\ Len(<<t.host, t.port>>) = 2
    OBVIOUS
  <2>2. u \in Seq(S) /\ Len(u) = 3 /\ u[1] = t.host /\ u[2] = t.port /\ u[3] = n
    BY <2>1
  <2>3. v \in Seq(S) /\ Len(v) = 3 /\ v[1] = t.host /\ v[2] = t.port /\ v[3] = n
    OBVIOUS
  <2> HIDE DEF u, v
  <2>4. \A i \in 1..3 : u[i] = v[i]
    BY <2>2, <2>3
  <2>5. u = v
    BY <2>2, <2>3, <2>4, SeqEqual
  <2> QED
    BY <2>5 DEF u, v
<1>4. <<t.host, t.port, n>> \in TargetName
  BY <1>1 DEF TargetName
<1>5. <<t.host, t.port, n>>[1] = t.host /\ <<t.host, t.port, n>>[2] = t.port
  OBVIOUS
<1> QED
  BY <1>2, <1>3, <1>4, <1>5 DEF n

\* The endpoints egressFindings counts are those that a family without a route
\* cut off.
LEMMA StrandedIsCut ==
  ASSUME Inputs, out \in Seq(Target), NEW f \in Families, f \notin world.routes
  PROVE  Stranded(f) = {i \in DOMAIN out : OneFamily(out[i]) = f /\ Tried(out[i]) # {}}
<1> SUFFICES ASSUME NEW i \in DOMAIN out
             PROVE  (i \in Stranded(f)) <=> (OneFamily(out[i]) = f /\ Tried(out[i]) # {})
  BY DEF Stranded
<1> DEFINE t == out[i]
<1>1. t \in Target /\ Evaluated[i].unroutable = Seen(t).unroutable /\ Evaluated[i].target = String(t)
  BY EvaluatedIs
<1> HIDE DEF t
<1>2. familyOf(Evaluated[i], cmd.network) = OneFamily(t)
  <2>1. String(t)[1] = t.host
    BY <1>1, StringIs
  <2> QED
    BY <1>1, <2>1 DEF familyOf, OneFamily
<1>3. ASSUME OneFamily(t) = f
      PROVE  Routed(t) = {}
  <2>1. CASE t.host \in Literals
    BY <1>3, <2>1 DEF OneFamily, Routed, Tried
  <2>2. CASE t.host \notin Literals
    <3>1. cmd.network = f /\ f # ""
      BY <1>3, <2>2 DEF OneFamily, Families
    <3> QED
      BY <3>1 DEF Routed, inFamily
  <2> QED
    BY <2>1, <2>2
<1>4. Seen(t).unroutable <=> Routed(t) = {} /\ Tried(t) # {}
  BY <1>1, SeenIs
<1> QED
  BY <1>1, <1>2, <1>3, <1>4 DEF Stranded, t

LEMMA HostIsBlamed ==
  ASSUME Inputs, out \in Seq(Target), pc = "render" => reports = Complete
  PROVE  EgressIsLocal
<1> SUFFICES ASSUME pc = "render"
             PROVE  EgressIsLocal
  BY DEF EgressIsLocal, Compared
<1> DEFINE cut(f) == {i \in DOMAIN out : /\ OneFamily(out[i]) = f /\ f \notin world.routes
                                         /\ Tried(out[i]) # {}}
           refers(i) == \E f \in reports[i].findings : f.check = "verdict" /\ f.about = <<"egress">>
           first(f) == MinOf(Stranded(f))
           says(f) == Finding("egress", String(out[first(f)]), "ERROR", <<f>>, Cardinality(Stranded(f)))
<1>1. /\ \A f \in Missing : cut(f) = Stranded(f)
      /\ Missing = {f \in Families : cut(f) # {}}
  <2>1. ASSUME NEW f \in Families, f \notin world.routes
        PROVE  cut(f) = Stranded(f)
    BY <2>1, StrandedIsCut
  <2>2. \A f : f \in world.routes => cut(f) = {}
    OBVIOUS
  <2> HIDE DEF cut
  <2> QED
    BY <2>1, <2>2 DEF Missing
<1>2. ASSUME NEW f \in Missing
      PROVE  first(f) \in DOMAIN out /\ first(f) \in Stranded(f)
  <2>1. Stranded(f) \subseteq DOMAIN out /\ Stranded(f) # {} /\ DOMAIN out = 1..Len(out) /\ Len(out) \in Nat
    BY DEF Stranded, Missing
  <2>2. Stranded(f) \in SUBSET Nat
    BY <2>1
  <2> QED
    BY <2>1, <2>2, LeastNumber
<1>3. Said("egress") = {says(f) : f \in Missing}
  <2>1. Said("egress") = UNION {EgressSays(i) : i \in DOMAIN out}
    BY SaidIs
  <2>2. ASSUME NEW i
        PROVE  EgressSays(i) = {says(f) : f \in {m \in Missing : i = first(m)}}
    BY DEF EgressSays
  <2> HIDE DEF says, first
  <2> QED
    BY <1>2, <2>1, <2>2
<1>4. \A f : says(f).about = <<f>> /\ says(f).n = Cardinality(Stranded(f))
  BY DEF Finding
<1> HIDE DEF says, first
<1>5. Cardinality(Said("egress")) = Cardinality(Missing)
  <2> DEFINE h == [f \in Missing |-> says(f)]
  <2>1. \A f, g \in Missing : says(f) = says(g) => f = g
    BY <1>4
  <2>2. h \in Bijection(Missing, Said("egress"))
    <3>1. h \in [Missing -> Said("egress")] /\ \A f \in Missing : h[f] = says(f)
      BY <1>3
    <3>2. \A f, g \in Missing : h[f] = h[g] => f = g
      BY <2>1, <3>1
    <3>3. \A x \in Said("egress") : \E f \in Missing : h[f] = x
      BY <1>3, <3>1
    <3> HIDE DEF h
    <3> QED
      BY <3>1, <3>2, <3>3 DEF Bijection, Injection, IsInjective, Surjection
  <2>3. IsFiniteSet(Missing)
    <3>1. IsFiniteSet({"tcp4"} \cup {"tcp6"}) /\ {"tcp4"} \cup {"tcp6"} = Families
      BY FS_Singleton, FS_AddElement DEF Families
    <3>2. Missing \subseteq Families
      BY DEF Missing
    <3> QED
      BY <3>1, <3>2, FS_Subset
  <2> QED
    BY <2>2, <2>3, FS_Bijection DEF ExistsBijection
<1>6. {<<f.about[1], f.n>> : f \in Said("egress")} =
        {<<f, Cardinality(cut(f))>> : f \in {g \in Families : cut(g) # {}}}
  <2>1. {<<f.about[1], f.n>> : f \in Said("egress")} = {<<says(f).about[1], says(f).n>> : f \in Missing}
    BY <1>3
  <2>2. \A f : says(f).about[1] = f
    BY <1>4
  <2>3. {<<says(f).about[1], says(f).n>> : f \in Missing} =
          {<<f, Cardinality(Stranded(f))>> : f \in Missing}
    BY <1>4, <2>2
  <2>4. {<<f, Cardinality(Stranded(f))>> : f \in Missing} = {<<f, Cardinality(cut(f))>> : f \in Missing}
    BY <1>1
  <2> QED
    BY <1>1, <2>1, <2>3, <2>4
<1>7. ASSUME NEW i \in DOMAIN out
      PROVE  refers(i) <=> \E f \in Families : i \in cut(f)
  <2>1. refers(i) <=> Referred(i)
    BY SaidIs
  <2>2. Referred(i) <=> \E f \in Missing : i \in cut(f)
    BY <1>1 DEF Referred
  <2>3. \A f \in Families : i \in cut(f) => f \in Missing
    BY <1>1
  <2>4. Missing \subseteq Families
    BY DEF Missing
  <2> HIDE DEF cut, refers
  <2> QED
    BY <2>1, <2>2, <2>3, <2>4
<1> QED
  BY <1>1, <1>5, <1>6, <1>7 DEF EgressIsLocal

----------------------------------------------------------------------------
(* Pools.                                                                  *)

\* At takes the places one after the other.
LEMMA AtIs ==
  ASSUME NEW I \in SUBSET Nat, IsFiniteSet(I)
  PROVE  LET at == InOrder(I, {p \in I \X I : p[1] < p[2]})
         IN  /\ Cardinality(I) \in Nat /\ at \in [1..Cardinality(I) -> I]
             /\ \A i \in I : \E n \in 1..Cardinality(I) : at[n] = i
             /\ \A s : At(s, I) = [n \in 1..Cardinality(I) |-> s[at[n]]]
<1> DEFINE R == {p \in I \X I : p[1] < p[2]}
           at == InOrder(I, R)
<1>1. Orders(R, I)
  <2>1. \A i, j \in I : <<i, j>> \in R <=> i < j
    OBVIOUS
  <2> HIDE DEF R
  <2> QED
    BY <2>1 DEF Orders
<1> HIDE DEF R
<1>2. /\ Cardinality(I) \in Nat /\ at \in [1..Cardinality(I) -> I]
      /\ \A i \in I : \E n \in 1..Cardinality(I) : at[n] = i
  BY <1>1, Ordered
<1>3. \A s : At(s, I) = [n \in 1..Cardinality(I) |-> s[at[n]]]
  BY <1>2 DEF At, R
<1> QED
  BY <1>2, <1>3 DEF R

LEMMA GroupIs ==
  ASSUME out \in Seq(Target), NEW name
  PROVE  LET N == Cardinality(Pool(name))
             P == PlacesIn(name)
             G == Members(name)
         IN  /\ N \in Nat /\ Pool(name) = {i \in DOMAIN out : ServerName(out[i]) = name}
             /\ DOMAIN P = 1..N /\ DOMAIN G = 1..N /\ Len(P) = N /\ Len(G) = N
             /\ \A n \in 1..N : P[n] \in Pool(name) /\ G[n] = Evaluated[P[n]]
             /\ \A i \in Pool(name) : \E n \in 1..N : P[n] = i
<1> DEFINE I == Pool(name)
           N == Cardinality(I)
           at == InOrder(I, {p \in I \X I : p[1] < p[2]})
           id == [i \in DOMAIN Names |-> i]
<1>1. DOMAIN Names = DOMAIN out /\ I = {i \in DOMAIN out : ServerName(out[i]) = name}
  BY DEF Names, Pool
<1>2. DOMAIN out = 1..Len(out) /\ Len(out) \in Nat /\ IsFiniteSet(DOMAIN out)
  BY PlacesOf
<1>3. I \in SUBSET Nat /\ IsFiniteSet(I)
  <2>1. I \subseteq DOMAIN out
    BY <1>1
  <2>2. I \subseteq Nat
    BY <1>2, <2>1
  <2> QED
    BY <1>2, <2>1, <2>2, FS_Subset
<1> HIDE DEF I
<1>4. /\ N \in Nat /\ at \in [1..N -> I]
      /\ \A i \in I : \E n \in 1..N : at[n] = i
      /\ At(id, I) = [n \in 1..N |-> id[at[n]]]
      /\ At(Evaluated, I) = [n \in 1..N |-> Evaluated[at[n]]]
  BY <1>3, AtIs
<1>5. PlacesIn(name) = At(id, I) /\ Members(name) = At(Evaluated, I)
  BY DEF PlacesIn, Members, I
<1> HIDE DEF at, N
<1>6. \A n \in 1..N : id[at[n]] = at[n] /\ at[n] \in I
  BY <1>1, <1>4
<1> HIDE DEF id
<1>7. /\ DOMAIN PlacesIn(name) = 1..N /\ DOMAIN Members(name) = 1..N
      /\ \A n \in 1..N : /\ PlacesIn(name)[n] = at[n] /\ PlacesIn(name)[n] \in I
                         /\ Members(name)[n] = Evaluated[PlacesIn(name)[n]]
  BY <1>4, <1>5, <1>6
<1>8. PlacesIn(name) = [n \in 1..N |-> at[n]]
  BY <1>4, <1>5, <1>6
<1>9. Len(PlacesIn(name)) = N /\ Len(Members(name)) = N
  <2>1. Members(name) = [n \in 1..N |-> Evaluated[at[n]]]
    BY <1>4, <1>5
  <2> QED
    BY <1>4, <1>8, <2>1
<1>10. \A i \in I : \E n \in 1..N : PlacesIn(name)[n] = i
  BY <1>4, <1>7
<1> QED
  BY <1>1, <1>4, <1>7, <1>9, <1>10 DEF N, I

LEMMA Ranks ==
  /\ \A s \in Status : Rank(s) \in 0..3
  /\ \A s, t \in Status : Rank(s) = Rank(t) => s = t
<1>1. Rank("OK") = 0 /\ Rank("WARN") = 1 /\ Rank("BAD") = 2 /\ Rank("ERROR") = 3
  BY DEF Rank
<1>2. Status = {"OK", "WARN", "BAD", "ERROR"}
  BY DEF Status
<1> QED
  BY <1>1, <1>2

\* worst is a member that no other is more severe than.
LEMMA WorstOfGroup ==
  ASSUME NEW N \in Nat, N # 0, NEW G, DOMAIN G = 1..N, \A i \in 1..N : G[i].class \in Class
  PROVE  /\ worst(G) \in 1..N
         /\ \A j \in 1..N : AtLeast(StatusOf(G[worst(G)].class), StatusOf(G[j].class))
<1> DEFINE status(i) == StatusOf(G[i].class)
           rank(i) == Rank(status(i))
           K == {rank(i) : i \in 1..N}
           top == MaxOf(K)
           W == {i \in 1..N : rank(i) = top}
           first == MinOf(W)
<1>1. \A i \in 1..N : status(i) \in Status /\ rank(i) \in 0..3
  BY ClassHasStatus, Ranks
<1> HIDE DEF rank
<1>2. K \in SUBSET Nat /\ 1 \in 1..N /\ K # {} /\ \A k \in K : k <= 3
  BY <1>1
<1>3. top \in K /\ \A k \in K : k <= top
  BY <1>2, GreatestNumber
<1> HIDE DEF top
<1>4. W \in SUBSET Nat /\ W # {}
  <2>1. PICK i \in 1..N : rank(i) = top
    BY <1>3
  <2> QED
    BY <2>1
<1>5. first \in W /\ \A k \in W : first <= k
  BY <1>4, LeastNumber
<1> HIDE DEF first
<1>6. first \in 1..N /\ rank(first) = top
  BY <1>5
<1>7. ASSUME NEW j \in 1..N
      PROVE  /\ AtLeast(status(first), status(j))
             /\ j < first => status(j) # status(first)
  <2>1. rank(j) <= top
    BY <1>3
  <2>2. j < first => rank(j) # top
    BY <1>5, <1>6
  <2>3. rank(j) \in 0..3 /\ rank(first) \in 0..3
    BY <1>1, <1>6
  <2> QED
    BY <1>6, <2>1, <2>2, <2>3 DEF AtLeast, rank
<1> DEFINE Is(i) == \A j \in DOMAIN G : /\ AtLeast(status(i), status(j))
                                        /\ j < i => status(j) # status(i)
<1>8. \E i \in DOMAIN G : Is(i)
  BY <1>6, <1>7
<1>9. worst(G) = CHOOSE i \in DOMAIN G : Is(i)
  BY DEF worst
<1>10. worst(G) \in DOMAIN G /\ Is(worst(G))
  <2> HIDE DEF Is
  <2> QED
    BY <1>8, <1>9
<1> QED
  BY <1>10

LEMMA ConsistencyIs ==
  ASSUME NEW name, NEW G
  PROVE  LET F == AddressConsistency(name, G)
             class == G[worst(G)].class
         IN  /\ F.check = "addresses" /\ F.target = <<name>> /\ F.status = StatusOf(class)
             /\ F.n = Len(G)
             /\ (\A i \in DOMAIN G : G[i].class = class) => F.about = <<"all", class>>
             /\ (\E i \in DOMAIN G : G[i].class # class) =>
                  F.about = <<"disagree", G[worst(G)].target, class>>
<1> DEFINE class == G[worst(G)].class
           agree == \A i \in DOMAIN G : G[i].class = class
           about == IF agree THEN <<"all", class>>
                    ELSE <<"disagree", G[worst(G)].target, class>>
<1>1. AddressConsistency(name, G) = Finding("addresses", <<name>>, StatusOf(class), about, Len(G))
  BY DEF AddressConsistency
<1>2. /\ agree => about = <<"all", class>>
      /\ ~agree => about = <<"disagree", G[worst(G)].target, class>>
  OBVIOUS
<1> HIDE DEF about
<1>3. LET F == Finding("addresses", <<name>>, StatusOf(class), about, Len(G))
      IN  F.check = "addresses" /\ F.target = <<name>> /\ F.status = StatusOf(class)
          /\ F.about = about /\ F.n = Len(G)
  BY DEF Finding
<1> QED
  BY <1>1, <1>2, <1>3

\* What is said of a name is said once, of one of its worst endpoints.
LEMMA PoolLine ==
  ASSUME Inputs, out \in Seq(Target), NEW name, cmd.perAddress, Cardinality(Pool(name)) > 1
  PROVE  LET k == PlacesIn(name)[worst(Members(name))]
             F == AddressConsistency(name, Members(name))
         IN  /\ k \in Pool(name) /\ k \in DOMAIN out /\ F \in PoolSays(k)
             /\ \A i : \A f \in PoolSays(i) : f.target = <<name>> => i = k /\ f = F
             /\ F.target = <<name>> /\ F.status = StatusOf(Evaluated[k].class)
             /\ F.n = Cardinality(Pool(name))
             /\ \A i \in Pool(name) : AtLeast(F.status, StatusOf(Evaluated[i].class))
             /\ IF \E i \in Pool(name) : Evaluated[i].class # Evaluated[k].class
                THEN F.about = <<"disagree", Evaluated[k].target, Evaluated[k].class>>
                ELSE F.about = <<"all", Evaluated[k].class>>
<1> DEFINE N == Cardinality(Pool(name))
           P == PlacesIn(name)
           G == Members(name)
           w == worst(G)
           k == P[w]
           F == AddressConsistency(name, G)
<1>1. /\ N \in Nat /\ Pool(name) = {i \in DOMAIN out : ServerName(out[i]) = name}
      /\ DOMAIN P = 1..N /\ DOMAIN G = 1..N /\ Len(P) = N /\ Len(G) = N
      /\ \A n \in 1..N : P[n] \in Pool(name) /\ G[n] = Evaluated[P[n]]
      /\ \A i \in Pool(name) : \E n \in 1..N : P[n] = i
  BY GroupIs
<1>2. N > 1
  OBVIOUS
<1> HIDE DEF P, G, N
<1>3. \A i \in DOMAIN out : Evaluated[i].class \in Class
  BY EvaluatedIs, SeenIs
<1>4. \A n \in 1..N : G[n].class \in Class
  BY <1>1, <1>3
<1>5. w \in 1..N /\ \A j \in 1..N : AtLeast(StatusOf(G[w].class), StatusOf(G[j].class))
  <2>1. N \in Nat /\ N # 0 /\ DOMAIN G = 1..N
    BY <1>1, <1>2
  <2> HIDE DEF w
  <2>2. worst(G) \in 1..N /\ \A j \in 1..N : AtLeast(StatusOf(G[worst(G)].class), StatusOf(G[j].class))
    BY <1>4, <2>1, WorstOfGroup
  <2> QED
    BY <2>2 DEF w
<1> HIDE DEF w
<1>6. k \in Pool(name) /\ k \in DOMAIN out /\ G[w] = Evaluated[k]
  BY <1>1, <1>5
<1>7. /\ F.target = <<name>> /\ F.status = StatusOf(G[w].class) /\ F.n = Len(G)
      /\ (\A i \in DOMAIN G : G[i].class = G[w].class) => F.about = <<"all", G[w].class>>
      /\ (\E i \in DOMAIN G : G[i].class # G[w].class) =>
           F.about = <<"disagree", G[w].target, G[w].class>>
  BY ConsistencyIs DEF w
<1> HIDE DEF F
<1>8. name \in Pools
  <2>1. k \in DOMAIN Names /\ Names[k] = name
    BY <1>6 DEF Pool
  <2>2. name \in ToSet(Names)
    BY <2>1 DEF ToSet
  <2> QED
    BY <1>1, <1>2, <2>2 DEF Pools, P
<1>9. F \in PoolSays(k)
  BY <1>8 DEF PoolSays, F, P, w, G
<1>10. ASSUME NEW i, NEW f \in PoolSays(i), f.target = <<name>>
       PROVE  i = k /\ f = F
  <2>1. PICK p \in Pools : /\ f = AddressConsistency(p, Members(p))
                           /\ PlacesIn(p)[worst(Members(p))] = i
    BY DEF PoolSays
  <2>2. f.target = <<p>>
    BY <2>1, ConsistencyIs
  <2>3. p = name
    BY <1>10, <2>2
  <2> QED
    BY <2>1, <2>3 DEF F, P, w, G
<1>11. ASSUME NEW i \in Pool(name)
       PROVE  AtLeast(F.status, StatusOf(Evaluated[i].class))
  <2>1. PICK n \in 1..N : P[n] = i
    BY <1>1
  <2>2. G[n] = Evaluated[i]
    BY <1>1, <2>1
  <2>3. AtLeast(StatusOf(G[w].class), StatusOf(G[n].class)) /\ F.status = StatusOf(G[w].class)
    BY <1>5, <1>7
  <2> QED
    BY <2>2, <2>3
<1>12. IF \E i \in Pool(name) : Evaluated[i].class # Evaluated[k].class
       THEN F.about = <<"disagree", Evaluated[k].target, Evaluated[k].class>>
       ELSE F.about = <<"all", Evaluated[k].class>>
  <2>1. (\E i \in Pool(name) : Evaluated[i].class # Evaluated[k].class)
          <=> \E n \in DOMAIN G : G[n].class # G[w].class
    <3>1. ASSUME NEW i \in Pool(name)
          PROVE  \E n \in DOMAIN G : G[n] = Evaluated[i]
      <4>1. PICK n \in 1..N : P[n] = i
        BY <1>1
      <4> QED
        BY <1>1, <4>1
    <3>2. \A n \in DOMAIN G : \E i \in Pool(name) : G[n] = Evaluated[i]
      BY <1>1
    <3> HIDE DEF k
    <3> QED
      BY <1>6, <3>1, <3>2
  <2> QED
    BY <1>6, <1>7, <2>1
<1> QED
  BY <1>1, <1>6, <1>7, <1>9, <1>10, <1>11, <1>12 DEF F, P, w, G, N

LEMMA OddOneIsSaid ==
  ASSUME Inputs, out \in Seq(Target), pc = "render" => reports = Complete
  PROVE  OddOneIsShown
<1> SUFFICES ASSUME pc = "render"
             PROVE  OddOneIsShown
  BY DEF OddOneIsShown, Compared
<1> DEFINE pool(name) == {i \in DOMAIN out : ServerName(out[i]) = name}
           lines(name) == {l \in (DOMAIN out) \X Said("addresses") :
                             l[2] \in reports[l[1]].findings /\ l[2].target = <<name>>}
           Shown(name) ==
             IF cmd.perAddress /\ Cardinality(pool(name)) > 1
             THEN /\ Cardinality(lines(name)) = 1
                  /\ \A l \in lines(name) :
                       /\ l[1] \in pool(name)
                       /\ l[2].n = Cardinality(pool(name))
                       /\ l[2].status = StatusOf(reports[l[1]].class)
                       /\ \A i \in pool(name) : AtLeast(l[2].status, StatusOf(reports[i].class))
                       /\ IF \E i \in pool(name) : reports[i].class # reports[l[1]].class
                          THEN l[2].about = <<"disagree", reports[l[1]].target, reports[l[1]].class>>
                          ELSE l[2].about = <<"all", reports[l[1]].class>>
             ELSE lines(name) = {}
<1>1. /\ DOMAIN reports = DOMAIN out
      /\ \A i \in DOMAIN out :
           /\ reports[i].target = Evaluated[i].target /\ reports[i].class = Evaluated[i].class
           /\ {f \in reports[i].findings : f.check = "addresses"} = PoolSays(i)
  BY SaidIs, EvaluatedIs
<1>2. \A f \in Said("addresses") : f.check = "addresses"
  BY DEF Said
<1>3. \A i \in DOMAIN out : \A f \in PoolSays(i) : f \in Said("addresses") /\ f \in reports[i].findings
  BY <1>1 DEF Said
<1>4. \A name : \A l \in lines(name) :
        l[1] \in DOMAIN out /\ l[2] \in PoolSays(l[1]) /\ l[2].target = <<name>>
  BY <1>1, <1>2
<1>5. \A name : pool(name) = Pool(name)
  BY DEF Pool, Names
<1>6. ASSUME NEW name, cmd.perAddress, Cardinality(pool(name)) > 1
      PROVE  Shown(name)
  <2> DEFINE k == PlacesIn(name)[worst(Members(name))]
             F == AddressConsistency(name, Members(name))
  <2>1. /\ k \in Pool(name) /\ k \in DOMAIN out /\ F \in PoolSays(k)
        /\ \A i : \A f \in PoolSays(i) : f.target = <<name>> => i = k /\ f = F
        /\ F.target = <<name>> /\ F.status = StatusOf(Evaluated[k].class)
        /\ F.n = Cardinality(Pool(name))
        /\ \A i \in Pool(name) : AtLeast(F.status, StatusOf(Evaluated[i].class))
        /\ IF \E i \in Pool(name) : Evaluated[i].class # Evaluated[k].class
           THEN F.about = <<"disagree", Evaluated[k].target, Evaluated[k].class>>
           ELSE F.about = <<"all", Evaluated[k].class>>
    BY <1>5, <1>6, PoolLine
  <2> HIDE DEF k, F
  <2>2. lines(name) = {<<k, F>>}
    <3>1. <<k, F>> \in lines(name)
      BY <1>3, <2>1
    <3>2. \A l \in lines(name) : l = <<k, F>>
      <4>1. \A l \in lines(name) : l[1] = k /\ l[2] = F /\ l = <<l[1], l[2]>>
        BY <1>4, <2>1
      <4> HIDE DEF lines
      <4> QED
        BY <4>1
    <3> HIDE DEF lines
    <3> QED
      BY <3>1, <3>2
  <2>3. Pool(name) \subseteq DOMAIN out
    BY <1>5
  <2>4. Cardinality(lines(name)) = 1
    BY <2>2, FS_Singleton
  <2>5. /\ k \in pool(name) /\ F.n = Cardinality(pool(name)) /\ F.status = StatusOf(reports[k].class)
        /\ \A i \in pool(name) : AtLeast(F.status, StatusOf(reports[i].class))
        /\ IF \E i \in pool(name) : reports[i].class # reports[k].class
           THEN F.about = <<"disagree", reports[k].target, reports[k].class>>
           ELSE F.about = <<"all", reports[k].class>>
    BY <1>1, <1>5, <2>1, <2>3
  <2>6. \A l \in lines(name) : l[1] = k /\ l[2] = F
    BY <2>2
  <2> HIDE DEF lines, pool
  <2> QED
    BY <1>6, <2>4, <2>5, <2>6
<1>7. ASSUME NEW name, ~(cmd.perAddress /\ Cardinality(pool(name)) > 1)
      PROVE  Shown(name)
  <2>1. ASSUME NEW i \in DOMAIN out, NEW f \in PoolSays(i)
        PROVE  f.target # <<name>>
    <3>1. PICK p \in Pools : cmd.perAddress /\ f = AddressConsistency(p, Members(p))
      BY DEF PoolSays
    <3>2. f.target = <<p>>
      BY <3>1, ConsistencyIs
    <3>3. Cardinality(Pool(p)) > 1
      BY GroupIs DEF Pools
    <3>4. p # name
      BY <1>5, <1>7, <3>1, <3>3
    <3> QED
      BY <3>2, <3>4
  <2>2. lines(name) = {}
    BY <1>4, <2>1
  <2> HIDE DEF lines, pool
  <2> QED
    BY <1>7, <2>2
<1>8. \A name : Shown(name)
  BY <1>6, <1>7
<1> QED
  BY <1>8 DEF OddOneIsShown

----------------------------------------------------------------------------
(* News.                                                                   *)

\* No two of rs call the same endpoint by different classes.
Functional(rs) ==
  \A i, j \in DOMAIN rs : rs[i].target = rs[j].target => rs[i].class = rs[j].class

LEMMA ByTargetIs ==
  ASSUME NEW n \in Nat, NEW rs, DOMAIN rs = 1..n, Functional(rs)
  PROVE  /\ byTarget(rs) = [t \in DOMAIN byTarget(rs) |-> byTarget(rs)[t]]
         /\ DOMAIN byTarget(rs) = {rs[i].target : i \in DOMAIN rs}
         /\ \A i \in DOMAIN rs : byTarget(rs)[rs[i].target] = rs[i].class
         /\ Pairs(rs) = {<<t, byTarget(rs)[t]>> : t \in DOMAIN byTarget(rs)}
<1> DEFINE places(t) == {i \in DOMAIN rs : rs[i].target = t}
           targets == {rs[i].target : i \in DOMAIN rs}
<1>1. byTarget(rs) = [t \in targets |-> rs[MaxOf(places(t))].class]
  BY DEF byTarget
<1>2. ASSUME NEW i \in DOMAIN rs
      PROVE  byTarget(rs)[rs[i].target] = rs[i].class
  <2> DEFINE t == rs[i].target
  <2>1. /\ places(t) \in SUBSET Nat /\ i \in places(t) /\ places(t) # {}
        /\ \A k \in places(t) : k <= n
    OBVIOUS
  <2>2. MaxOf(places(t)) \in places(t)
    BY <2>1, GreatestNumber
  <2>3. rs[MaxOf(places(t))].class = rs[i].class
    BY <2>2 DEF Functional
  <2> QED
    BY <1>1, <2>3
<1>3. DOMAIN byTarget(rs) = targets
  BY <1>1
<1>4. Pairs(rs) = {<<t, byTarget(rs)[t]>> : t \in targets}
  <2>1. Pairs(rs) = {<<rs[i].target, byTarget(rs)[rs[i].target]>> : i \in DOMAIN rs}
    BY <1>2 DEF Pairs
  <2> QED
    BY <2>1
<1>5. byTarget(rs) = [t \in DOMAIN byTarget(rs) |-> byTarget(rs)[t]]
  BY <1>1
<1> QED
  BY <1>2, <1>3, <1>4, <1>5

\* A transition as a finding.
Line(t) == Finding("transition", t.target, t.status, <<t.event, t.from, t.to>>, 0)

\* Of reports that agree on their targets, News is what two runs differ by.
LEMMA NewsIs ==
  ASSUME NEW n \in Nat, n # 0, NEW rs, DOMAIN rs = 1..n, Functional(rs), NEW old
  PROVE  News(old, rs) = {Line(t) : t \in Transitions(byTarget(old), byTarget(rs))}
<1> DEFINE now(i) == [byTarget(rs) EXCEPT ![rs[i].target] = rs[i].class]
           told(i) == {Line(t) : t \in Transitions(byTarget(old), now(i))}
<1>1. News(old, rs) = UNION {told(i) : i \in DOMAIN rs}
  BY DEF News, Line
<1>2. \A i \in DOMAIN rs : now(i) = byTarget(rs)
  BY ByTargetIs
<1>3. \A i \in DOMAIN rs : told(i) = {Line(t) : t \in Transitions(byTarget(old), byTarget(rs))}
  BY <1>2
<1>4. 1 \in DOMAIN rs
  OBVIOUS
<1> HIDE DEF told
<1> QED
  BY <1>1, <1>3, <1>4

\* What a transition says of two runs, and that there is one for every target
\* on which they differ.
LEMMA TransitionsAre ==
  ASSUME NEW was, NEW now
  PROVE  /\ \A t \in Transitions(was, now) :
              \/ /\ t.target \in DOMAIN now \ DOMAIN was /\ t.status = "OK"
                 /\ t.from = "none" /\ t.to = now[t.target]
              \/ /\ t.target \in DOMAIN now \cap DOMAIN was /\ now[t.target] # was[t.target]
                 /\ t.from = was[t.target] /\ t.to = now[t.target]
                 /\ t.status \in {"OK", StatusOf(now[t.target])}
              \/ /\ t.target \in DOMAIN was \ DOMAIN now /\ t.status = "WARN"
                 /\ t.from = was[t.target] /\ t.to = "none"
         /\ \A x \in DOMAIN now \ DOMAIN was : \E t \in Transitions(was, now) : t.target = x
         /\ \A x \in DOMAIN now \cap DOMAIN was :
              now[x] # was[x] => \E t \in Transitions(was, now) : t.target = x
         /\ \A x \in DOMAIN was \ DOMAIN now :
              \E t \in Transitions(was, now) : t.target = x /\ t.status = "WARN"
<1> DEFINE new(x) == [target |-> x, event |-> "new", from |-> "none", to |-> now[x], status |-> "OK"]
           s(x) == IF AtLeast(StatusOf(now[x]), StatusOf(was[x])) THEN StatusOf(now[x]) ELSE "OK"
           moved(x) == [target |-> x, event |-> "moved", from |-> was[x], to |-> now[x],
                        status |-> s(x)]
           gone(x) == [target |-> x, event |-> "gone", from |-> was[x], to |-> "none",
                       status |-> "WARN"]
           Moved == {u \in DOMAIN now \cap DOMAIN was : now[u] # was[u]}
<1>1. Transitions(was, now) = {new(x) : x \in DOMAIN now \ DOMAIN was}
        \cup {moved(x) : x \in Moved} \cup {gone(x) : x \in DOMAIN was \ DOMAIN now}
  BY DEF Transitions
<1>2. \A x : s(x) \in {"OK", StatusOf(now[x])}
  OBVIOUS
<1> HIDE DEF s
<1>3. \A x : /\ new(x).target = x /\ new(x).status = "OK" /\ new(x).from = "none" /\ new(x).to = now[x]
             /\ moved(x).target = x /\ moved(x).status = s(x)
             /\ moved(x).from = was[x] /\ moved(x).to = now[x]
             /\ gone(x).target = x /\ gone(x).status = "WARN"
             /\ gone(x).from = was[x] /\ gone(x).to = "none"
  OBVIOUS
<1> HIDE DEF new, moved, gone
<1> QED
  BY <1>1, <1>2, <1>3

LEMMA LineIs ==
  ASSUME NEW t
  PROVE  /\ Line(t).target = t.target /\ Line(t).status = t.status
         /\ Line(t).about[2] = t.from /\ Line(t).about[3] = t.to
BY DEF Line, Finding

\* The class of a report is that of the addresses behind its name.
LEMMA SameHostSeen ==
  ASSUME NEW t, NEW u, t.host = u.host
  PROVE  Seen(t) = Seen(u)
BY DEF Seen, Routed, Tried

LEMMA FleetIsFunctional ==
  ASSUME out \in Seq(Target), NEW rs, SameEndpoints(rs, Evaluated)
  PROVE  /\ DOMAIN rs = 1..Len(out) /\ Len(out) \in Nat
         /\ Functional(rs) /\ Pairs(rs) = Fleet
<1>1. /\ DOMAIN rs = DOMAIN out
      /\ \A i \in DOMAIN out : rs[i].target = String(out[i]) /\ rs[i].class = Seen(out[i]).class
  BY EvaluatedIs DEF SameEndpoints
<1>2. DOMAIN out = 1..Len(out) /\ Len(out) \in Nat
  BY PlacesOf
<1>3. ASSUME NEW i \in DOMAIN out, NEW j \in DOMAIN out, String(out[i]) = String(out[j])
      PROVE  Seen(out[i]) = Seen(out[j])
  <2> DEFINE t == out[i]
             u == out[j]
  <2>1. t \in Target /\ u \in Target /\ String(t) = String(u)
    BY <1>3
  <2> HIDE DEF t, u
  <2>2. String(t)[1] = t.host /\ String(u)[1] = u.host
    BY <2>1, StringIs
  <2>3. t.host = u.host
    BY <2>1, <2>2
  <2> QED
    BY <2>3, SameHostSeen DEF t, u
<1>4. Functional(rs)
  BY <1>1, <1>3 DEF Functional
<1>5. Pairs(rs) = Fleet
  BY <1>1 DEF Pairs, Fleet
<1> QED
  BY <1>1, <1>2, <1>4, <1>5

\* Where addTransitions files a finding is a report, its target's if it has
\* one there and else the first.
LEMMA FilingIs ==
  ASSUME out \in Seq(Target), out # << >>, NEW f
  PROVE  /\ Filing(f) \in DOMAIN out
         /\ String(out[Filing(f)]) = f.target
            \/ (Filing(f) = 1 /\ \A i \in DOMAIN out : String(out[i]) # f.target)
<1> DEFINE of == {i \in DOMAIN out : String(out[i]) = f.target}
<1>1. DOMAIN out = 1..Len(out) /\ Len(out) \in Nat /\ Len(out) # 0
  BY PlacesOf, EmptySeq
<1>2. Filing(f) = IF of = {} THEN 1 ELSE MaxOf(of)
  BY DEF Filing
<1>3. CASE of = {}
  <2>1. Filing(f) = 1 /\ 1 \in DOMAIN out /\ \A i \in DOMAIN out : String(out[i]) # f.target
    BY <1>1, <1>2, <1>3
  <2> QED
    BY <2>1
<1>4. CASE of # {}
  <2>1. of \in SUBSET Nat /\ \A k \in of : k <= Len(out)
    BY <1>1
  <2> HIDE DEF of
  <2>2. MaxOf(of) \in of
    BY <1>1, <1>4, <2>1, GreatestNumber
  <2> QED
    BY <1>2, <1>4, <2>2 DEF of
<1> QED
  BY <1>3, <1>4

\* What the document of the run before says, whose reports are pqprobe's.
LEMMA OldRunIs ==
  ASSUME Remembered
  PROVE  /\ saved.reports # << >> /\ saved.schema <= Schema <=> Loads(saved)
         /\ Functional(saved.reports)
         /\ DOMAIN saved.reports = 1..Len(saved.reports) /\ Len(saved.reports) \in Nat
         /\ \A i \in DOMAIN saved.reports : saved.reports[i].class \in Class
<1>1. ASSUME NEW i \in DOMAIN saved.reports
      PROVE  saved.reports[i].class \in Class
  <2> DEFINE R == [target : TargetName, class : Class]
             r == saved.reports[i]
  <2>1. saved.reports \in Seq(R)
    BY DEF Remembered
  <2> HIDE DEF R
  <2>2. r \in R
    BY <2>1
  <2> HIDE DEF r
  <2>3. r.class \in Class
    BY <2>2 DEF R
  <2> QED
    BY <2>3 DEF r
<1>2. Functional(saved.reports)
  BY DEF Remembered, Functional
<1>3. saved.reports # << >> /\ saved.schema <= Schema <=> Loads(saved)
  BY DEF Remembered, Loads
<1> QED
  BY <1>1, <1>2, <1>3, PlacesOf DEF Remembered

LEMMA NewsIsTold ==
  ASSUME Inputs, out \in Seq(Target), Remembered,
         pc = "render" => /\ out # << >> /\ reports = Complete
                          /\ complaint = (cmd.baseline /\ ~Loads(saved))
  PROVE  NewsIsComplete
<1> SUFFICES ASSUME pc = "render"
             PROVE  NewsIsComplete
  BY DEF NewsIsComplete, Compared
<1> DEFINE now == {<<reports[i].target, reports[i].class>> : i \in DOMAIN reports}
           targets(run_) == {p[1] : p \in run_}
           news(i) == {f \in reports[i].findings : f.check = "transition"}
           ours == saved.reports # << >> /\ saved.schema <= Schema
<1>1. /\ DOMAIN reports = DOMAIN out
      /\ \A i \in DOMAIN out : reports[i].target = String(out[i]) /\ news(i) = NewsSays(i)
      /\ Said("transition") = UNION {NewsSays(i) : i \in DOMAIN out}
  BY SaidIs
<1>2. ours <=> Loads(saved)
  BY OldRunIs
<1>3. CASE ~cmd.baseline \/ complaint
  <2>1. ~(cmd.baseline /\ Loads(saved))
    BY <1>3
  <2>2. Said("transition") = {} /\ (cmd.baseline => ~ours)
    BY <1>1, <1>2, <2>1 DEF NewsSays
  <2> QED
    BY <1>3, <2>2 DEF NewsIsComplete
<1>4. CASE ~(~cmd.baseline \/ complaint)
  <2>1. cmd.baseline /\ Loads(saved) /\ saved.reports # << >>
    BY <1>4 DEF Loads
  <2> DEFINE was == byTarget(saved.reports)
             is == byTarget(Annotated)
             changes == Transitions(was, is)
  <2>2. /\ DOMAIN Annotated = 1..Len(out) /\ Len(out) \in Nat /\ Functional(Annotated)
        /\ Pairs(Annotated) = Fleet /\ Pairs(reports) = Fleet
    BY FleetIsFunctional, AnnotatedIs, CompleteIs
  <2>3. Len(out) # 0
    BY EmptySeq
  <2>4. News(saved.reports, Annotated) = {Line(t) : t \in changes}
    BY <2>2, <2>3, NewsIs
  <2>5. /\ DOMAIN is = {Annotated[i].target : i \in DOMAIN Annotated}
        /\ now = {<<x, is[x]>> : x \in DOMAIN is}
    <3>1. /\ DOMAIN is = {Annotated[i].target : i \in DOMAIN Annotated}
          /\ Pairs(Annotated) = {<<x, is[x]>> : x \in DOMAIN is}
      BY <2>2, ByTargetIs
    <3>2. now = Pairs(reports)
      BY DEF Pairs
    <3> HIDE DEF is, now
    <3> QED
      BY <2>2, <3>1, <3>2
  <2>6. /\ last = {<<x, was[x]>> : x \in DOMAIN was}
        /\ \A x \in DOMAIN was : was[x] \in Class
    <3>1. /\ Pairs(saved.reports) = {<<x, was[x]>> : x \in DOMAIN was}
          /\ DOMAIN was = {saved.reports[i].target : i \in DOMAIN saved.reports}
          /\ \A i \in DOMAIN saved.reports : was[saved.reports[i].target] = saved.reports[i].class
      <4> DEFINE old == saved.reports
                 n == Len(old)
      <4>1. n \in Nat /\ DOMAIN old = 1..n /\ Functional(old)
        BY OldRunIs
      <4> HIDE DEF old, n
      <4>2. Pairs(old) = {<<x, byTarget(old)[x]>> : x \in DOMAIN byTarget(old)}
        BY <4>1, ByTargetIs
      <4>4. DOMAIN byTarget(old) = {old[i].target : i \in DOMAIN old}
        BY DEF byTarget
      <4>3. \A i \in DOMAIN old : byTarget(old)[old[i].target] = old[i].class
        BY <4>1, ByTargetIs
      <4> QED
        BY <4>2, <4>3, <4>4 DEF old
    <3>2. Pairs(saved.reports) = last
      BY <2>1 DEF Remembered
    <3> HIDE DEF was
    <3> QED
      BY <3>1, <3>2, OldRunIs
  <2>7. \A x \in DOMAIN is : is[x] \in Class
    <3>1. \A i \in DOMAIN Annotated : is[Annotated[i].target] = Annotated[i].class
      BY <2>2, ByTargetIs
    <3>2. \A i \in DOMAIN Annotated : Annotated[i].class \in Class
      BY AnnotatedIs, EvaluatedIs, SeenIs DEF SameEndpoints
    <3> HIDE DEF is
    <3> QED
      BY <2>5, <3>1, <3>2
  <2>8. Said("transition") = {Line(t) : t \in changes}
    <3>1. \A i \in DOMAIN out : NewsSays(i) = {f \in {Line(t) : t \in changes} : Filing(f) = i}
      BY <2>1, <2>4 DEF NewsSays
    <3>2. \A f : Filing(f) \in DOMAIN out
      BY FilingIs
    <3> HIDE DEF changes
    <3> QED
      BY <1>1, <3>1, <3>2
  <2>9. DOMAIN is = {String(out[i]) : i \in DOMAIN out}
    BY <1>1, <2>5, AnnotatedIs, EvaluatedIs DEF SameEndpoints
  <2> HIDE DEF was, is, now
  <2>10. targets(last) = DOMAIN was /\ targets(now) = DOMAIN is
    <3>1. ASSUME NEW f
          PROVE  targets({<<x, f[x]>> : x \in DOMAIN f}) = DOMAIN f
      <4>1. \A x : <<x, f[x]>>[1] = x
        OBVIOUS
      <4> QED
        BY <4>1
    <3> HIDE DEF targets
    <3> QED
      BY <2>5, <2>6, <3>1
  <2>11. "none" \notin Class
    BY DEF Class, Grades
  <2>12. ASSUME NEW f \in Said("transition")
         PROVE  /\ f.target \in {p[1] : p \in (now \ last) \cup (last \ now)}
                /\ f.about[2] = "none" \/ <<f.target, f.about[2]>> \in last
                /\ f.about[3] = "none" \/ <<f.target, f.about[3]>> \in now
                /\ f.about[2] = "none" <=> f.target \notin DOMAIN was
                /\ f.about[3] = "none" <=> f.target \notin DOMAIN is
    <3>1. PICK t \in changes : f = Line(t)
      BY <2>8
    <3>2. f.target = t.target /\ f.about[2] = t.from /\ f.about[3] = t.to
      BY <3>1, LineIs
    <3>3. \/ t.target \in DOMAIN is \ DOMAIN was /\ t.from = "none" /\ t.to = is[t.target]
          \/ /\ t.target \in DOMAIN is \cap DOMAIN was /\ is[t.target] # was[t.target]
             /\ t.from = was[t.target] /\ t.to = is[t.target]
          \/ t.target \in DOMAIN was \ DOMAIN is /\ t.from = was[t.target] /\ t.to = "none"
      BY <3>1, TransitionsAre
    <3>4. \A p : (p \in last <=> \E x \in DOMAIN was : p = <<x, was[x]>>)
                 /\ (p \in now <=> \E x \in DOMAIN is : p = <<x, is[x]>>)
      BY <2>5, <2>6
    <3>5. CASE t.target \in DOMAIN is \ DOMAIN was /\ t.from = "none" /\ t.to = is[t.target]
      <4>1. <<t.target, is[t.target]>> \in now \ last /\ is[t.target] # "none"
        BY <2>7, <2>11, <3>4, <3>5
      <4> QED
        BY <3>2, <3>5, <4>1
    <3>6. CASE /\ t.target \in DOMAIN is \cap DOMAIN was /\ is[t.target] # was[t.target]
               /\ t.from = was[t.target] /\ t.to = is[t.target]
      <4>1. /\ <<t.target, is[t.target]>> \in now \ last /\ is[t.target] # "none"
            /\ <<t.target, was[t.target]>> \in last /\ was[t.target] # "none"
        BY <2>6, <2>7, <2>11, <3>4, <3>6
      <4> QED
        BY <3>2, <3>6, <4>1
    <3>7. CASE t.target \in DOMAIN was \ DOMAIN is /\ t.from = was[t.target] /\ t.to = "none"
      <4>1. <<t.target, was[t.target]>> \in last \ now /\ was[t.target] # "none"
        BY <2>6, <2>11, <3>4, <3>7
      <4> QED
        BY <3>2, <3>7, <4>1
    <3> QED
      BY <3>3, <3>5, <3>6, <3>7
  <2>13. ASSUME NEW p \in (now \ last) \cup (last \ now)
         PROVE  \E f \in Said("transition") : f.target = p[1]
    <3> DEFINE x == p[1]
    <3>1. \/ x \in DOMAIN is \ DOMAIN was
          \/ x \in DOMAIN is \cap DOMAIN was /\ is[x] # was[x]
          \/ x \in DOMAIN was \ DOMAIN is
      BY <2>5, <2>6
    <3> HIDE DEF x
    <3>2. \E t \in changes : t.target = x
      BY <3>1, TransitionsAre
    <3> QED
      BY <2>8, <3>2, LineIs DEF x
  <2>14. \A i \in DOMAIN reports : \A f \in news(i) :
           f.target = reports[i].target \/ (i = 1 /\ f.target \notin DOMAIN is)
    <3>1. \A i \in DOMAIN out : \A f \in NewsSays(i) : Filing(f) = i
      BY DEF NewsSays
    <3> SUFFICES ASSUME NEW i \in DOMAIN out, NEW f \in NewsSays(i)
                 PROVE  f.target = reports[i].target \/ (i = 1 /\ f.target \notin DOMAIN is)
      BY <1>1
    <3>2. \/ String(out[i]) = f.target
          \/ i = 1 /\ \A j \in DOMAIN out : String(out[j]) # f.target
      BY <3>1, FilingIs
    <3> QED
      BY <1>1, <2>9, <3>2
  <2>15. {f.target : f \in Said("transition")} = {p[1] : p \in (now \ last) \cup (last \ now)}
    BY <2>12, <2>13
  <2> QED
    BY <1>4, <2>10, <2>12, <2>14, <2>15 DEF NewsIsComplete, now
<1> QED
  BY <1>3, <1>4

----------------------------------------------------------------------------
(* The exit code.                                                          *)

\* The worst of a report is as severe as something it says, or nothing is.
LEMMA WorstIs ==
  ASSUME NEW r, \A f \in r.findings : f.status \in Status
  PROVE  /\ Worst(r) \in Status
         /\ \A s \in Status : AtLeast(Worst(r), s) <=>
              s = "OK" \/ \E f \in r.findings : AtLeast(f.status, s)
<1> DEFINE S == {"OK"} \cup {f.status : f \in r.findings}
           Tops(s) == \A f \in r.findings : AtLeast(s, f.status)
<1>1. Rank("OK") = 0 /\ Rank("WARN") = 1 /\ Rank("BAD") = 2 /\ Rank("ERROR") = 3
  BY DEF Rank
<1>2. S \subseteq Status /\ "OK" \in S /\ Status = {"OK", "WARN", "BAD", "ERROR"}
  BY DEF Status
<1>3. \A s, t \in Status : AtLeast(s, t) <=> Rank(s) >= Rank(t)
  BY DEF AtLeast
<1>4. \A f \in r.findings : f.status \in S
  OBVIOUS
<1>5. \A s \in S : s = "OK" \/ \E f \in r.findings : f.status = s
  OBVIOUS
<1> HIDE DEF S
<1>6. \E s \in S : \A t \in S : AtLeast(s, t)
  <2>5. /\ \A t \in Status : AtLeast("ERROR", t) /\ AtLeast(t, "OK")
        /\ AtLeast("BAD", "BAD") /\ AtLeast("BAD", "WARN") /\ AtLeast("WARN", "WARN")
    BY <1>1, <1>2, <1>3
  <2>6. \A t \in S : t \in Status /\ t \in {"OK", "WARN", "BAD", "ERROR"}
    BY <1>2
  <2>7. "OK" \in Status /\ "WARN" \in Status /\ "BAD" \in Status
    BY <1>2
  <2>1. CASE "ERROR" \in S
    BY <2>1, <2>5, <2>6
  <2>2. CASE "ERROR" \notin S /\ "BAD" \in S
    BY <2>2, <2>5, <2>6, <2>7
  <2>3. CASE "ERROR" \notin S /\ "BAD" \notin S /\ "WARN" \in S
    BY <2>3, <2>5, <2>6, <2>7
  <2>4. CASE "ERROR" \notin S /\ "BAD" \notin S /\ "WARN" \notin S
    BY <1>2, <2>4, <2>5, <2>6
  <2> QED
    BY <2>1, <2>2, <2>3, <2>4
<1>7. \E s \in S : Tops(s)
  BY <1>4, <1>6
<1>8. Worst(r) = CHOOSE s \in S : Tops(s)
  BY DEF Worst, S
<1>9. Worst(r) \in S /\ Tops(Worst(r))
  <2> HIDE DEF Tops
  <2> QED
    BY <1>7, <1>8
<1>10. ASSUME NEW s \in Status
       PROVE  AtLeast(Worst(r), s) <=> s = "OK" \/ \E f \in r.findings : AtLeast(f.status, s)
  <2>1. ASSUME s = "OK"
        PROVE  AtLeast(Worst(r), s)
    <3>1. Rank(Worst(r)) \in 0..3 /\ Rank(s) = 0
      BY <1>1, <1>2, <1>9, <2>1, Ranks
    <3> QED
      BY <3>1 DEF AtLeast
  <2>2. ASSUME NEW f \in r.findings, AtLeast(f.status, s)
        PROVE  AtLeast(Worst(r), s)
    <3>1. Rank(Worst(r)) >= Rank(f.status) /\ Rank(f.status) >= Rank(s)
      BY <1>9, <2>2 DEF AtLeast
    <3>2. Rank(Worst(r)) \in 0..3 /\ Rank(f.status) \in 0..3 /\ Rank(s) \in 0..3
      BY <1>2, <1>9, Ranks
    <3> QED
      BY <3>1, <3>2 DEF AtLeast
  <2>3. ASSUME AtLeast(Worst(r), s), s # "OK"
        PROVE  \E f \in r.findings : AtLeast(f.status, s)
    <3>1. CASE Worst(r) = "OK"
      <4>1. 0 >= Rank(s) /\ Rank(s) \in 0..3
        BY <1>1, <2>3, <3>1, Ranks DEF AtLeast
      <4>2. Rank(s) = Rank("OK")
        BY <1>1, <4>1
      <4> QED
        BY <1>2, <2>3, <4>2, Ranks
    <3>2. CASE Worst(r) # "OK"
      BY <1>5, <1>9, <2>3, <3>2
    <3> QED
      BY <3>1, <3>2
  <2> QED
    BY <2>1, <2>2, <2>3
<1> QED
  BY <1>2, <1>9, <1>10

\* Anything is at least OK.
LEMMA AllAtLeastOK ==
  \A s \in Status : AtLeast(s, "OK") /\ AtLeast("ERROR", s)
<1>1. Rank("OK") = 0 /\ Rank("ERROR") = 3
  BY DEF Rank
<1> QED
  BY <1>1, Ranks DEF AtLeast

\* Where a severity comes from.
LEMMA SeverityIs ==
  ASSUME Inputs, out \in Seq(Target), out # << >>, Remembered, pc = "render",
         reports = Complete, complaint = (cmd.baseline /\ ~Loads(saved))
  PROVE  /\ DOMAIN reports = DOMAIN out
         /\ \A i \in DOMAIN out :
              /\ reports[i].class = Seen(out[i]).class
              /\ \E f \in reports[i].findings : f.status = StatusOf(Seen(out[i]).class)
              /\ \A b \in Seen(out[i]).besides : \E f \in reports[i].findings : f.status = b[2]
              /\ \A f \in reports[i].findings :
                   \/ \E j \in DOMAIN out : f.status = StatusOf(Seen(out[j]).class)
                   \/ \E b \in Seen(out[i]).besides : f.status = b[2]
                   \/ f.status = "OK"
                   \/ f.status = "WARN" /\ Vanished
         /\ Vanished => \E i \in DOMAIN out : \E f \in reports[i].findings : f.status = "WARN"
<1> DEFINE v(i) == Hinted(VerdictOn(i), i)
           Sources(i, f) == \/ \E j \in DOMAIN out : f.status = StatusOf(Seen(out[j]).class)
                            \/ \E b \in Seen(out[i]).besides : f.status = b[2]
                            \/ f.status = "OK"
                            \/ f.status = "WARN" /\ Vanished
<1>1. /\ DOMAIN reports = DOMAIN out
      /\ \A i \in DOMAIN out :
           /\ reports[i].target = String(out[i]) /\ reports[i].class = Seen(out[i]).class
           /\ reports[i].findings = {v(i)} \cup BesidesOn(i) \cup PoolSays(i) \cup NetSays(i)
                                    \cup ResolverSays(i) \cup EgressSays(i) \cup NewsSays(i)
           /\ v(i).status = StatusOf(Seen(out[i]).class)
           /\ \A f \in NetSays(i) \cup ResolverSays(i) : f.status = "OK"
           /\ \A f \in EgressSays(i) : f.status = "ERROR"
  BY CompleteIs, EvaluatedIs, FindingsAre DEF SameEndpoints
<1> HIDE DEF v
<1>2. \A i \in DOMAIN out :
        /\ \A b \in Seen(out[i]).besides : \E f \in BesidesOn(i) : f.status = b[2]
        /\ \A f \in BesidesOn(i) : \E b \in Seen(out[i]).besides : f.status = b[2]
  <2> DEFINE g(b, i) == Finding(b[1], String(out[i]), b[2], << >>, 0)
  <2>1. \A b, i : g(b, i).status = b[2]
    BY DEF Finding
  <2>2. \A i : BesidesOn(i) = {g(b, i) : b \in Seen(out[i]).besides}
    BY DEF BesidesOn
  <2> HIDE DEF g
  <2> QED
    BY <2>1, <2>2
<1>3. ASSUME NEW i \in DOMAIN out, NEW f \in PoolSays(i)
      PROVE  \E j \in DOMAIN out : f.status = StatusOf(Seen(out[j]).class)
  <2>1. PICK p \in Pools : cmd.perAddress /\ f = AddressConsistency(p, Members(p))
    BY DEF PoolSays
  <2>2. Cardinality(Pool(p)) > 1
    BY GroupIs DEF Pools
  <2> DEFINE k == PlacesIn(p)[worst(Members(p))]
  <2>3. k \in DOMAIN out /\ f.status = StatusOf(Evaluated[k].class)
    BY <2>1, <2>2, PoolLine
  <2> QED
    BY <2>3, EvaluatedIs
<1>4. ASSUME NEW i \in DOMAIN out, NEW f \in EgressSays(i)
      PROVE  f.status = StatusOf(Seen(out[i]).class)
  <2>1. PICK m \in Missing : i = MinOf(Stranded(m))
    BY DEF EgressSays
  <2>2. Stranded(m) # {} /\ Stranded(m) \subseteq DOMAIN out /\ Stranded(m) \in SUBSET Nat
    BY PlacesOf DEF Missing, Stranded
  <2>3. i \in Stranded(m)
    BY <2>1, <2>2, LeastNumber
  <2>4. Seen(out[i]).unroutable
    BY <2>3, EvaluatedIs DEF Stranded
  <2>5. Seen(out[i]).class = "unreachable"
    BY <2>4, SeenIs
  <2>6. StatusOf("unreachable") = "ERROR"
    BY DEF StatusOf
  <2> QED
    BY <1>1, <2>5, <2>6
<1> DEFINE was == byTarget(saved.reports)
           is == byTarget(Annotated)
           changes == Transitions(was, is)
<1>5. ASSUME cmd.baseline, Loads(saved)
      PROVE  /\ News(saved.reports, Annotated) = {Line(t) : t \in changes}
             /\ DOMAIN is = {String(out[i]) : i \in DOMAIN out}
             /\ \A x \in DOMAIN is : \E j \in DOMAIN out : is[x] = Seen(out[j]).class
             /\ \A x : x \in DOMAIN was <=> \E p \in last : x = p[1]
  <2>1. /\ DOMAIN Annotated = 1..Len(out) /\ Len(out) \in Nat /\ Functional(Annotated)
        /\ Len(out) # 0
    BY FleetIsFunctional, AnnotatedIs, EmptySeq
  <2>2. News(saved.reports, Annotated) = {Line(t) : t \in changes}
    BY <2>1, NewsIs
  <2>3. \A i \in DOMAIN out : Annotated[i].target = String(out[i]) /\ Annotated[i].class = Seen(out[i]).class
    BY AnnotatedIs, EvaluatedIs DEF SameEndpoints
  <2>4. DOMAIN Annotated = DOMAIN out
    BY <2>1, PlacesOf
  <2>5. DOMAIN is = {String(out[i]) : i \in DOMAIN out}
    BY <2>3, <2>4 DEF byTarget
  <2>6. \A i \in DOMAIN out : is[String(out[i])] = Seen(out[i]).class
    <3>1. \A i \in DOMAIN Annotated : is[Annotated[i].target] = Annotated[i].class
      BY <2>1, ByTargetIs
    <3> QED
      BY <2>3, <2>4, <3>1
  <2>7. Pairs(saved.reports) = last
    BY <1>5 DEF Remembered, Loads
  <2>8. \A x : x \in DOMAIN was <=> \E p \in last : x = p[1]
    <3>1. DOMAIN was = {saved.reports[i].target : i \in DOMAIN saved.reports}
      BY DEF byTarget
    <3>2. last = {<<saved.reports[i].target, saved.reports[i].class>> : i \in DOMAIN saved.reports}
      BY <2>7 DEF Pairs
    <3> HIDE DEF was
    <3>3. \A a, b : <<a, b>>[1] = a
      OBVIOUS
    <3> DEFINE pr(i) == <<saved.reports[i].target, saved.reports[i].class>>
    <3>4. last = {pr(i) : i \in DOMAIN saved.reports}
      BY <3>2
    <3>5. \A i : pr(i)[1] = saved.reports[i].target
      BY <3>3
    <3> HIDE DEF pr
    <3>6. ASSUME NEW x \in DOMAIN was
          PROVE  \E p \in last : x = p[1]
      <4>1. PICK i \in DOMAIN saved.reports : x = saved.reports[i].target
        BY <3>1, <3>6
      <4> QED
        BY <3>4, <3>5, <4>1
    <3>7. ASSUME NEW p \in last
          PROVE  p[1] \in DOMAIN was
      BY <3>1, <3>4, <3>5
    <3> QED
      BY <3>6, <3>7
  <2> HIDE DEF is
  <2> QED
    BY <2>2, <2>5, <2>6, <2>8
<1>6. Vanished <=> cmd.baseline /\ Loads(saved) /\ \E x \in DOMAIN was : x \notin DOMAIN is
  <2>1. Vanished <=> /\ cmd.baseline /\ Loads(saved)
                     /\ \E p \in last : \A i \in DOMAIN out : String(out[i]) # p[1]
    BY DEF Vanished
  <2> HIDE DEF was, is
  <2>2. ASSUME cmd.baseline, Loads(saved)
        PROVE  \A x : x \in DOMAIN is <=> \E i \in DOMAIN out : String(out[i]) = x
    BY <1>5, <2>2
  <2>3. ASSUME cmd.baseline, Loads(saved), NEW p \in last,
               \A i \in DOMAIN out : String(out[i]) # p[1]
        PROVE  \E x \in DOMAIN was : x \notin DOMAIN is
    <3>1. p[1] \in DOMAIN was
      BY <1>5, <2>3
    <3>2. p[1] \notin DOMAIN is
      BY <2>2, <2>3
    <3> QED
      BY <3>1, <3>2
  <2>4. ASSUME cmd.baseline, Loads(saved), NEW x \in DOMAIN was, x \notin DOMAIN is
        PROVE  \E p \in last : \A i \in DOMAIN out : String(out[i]) # p[1]
    <3>1. PICK p \in last : x = p[1]
      BY <1>5, <2>4
    <3> QED
      BY <2>2, <2>4, <3>1
  <2> QED
    BY <2>1, <2>3, <2>4
<1> HIDE DEF was, is
<1>7. ASSUME NEW i \in DOMAIN out, NEW f \in NewsSays(i)
      PROVE  Sources(i, f)
  <2>1. cmd.baseline /\ Loads(saved) /\ f \in News(saved.reports, Annotated)
    BY DEF NewsSays
  <2>2. PICK t \in changes : f = Line(t)
    BY <1>5, <2>1
  <2>3. f.status = t.status
    BY <2>2, LineIs
  <2>4. \/ t.status = "OK"
        \/ t.target \in DOMAIN is /\ t.status \in {"OK", StatusOf(is[t.target])}
        \/ t.target \in DOMAIN was \ DOMAIN is /\ t.status = "WARN"
    BY TransitionsAre
  <2> QED
    BY <1>5, <1>6, <2>1, <2>3, <2>4
<1>8. ASSUME Vanished
      PROVE  \E i \in DOMAIN out : \E f \in reports[i].findings : f.status = "WARN"
  <2>1. PICK x \in DOMAIN was \ DOMAIN is : cmd.baseline /\ Loads(saved)
    BY <1>6, <1>8
  <2>2. PICK t \in changes : t.target = x /\ t.status = "WARN"
    BY TransitionsAre
  <2> DEFINE f == Line(t)
  <2>3. f \in News(saved.reports, Annotated) /\ f.status = "WARN"
    BY <1>5, <2>1, <2>2, LineIs
  <2> HIDE DEF f
  <2>4. Filing(f) \in DOMAIN out /\ f \in NewsSays(Filing(f))
    BY <2>1, <2>3, FilingIs DEF NewsSays
  <2> QED
    BY <1>1, <2>3, <2>4
<1>9. ASSUME NEW i \in DOMAIN out, NEW f \in reports[i].findings
      PROVE  Sources(i, f)
  <2>1. CASE f = v(i)
    BY <1>1, <2>1
  <2>2. CASE f \in BesidesOn(i)
    BY <1>2, <2>2
  <2>3. CASE f \in PoolSays(i)
    BY <1>3, <2>3
  <2>4. CASE f \in NetSays(i) \cup ResolverSays(i)
    BY <1>1, <2>4
  <2>5. CASE f \in EgressSays(i)
    BY <1>4, <2>5
  <2>6. CASE f \in NewsSays(i)
    BY <1>7, <2>6
  <2> HIDE DEF Sources
  <2> QED
    BY <1>1, <2>1, <2>2, <2>3, <2>4, <2>5, <2>6
<1>10. ASSUME NEW i \in DOMAIN out
       PROVE  /\ \E f \in reports[i].findings : f.status = StatusOf(Seen(out[i]).class)
              /\ \A b \in Seen(out[i]).besides : \E f \in reports[i].findings : f.status = b[2]
  BY <1>1, <1>2
<1> QED
  BY <1>1, <1>8, <1>9, <1>10

\* What a run exits for, as it is printed.
LEMMA ExitIs ==
  ASSUME Inputs, out \in Seq(Target), out # << >>, Remembered, pc = "render",
         reports = Complete, complaint = (cmd.baseline /\ ~Loads(saved))
  PROVE  /\ \A i \in DOMAIN out : \A f \in reports[i].findings : f.status \in Status
         /\ shouldExit(reports, cmd.exitOn) <=> Earned
<1> DEFINE e == cmd.exitOn
           severity(i) == StatusOf(Seen(out[i]).class)
<1>1. /\ DOMAIN reports = DOMAIN out
      /\ \A i \in DOMAIN out :
           /\ reports[i].class = Seen(out[i]).class
           /\ \E f \in reports[i].findings : f.status = severity(i)
           /\ \A b \in Seen(out[i]).besides : \E f \in reports[i].findings : f.status = b[2]
           /\ \A f \in reports[i].findings :
                \/ \E j \in DOMAIN out : f.status = severity(j)
                \/ \E b \in Seen(out[i]).besides : f.status = b[2]
                \/ f.status = "OK"
                \/ f.status = "WARN" /\ Vanished
      /\ Vanished => \E i \in DOMAIN out : \E f \in reports[i].findings : f.status = "WARN"
  BY SeverityIs
<1>2. ASSUME NEW i \in DOMAIN out
      PROVE  /\ severity(i) \in Status
             /\ \A b \in Seen(out[i]).besides : b[2] \in Status
  <2>1. out[i] \in Target
    OBVIOUS
  <2>2. Seen(out[i]).class \in Class /\ Seen(out[i]).besides \subseteq (STRING \ RunChecks) \X Status
    BY <2>1, SeenIs
  <2> QED
    BY <2>2, ClassHasStatus
<1>3. "OK" \in Status /\ "WARN" \in Status
  BY DEF Status
<1>4. \A i \in DOMAIN out : \A f \in reports[i].findings : f.status \in Status
  BY <1>1, <1>2, <1>3
<1>5. \A i \in DOMAIN out : e \in Status =>
        (AtLeast(Worst(reports[i]), e)
           <=> e = "OK" \/ \E f \in reports[i].findings : AtLeast(f.status, e))
  BY <1>4, WorstIs
<1>6. 1 \in DOMAIN out
  BY PlacesOf, EmptySeq
<1>7. \A i \in DOMAIN out : Severe(i) <=> \/ AtLeast(severity(i), e)
                                          \/ \E b \in Seen(out[i]).besides : AtLeast(b[2], e)
  BY DEF Severe
<1> HIDE DEF e, severity
<1>8. ASSUME e \in Status, NEW i \in DOMAIN out, AtLeast(Worst(reports[i]), e)
      PROVE  (\E j \in DOMAIN out : Severe(j)) \/ (Vanished /\ AtLeast("WARN", e))
  <2>1. CASE e = "OK"
    <3>1. AtLeast(severity(1), e)
      BY <1>2, <1>6, <2>1, AllAtLeastOK
    <3> QED
      BY <1>6, <1>7, <3>1
  <2>2. CASE e # "OK"
    <3>1. PICK f \in reports[i].findings : AtLeast(f.status, e)
      BY <1>5, <1>8, <2>2
    <3>2. f.status # "OK"
      <4>3. Rank("OK") = 0
        BY DEF Rank
      <4>1. Rank("OK") = 0 /\ Rank(e) \in 0..3 /\ Rank(e) # 0
        BY <1>3, <1>8, <2>2, <4>3, Ranks
      <4>2. ~AtLeast("OK", e)
        BY <4>1 DEF AtLeast
      <4> QED
        BY <3>1, <4>2
    <3> QED
      BY <1>1, <1>7, <3>1, <3>2
  <2> QED
    BY <2>1, <2>2
<1>9. ASSUME e \in Status, (\E j \in DOMAIN out : Severe(j)) \/ (Vanished /\ AtLeast("WARN", e))
      PROVE  \E i \in DOMAIN out : AtLeast(Worst(reports[i]), e)
  <2>1. \E i \in DOMAIN out : \E f \in reports[i].findings : AtLeast(f.status, e)
    BY <1>1, <1>7, <1>9
  <2> QED
    BY <1>5, <1>9, <2>1
<1>10. shouldExit(reports, e) <=>
         \/ e \in Status /\ \E i \in DOMAIN out : AtLeast(Worst(reports[i]), e)
         \/ e \in Class /\ \E i \in DOMAIN out : Seen(out[i]).class = e
  BY <1>1 DEF shouldExit
<1>11. Earned <=> \/ e \in Status /\ ((\E i \in DOMAIN out : Severe(i)) \/ (Vanished /\ AtLeast("WARN", e)))
                  \/ e \in Class /\ \E i \in DOMAIN out : Seen(out[i]).class = e
  BY DEF Earned, e
<1>12. shouldExit(reports, e) <=> Earned
  BY <1>8, <1>9, <1>10, <1>11
<1> QED
  BY <1>4, <1>12 DEF e

\* The address in the name of a target.
LEMMA FirstTwo ==
  ASSUME NEW a, NEW b, NEW c
  PROVE  SubSeq(<<a, b, c>>, 1, 2) = <<a, b>>
<1> DEFINE S == {a, b, c}
           w == <<a, b, c>>
           u == SubSeq(w, 1, 2)
           v == <<a, b>>
<1>1. w[1] = a /\ w[2] = b /\ a \in S /\ b \in S
  OBVIOUS
<1>3. v \in Seq(S) /\ v[1] = a /\ v[2] = b
  OBVIOUS
<1>4. Len(v) = 2
  OBVIOUS
<1> HIDE DEF S, w, v
<1>8. \A i \in 1..2 : w[i] \in S
  BY <1>1, <1>3
<1>5. u \in Seq(S) /\ Len(u) = 2 /\ u[1] = w[1] /\ u[2] = w[2]
  BY <1>8, SubSeqProperties
<1> HIDE DEF u
<1>6. \A i \in 1..2 : u[i] = v[i]
  BY <1>1, <1>3, <1>5
<1>7. u = v
  BY <1>3, <1>4, <1>5, <1>6, SeqEqual
<1> QED
  BY <1>7 DEF u, v, w

LEMMA AddressOfName ==
  ASSUME NEW t \in TargetName
  PROVE  SubSeq(t, 1, 2) \in Hosts \X Ports
<1> DEFINE N == Hosts \cup {""}
<1>0. t \in Hosts \X Ports \X N
  BY DEF TargetName
<1> HIDE DEF N
<1>1. t[1] \in Hosts /\ t[2] \in Ports /\ t = <<t[1], t[2], t[3]>>
  BY <1>0
<1>2. SubSeq(t, 1, 2) = <<t[1], t[2]>>
  BY <1>1, FirstTwo
<1> QED
  BY <1>1, <1>2

\* The text renderer's order keeps the reports.
LEMMA SortedIs ==
  ASSUME out \in Seq(Target), NEW rs, Solid(rs)
  PROVE  /\ Solid(WorstFirst(rs))
         /\ \A e : shouldExit(WorstFirst(rs), e) <=> shouldExit(rs, e)
<1> DEFINE D == DOMAIN rs
           a(i) == Rank(Worst(rs[i]))
           s(i) == SubSeq(rs[i].target, 1, 2)
           Before(i, j) == \/ a(i) > a(j)
                           \/ a(i) = a(j) /\ Less(s(i), s(j))
                           \/ a(i) = a(j) /\ s(i) = s(j) /\ i < j
           R == {p \in D \X D : Before(p[1], p[2])}
           at == InOrder(D, R)
           N == Len(out)
           ss == WorstFirst(rs)
<1>1. D = 1..N /\ N \in Nat /\ IsFiniteSet(D) /\ Cardinality(D) = N
  <2>1. D = DOMAIN out /\ DOMAIN out = 1..Len(out) /\ Len(out) \in Nat
    BY PlacesOf DEF Solid
  <2> HIDE DEF N, D
  <2>3. 1 \in Int /\ N \in Int /\ N \in Nat
    BY <2>1 DEF N
  <2>2. IsFiniteSet(1..N) /\ Cardinality(1..N) = N
    BY <2>3, FS_Interval
  <2> QED
    BY <2>1, <2>2 DEF N
<1>2. ASSUME NEW i \in D
      PROVE  a(i) \in 0..3 /\ s(i) \in Hosts \X Ports /\ i \in Nat
  <2>1. rs[i].target \in TargetName /\ \A f \in rs[i].findings : f.status \in Status
    BY DEF Solid
  <2>2. a(i) \in 0..3
    BY <2>1, WorstIs, Ranks
  <2>3. s(i) \in Hosts \X Ports
    BY <2>1, AddressOfName
  <2> QED
    BY <1>1, <2>2, <2>3
<1>3. Orders(R, D)
  <2>1. \A i, j \in D : <<i, j>> \in R <=> Before(i, j)
    OBVIOUS
  <2> HIDE DEF R, D, a, s
  <2>2. \A i, j \in D : Before(i, j) => ~Before(j, i)
    BY <1>2, OrderAssumption
  <2>3. \A i, j \in D : i # j => Before(i, j) \/ Before(j, i)
    BY <1>2, OrderAssumption
  <2>4. \A i, j, k \in D : Before(i, j) /\ Before(j, k) => Before(i, k)
    BY <1>2, OrderAssumption
  <2> HIDE DEF Before
  <2> QED
    BY <2>1, <2>2, <2>3, <2>4 DEF Orders
<1>4. ss = [n \in DOMAIN at |-> rs[at[n]]]
  BY DEF WorstFirst
<1> HIDE DEF R, ss
<1>5. at \in [1..N -> D] /\ \A i \in D : \E n \in 1..N : at[n] = i
  BY <1>1, <1>3, Ordered
<1> HIDE DEF at
<1>6. DOMAIN ss = D /\ (\A n \in D : at[n] \in D /\ ss[n] = rs[at[n]]) /\ \A i \in D : \E n \in D : ss[n] = rs[i]
  BY <1>1, <1>4, <1>5
<1>7. Pairs(ss) = Pairs(rs)
  BY <1>6 DEF Pairs
<1>8. Solid(ss)
  BY <1>6, <1>7 DEF Solid
<1>9. ASSUME NEW e
      PROVE  shouldExit(ss, e) <=> shouldExit(rs, e)
  <2>1. (\E n \in D : AtLeast(Worst(ss[n]), e)) <=> \E i \in D : AtLeast(Worst(rs[i]), e)
    BY <1>6
  <2> HIDE DEF D
  <2>3. ASSUME NEW n \in D, ss[n].class = e
        PROVE  \E i \in D : rs[i].class = e
    BY <1>6, <2>3
  <2>4. ASSUME NEW i \in D, rs[i].class = e
        PROVE  \E n \in D : ss[n].class = e
    <3>1. PICK n \in D : ss[n] = rs[i]
      BY <1>6
    <3> QED
      BY <2>4, <3>1
  <2>2. (\E n \in D : ss[n].class = e) <=> \E i \in D : rs[i].class = e
    BY <2>3, <2>4
  <2> QED
    BY <1>6, <2>1, <2>2 DEF shouldExit, D
<1> QED
  BY <1>8, <1>9 DEF ss

----------------------------------------------------------------------------
(* From day to day.                                                        *)

\* What the reports are made of stays as it is while the run does.
LEMMA Unmoved ==
  ASSUME UNCHANGED <<cmd, zone, out, world>>
  PROVE  /\ Evaluated' = Evaluated /\ Annotated' = Annotated /\ Fleet' = Fleet
         /\ saved' = saved => Complete' = Complete
         /\ complaint' = complaint /\ last' = last => (Earned' <=> Earned)
<1>1. ASSUME NEW t
      PROVE  Tried(t)' = Tried(t)
  BY DEF Tried
<1>2. ASSUME NEW t
      PROVE  Routed(t)' = Routed(t)
  BY <1>1 DEF Routed
<1>3. ASSUME NEW t
      PROVE  Seen(t)' = Seen(t)
  BY <1>1, <1>2 DEF Seen
<1>4. Evaluated' = Evaluated
  BY <1>3 DEF Evaluated
<1>5. Names' = Names
  BY DEF Names
<1>6. Pooled' = Pooled
  BY <1>4, <1>5 DEF Pooled
<1>7. Known' = Known
  BY <1>6 DEF Known
<1>8. Annotated' = Annotated
  BY <1>7 DEF Annotated
<1>9. Fleet' = Fleet
  BY <1>3 DEF Fleet
<1>10. ASSUME saved' = saved
       PROVE  Complete' = Complete
  BY <1>8, <1>10 DEF Complete
<1>11. ASSUME complaint' = complaint, last' = last
       PROVE  Earned' <=> Earned
  <2>1. Vanished' <=> Vanished
    BY <1>11 DEF Vanished
  <2>2. ASSUME NEW i
        PROVE  Severe(i)' <=> Severe(i)
    BY <1>3 DEF Severe
  <2> QED
    BY <1>3, <2>1, <2>2 DEF Earned
<1> QED
  BY <1>4, <1>8, <1>9, <1>10, <1>11

\* A document without reports.
LEMMA CutIs ==
  /\ Cut.form = "cut" /\ Cut.reports = << >>
  /\ \A form, tool, schema : /\ Stored(form, tool, schema, << >>).reports = << >>
                             /\ Stored(form, tool, schema, << >>).form = form
<1>1. ASSUME NEW form, NEW tool, NEW schema
      PROVE  /\ Stored(form, tool, schema, << >>).reports = << >>
             /\ Stored(form, tool, schema, << >>).form = form
  <2> DEFINE rs == [i \in DOMAIN << >> |-> [target |-> << >>[i].target, class |-> << >>[i].class]]
  <2>1. Stored(form, tool, schema, << >>) =
          [form |-> form, tool |-> tool, schema |-> schema, reports |-> rs]
    BY DEF Stored
  <2>2. rs = << >>
    OBVIOUS
  <2> HIDE DEF rs
  <2> QED
    BY <2>1, <2>2
<1> QED
  BY <1>1 DEF Cut

\* What --json writes says of each target what its report did.
LEMMA JSONIs ==
  ASSUME out \in Seq(Target), NEW rs, SameEndpoints(rs, Evaluated), Solid(rs)
  PROVE  LET doc == Stored("object", "pqprobe", Schema, rs)
         IN  /\ doc.form = "object" /\ doc.tool = "pqprobe"
             /\ doc.reports \in Seq([target : TargetName, class : Class])
             /\ \A i, j \in DOMAIN doc.reports :
                  doc.reports[i].target = doc.reports[j].target => doc.reports[i] = doc.reports[j]
             /\ Pairs(doc.reports) = Pairs(rs)
<1> DEFINE kept == [i \in DOMAIN rs |-> [target |-> rs[i].target, class |-> rs[i].class]]
           doc == Stored("object", "pqprobe", Schema, rs)
           R == [target : TargetName, class : Class]
<1>1. doc = [form |-> "object", tool |-> "pqprobe", schema |-> Schema, reports |-> kept]
  BY DEF Stored
<1>2. DOMAIN rs = 1..Len(out) /\ Len(out) \in Nat /\ Functional(rs)
  BY FleetIsFunctional
<1>3. \A i \in DOMAIN rs : /\ kept[i] \in R
                           /\ kept[i].target = rs[i].target /\ kept[i].class = rs[i].class
                           /\ kept[i] = [target |-> rs[i].target, class |-> rs[i].class]
  BY DEF Solid
<1>4. DOMAIN kept = DOMAIN rs
  OBVIOUS
<1>5. kept \in [1..Len(out) -> R]
  BY <1>2, <1>3
<1> HIDE DEF kept, doc
<1>6. kept \in Seq(R)
  <2> HIDE DEF R
  <2> QED
    BY <1>2, <1>5, SeqDef
<1>7. \A i, j \in DOMAIN kept : kept[i].target = kept[j].target => kept[i] = kept[j]
  BY <1>2, <1>3, <1>4 DEF Functional
<1>8. Pairs(kept) = Pairs(rs)
  BY <1>3, <1>4 DEF Pairs
<1>9. doc.form = "object" /\ doc.tool = "pqprobe" /\ doc.reports = kept
  BY <1>1
<1> QED
  BY <1>6, <1>7, <1>8, <1>9 DEF doc

\* Reports of the endpoints of the run, each finding with a severity.
LEMMA SolidIs ==
  ASSUME Inputs, out \in Seq(Target), NEW rs, SameEndpoints(rs, Evaluated),
         \A i \in DOMAIN out : \A f \in rs[i].findings : f.status \in Status
  PROVE  Solid(rs)
<1>1. /\ DOMAIN rs = DOMAIN out
      /\ \A i \in DOMAIN out : rs[i].target = String(out[i]) /\ rs[i].class = Seen(out[i]).class
  BY EvaluatedIs DEF SameEndpoints
<1>2. ASSUME NEW i \in DOMAIN out
      PROVE  String(out[i]) \in TargetName /\ Seen(out[i]).class \in Class
  <2>1. out[i] \in Target
    OBVIOUS
  <2> QED
    BY <2>1, StringIs, SeenIs
<1> QED
  BY <1>1, <1>2, FleetIsFunctional DEF Solid

\* Before the comparison, too, what is found has a severity.
LEMMA EarlySeverity ==
  ASSUME Inputs, out \in Seq(Target), NEW i \in DOMAIN out
  PROVE  /\ \A f \in Evaluated[i].findings : f.status \in Status
         /\ \A f \in Annotated[i].findings : f.status \in Status
<1> DEFINE v == Hinted(VerdictOn(i), i)
<1>1. /\ Annotated[i].findings = {v} \cup BesidesOn(i) \cup PoolSays(i)
                                 \cup NetSays(i) \cup ResolverSays(i) \cup EgressSays(i)
      /\ v.status = StatusOf(Seen(out[i]).class)
      /\ \A f \in BesidesOn(i) : f.status \in Status
      /\ \A f \in NetSays(i) \cup ResolverSays(i) : f.status = "OK"
      /\ \A f \in EgressSays(i) : f.status = "ERROR"
  BY FindingsAre
<1>2. Seen(out[i]).class \in Class /\ StatusOf(Seen(out[i]).class) \in Status
  <2>1. out[i] \in Target
    OBVIOUS
  <2> QED
    BY <2>1, SeenIs, ClassHasStatus
<1>3. VerdictOn(i).status = StatusOf(Seen(out[i]).class)
  BY DEF VerdictOn, Finding
<1>4. Evaluated[i].findings = {VerdictOn(i)} \cup BesidesOn(i)
  BY EvaluatedIs DEF VerdictOn, BesidesOn
<1>5. ASSUME NEW f \in PoolSays(i)
      PROVE  f.status \in Status
  <2>1. PICK p \in Pools : cmd.perAddress /\ f = AddressConsistency(p, Members(p))
    BY DEF PoolSays
  <2>2. Cardinality(Pool(p)) > 1
    BY GroupIs DEF Pools
  <2> DEFINE k == PlacesIn(p)[worst(Members(p))]
  <2>3. k \in DOMAIN out /\ f.status = StatusOf(Evaluated[k].class)
    BY <2>1, <2>2, PoolLine
  <2> HIDE DEF k
  <2>4. out[k] \in Target
    BY <2>3
  <2> QED
    BY <2>3, <2>4, EvaluatedIs, SeenIs, ClassHasStatus
<1>6. "OK" \in Status /\ "ERROR" \in Status
  BY DEF Status
<1> HIDE DEF v
<1> QED
  BY <1>1, <1>2, <1>3, <1>4, <1>5, <1>6

LEMMA TalesInit ==
  Init => Reported /\ Remembered
<1> SUFFICES ASSUME Init
             PROVE  Reported /\ Remembered
  OBVIOUS
<1>1. /\ pc = "flags" /\ reports = << >> /\ complaint = FALSE /\ exit = "none"
      /\ session \in Sessions /\ saved \in Files(session.trial)
      /\ last = Pairs(saved.reports)
  BY DEF Init, Pairs
<1>2. Reported
  BY <1>1 DEF Reported
<1>3. /\ saved.form \in {"object", "findings", "text", "cut"}
      /\ saved.reports # << >> => saved.form = "object" /\ saved.tool = "pqprobe"
      /\ saved.reports \in Seq([target : TargetName, class : Class])
      /\ \A i, j \in DOMAIN saved.reports :
           saved.reports[i].target = saved.reports[j].target => saved.reports[i] = saved.reports[j]
  BY <1>1, WorldAssumption DEF TargetName
<1> QED
  BY <1>1, <1>2, <1>3 DEF Remembered

\* While nothing is printed the baseline is the one there was.
LEMMA StillRemembered ==
  ASSUME Remembered, UNCHANGED <<saved, last>>,
         {pc, pc'} \cap {"publish", "publishing", "exit", "over"} = {}
  PROVE  Remembered'
BY DEF Remembered, Pairs

LEMMA ProbeKeeps ==
  ASSUME Inputs, Gathered, Reported, Remembered, Probe
  PROVE  Reported' /\ Remembered'
<1>1. /\ pc = "run" /\ pc' = "annotate" /\ reports' = Evaluated
      /\ UNCHANGED <<cmd, zone, out, world, saved, complaint, last, exit>>
  BY DEF Probe, assembly, day, Evaluated
<1>2. out \in Seq(Target) /\ out # << >>
  BY <1>1 DEF Gathered
<1>3. Evaluated' = Evaluated /\ Fleet' = Fleet
  BY <1>1, Unmoved
<1>4. Solid(Evaluated)
  <2>1. SameEndpoints(Evaluated, Evaluated)
    BY EvaluatedIs DEF SameEndpoints
  <2> QED
    BY <1>2, <2>1, SolidIs, EarlySeverity
<1>5. Solid(reports)'
  BY <1>1, <1>3, <1>4 DEF Solid, Pairs
<1>6. Reported'
  BY <1>1, <1>2, <1>3, <1>5 DEF Reported
<1> QED
  BY <1>1, <1>6, StillRemembered

LEMMA AnnotateKeeps ==
  ASSUME Inputs, Gathered, Reported, Remembered, Annotate
  PROVE  Reported' /\ Remembered'
<1>1. /\ pc = "annotate" /\ pc' = "compare" /\ reports = Evaluated /\ out # << >>
      /\ UNCHANGED <<cmd, zone, out, world, saved, complaint, last, exit>>
      /\ complaint \in BOOLEAN /\ exit \in {"none", "0", "1", "2", "killed"}
  BY DEF Annotate, assembly, day, Reported
<1>2. out \in Seq(Target)
  BY DEF Gathered
<1>3. reports' = Annotated
  BY <1>1 DEF Annotate, Annotated, Known, Pooled, Names
<1>4. Annotated' = Annotated /\ Fleet' = Fleet
  BY <1>1, Unmoved
<1>5. Solid(Annotated)
  BY <1>2, AnnotatedIs, SolidIs, EarlySeverity
<1>6. Solid(reports)'
  BY <1>1, <1>3, <1>4, <1>5 DEF Solid, Pairs
<1>7. Reported'
  BY <1>1, <1>3, <1>4, <1>6 DEF Reported
<1> QED
  BY <1>1, <1>7, StillRemembered

\* News has a severity.
LEMMA NewsSeverity ==
  ASSUME Inputs, out \in Seq(Target), out # << >>, NEW i, NEW f \in NewsSays(i)
  PROVE  f.status \in Status
<1> DEFINE was == byTarget(saved.reports)
           is == byTarget(Annotated)
           changes == Transitions(was, is)
<1>1. /\ DOMAIN Annotated = 1..Len(out) /\ Len(out) \in Nat /\ Functional(Annotated)
      /\ Len(out) # 0
  BY FleetIsFunctional, AnnotatedIs, EmptySeq
<1>2. News(saved.reports, Annotated) = {Line(t) : t \in changes}
  BY <1>1, NewsIs
<1>3. \A j \in DOMAIN Annotated : Annotated[j].class \in Class
  <2>1. ASSUME NEW j \in DOMAIN out
        PROVE  Annotated[j].class \in Class
    <3>1. out[j] \in Target
      OBVIOUS
    <3> QED
      BY <3>1, AnnotatedIs, EvaluatedIs, SeenIs DEF SameEndpoints
  <2> QED
    BY <2>1, AnnotatedIs, EvaluatedIs DEF SameEndpoints
<1>4. \A x \in DOMAIN is : is[x] \in Class
  <2>1. DOMAIN is = {Annotated[j].target : j \in DOMAIN Annotated}
    BY DEF byTarget
  <2>2. \A j \in DOMAIN Annotated : is[Annotated[j].target] = Annotated[j].class
    BY <1>1, ByTargetIs
  <2> HIDE DEF is
  <2> QED
    BY <1>3, <2>1, <2>2
<1> HIDE DEF was, is
<1>5. PICK t \in changes : f = Line(t)
  BY <1>2 DEF NewsSays
<1>6. f.status = t.status
  BY <1>5, LineIs
<1>7. \/ t.status = "OK" \/ t.status = "WARN"
      \/ t.target \in DOMAIN is /\ t.status \in {"OK", StatusOf(is[t.target])}
  BY TransitionsAre
<1> QED
  BY <1>4, <1>6, <1>7, ClassHasStatus DEF Status

LEMMA CompareKeeps ==
  ASSUME Inputs, Gathered, Reported, Remembered, Compare
  PROVE  Reported' /\ Remembered'
<1>1. /\ pc = "compare" /\ pc' = "render" /\ reports = Annotated /\ out # << >>
      /\ UNCHANGED <<cmd, zone, out, world, saved, last, exit>>
      /\ complaint' = (cmd.baseline /\ ~Loads(saved))
      /\ exit \in {"none", "0", "1", "2", "killed"}
  BY DEF Compare, assembly, day, Reported
<1>2. out \in Seq(Target)
  BY DEF Gathered
<1>3. reports' = Complete
  BY <1>1 DEF Compare, Complete
<1>4. Complete' = Complete /\ Fleet' = Fleet
  BY <1>1, Unmoved
<1>5. Solid(Complete)
  <2>1. SameEndpoints(Complete, Evaluated)
        /\ \A i \in DOMAIN out : Complete[i].findings = Annotated[i].findings \cup NewsSays(i)
    BY CompleteIs
  <2>2. \A i \in DOMAIN out : \A f \in Complete[i].findings : f.status \in Status
    BY <1>1, <1>2, <2>1, NewsSeverity, EarlySeverity
  <2> QED
    BY <1>2, <2>1, <2>2, SolidIs
<1>6. Solid(reports)'
  BY <1>1, <1>3, <1>4, <1>5 DEF Solid, Pairs
<1>7. complaint' = (cmd'.baseline /\ ~Loads(saved'))
  BY <1>1
<1>8. complaint' \in BOOLEAN
  BY <1>1
<1>9. Reported'
  BY <1>1, <1>3, <1>4, <1>6, <1>7, <1>8 DEF Reported
<1> QED
  BY <1>1, <1>9, StillRemembered

\* A document without reports remembers nobody.
LEMMA NothingRemembered ==
  ASSUME saved'.form \in {"object", "findings", "text", "cut"}, saved'.reports = << >>
  PROVE  Remembered'
<1>1. << >> \in Seq([target : TargetName, class : Class])
  OBVIOUS
<1> QED
  BY <1>1 DEF Remembered

LEMMA RenderKeeps ==
  ASSUME Inputs, Gathered, Reported, Remembered, Render
  PROVE  Reported' /\ Remembered'
<1>1. /\ pc = "render" /\ pc' \in {"publish", "exit"} /\ reports = Complete /\ out # << >>
      /\ UNCHANGED <<cmd, zone, out, world, last, complaint, exit>>
      /\ complaint = (cmd.baseline /\ ~Loads(saved)) /\ complaint \in BOOLEAN
      /\ exit \in {"none", "0", "1", "2", "killed"}
      /\ saved' = Rendered(cmd.render, reports)
      /\ reports' = IF cmd.render = "text" THEN WorstFirst(reports) ELSE reports
  BY DEF Render, assembly, day, Reported
<1>2. out \in Seq(Target)
  BY DEF Gathered
<1>3. shouldExit(reports, cmd.exitOn) <=> Earned
  BY <1>1, <1>2, ExitIs
<1>4. SameEndpoints(reports, Evaluated) /\ Solid(reports)
  <2>1. SameEndpoints(reports, Evaluated)
    BY <1>1, CompleteIs
  <2>2. \A i \in DOMAIN out : \A f \in reports[i].findings : f.status \in Status
    BY <1>1, <1>2, ExitIs
  <2> QED
    BY <1>2, <2>1, <2>2, SolidIs
<1>5. Solid(reports') /\ (shouldExit(reports', cmd.exitOn) <=> shouldExit(reports, cmd.exitOn))
  BY <1>1, <1>2, <1>4, SortedIs
<1>6. Fleet' = Fleet /\ (Earned' <=> Earned)
  BY <1>1, Unmoved
<1>7. Solid(reports)'
  BY <1>1, <1>5, <1>6 DEF Solid, Pairs
<1>8. Reported'
  BY <1>1, <1>3, <1>5, <1>6, <1>7 DEF Reported
<1>9. CASE cmd.render = "json"
  <2>1. saved' = Stored("object", "pqprobe", Schema, reports) /\ reports' = reports
    BY <1>1, <1>9 DEF Rendered
  <2> DEFINE doc == Stored("object", "pqprobe", Schema, reports)
  <2>2. /\ doc.form = "object" /\ doc.tool = "pqprobe"
        /\ doc.reports \in Seq([target : TargetName, class : Class])
        /\ \A i, j \in DOMAIN doc.reports :
             doc.reports[i].target = doc.reports[j].target => doc.reports[i] = doc.reports[j]
        /\ Pairs(doc.reports) = Pairs(reports)
    BY <1>2, <1>4, JSONIs
  <2>3. saved' = doc
    BY <2>1
  <2> HIDE DEF doc
  <2>5. Pairs(saved'.reports) = Pairs(reports')
    BY <2>1, <2>2, <2>3
  <2>6. Pairs(saved.reports)' = Pairs(reports)'
    BY <2>5 DEF Pairs
  <2> QED
    BY <1>1, <1>8, <2>2, <2>3, <2>6 DEF Remembered
<1>10. CASE cmd.render # "json"
  <2>1. cmd.render \in {"wrapped", "findings", "text"}
    <3>1. cmd \in CommandLine
      BY InputsTyped
    <3> QED
      BY <1>10, <3>1 DEF CommandLine
  <2>2. saved'.reports = << >> /\ saved'.form \in {"object", "findings", "text", "cut"}
    <3>1. CASE cmd.render = "wrapped"
      <4>1. saved' = Stored("object", "", Schema, << >>)
        BY <1>1, <3>1 DEF Rendered
      <4> QED
        BY <4>1, CutIs
    <3>2. CASE cmd.render # "wrapped"
      <4>1. saved' = Stored(cmd.render, "", 0, << >>)
        BY <1>1, <1>10, <3>2 DEF Rendered
      <4>2. saved'.form = cmd.render /\ saved'.reports = << >>
        BY <4>1, CutIs
      <4> QED
        BY <2>1, <3>2, <4>2
    <3> QED
      BY <3>1, <3>2
  <2> QED
    BY <1>8, <2>2, NothingRemembered
<1> QED
  BY <1>8, <1>9, <1>10

\* The command is over without an exit code of its own.
LEMMA StoppedKeeps ==
  ASSUME Gathered, Reported, Remembered, UNCHANGED <<assembly, day, reports, complaint>>,
         pc' = "over", exit' \in {"2", "killed"},
         saved' = Cut \/ (saved' = saved /\ pc \in {"publish", "publishing", "exit"})
  PROVE  Reported' /\ Remembered'
<1>1. UNCHANGED <<cmd, zone, out, world, last>>
  BY DEF assembly, day
<1>2. Fleet' = Fleet
  BY <1>1, Unmoved
<1>3. reports' # << >> => Solid(reports)'
  BY <1>1, <1>2 DEF Reported, Solid, Pairs
<1>4. Reported'
  BY <1>1, <1>3 DEF Reported
<1>5. CASE saved' = Cut
  BY <1>4, <1>5, CutIs, NothingRemembered
<1>6. CASE saved' = saved /\ pc \in {"publish", "publishing", "exit"}
  <2>1. Remembered'
    BY <1>6 DEF Remembered, Pairs
  <2> QED
    BY <1>4, <2>1
<1> QED
  BY <1>5, <1>6

\* The command publishes, or has its exit code.
LEMMA PrintedKeeps ==
  ASSUME Gathered, Reported, Remembered, UNCHANGED <<assembly, day, reports, complaint, saved>>,
         pc \in {"publish", "publishing", "exit"},
         \/ pc' \in {"publishing", "exit"} /\ UNCHANGED exit
         \/ pc = "exit" /\ pc' = "over"
            /\ exit' = IF shouldExit(reports, cmd.exitOn) THEN "1" ELSE "0"
  PROVE  Reported' /\ Remembered'
<1>1. UNCHANGED <<cmd, zone, out, world, last>>
  BY DEF assembly, day
<1>2. Fleet' = Fleet /\ (Earned' <=> Earned)
  BY <1>1, Unmoved
<1>3. reports' # << >> => Solid(reports)'
  BY <1>1, <1>2 DEF Reported, Solid, Pairs
<1>4. Reported'
  BY <1>1, <1>2, <1>3 DEF Reported
<1>5. Remembered'
  BY DEF Remembered, Pairs
<1> QED
  BY <1>4, <1>5

\* Nothing has been probed, or is, in this step.
LEMMA EarlyKeeps ==
  ASSUME Reported, Remembered, UNCHANGED <<reports, complaint, exit, saved, last>>,
         pc \in {"flags", "operands", "list", "inventory", "merge", "expand"},
         pc' \in {"operands", "list", "inventory", "merge", "expand", "usage", "run"}
  PROVE  Reported' /\ Remembered'
<1>1. reports' = << >> /\ exit' = "none" /\ complaint' = FALSE
  BY DEF Reported
<1> QED
  BY <1>1, StillRemembered DEF Reported

LEMMA TalesStep ==
  ASSUME Inputs, Gathered, Reported, Remembered, [Next]_vars
  PROVE  Reported' /\ Remembered'
<1>1. CASE Flags
  <2>1. /\ pc = "flags" /\ UNCHANGED <<assembly, day, reports, complaint, last>>
        /\ \/ pc' = "operands" /\ UNCHANGED <<saved, exit>>
           \/ pc' = "over" /\ saved' = Cut /\ exit' = "2"
    BY <1>1 DEF Flags, day
  <2> QED
    BY <2>1, EarlyKeeps, StoppedKeeps
<1>2. CASE Collect
  <2>1. /\ UNCHANGED <<reports, complaint, exit, saved, last>>
        /\ pc \in {"operands", "list", "inventory", "merge", "expand"}
        /\ pc' \in {"operands", "list", "inventory", "merge", "expand", "usage", "run"}
    BY <1>2 DEF Collect, day, Assemble, ReadOperands, ReadListFlag, ReadInventory, Merge,
                ExpandAddresses
  <2> QED
    BY <2>1, EarlyKeeps
<1>3. CASE Usage
  BY <1>3, StoppedKeeps DEF Usage
<1>4. CASE Probe
  BY <1>4, ProbeKeeps
<1>5. CASE Annotate
  BY <1>5, AnnotateKeeps
<1>6. CASE Compare
  BY <1>6, CompareKeeps
<1>7. CASE Render
  BY <1>7, RenderKeeps
<1>8. CASE RenderFails
  BY <1>8, StoppedKeeps DEF RenderFails
<1>9. CASE Publish
  BY <1>9, PrintedKeeps DEF Publish
<1>10. CASE Publishing
  BY <1>10, PrintedKeeps DEF Publishing
<1>11. CASE Published
  BY <1>11, PrintedKeeps DEF Published
<1>12. CASE Exit
  BY <1>12, PrintedKeeps DEF Exit
<1>13. CASE Kill
  <2>1. /\ pc' = "over" /\ exit' = "killed" /\ UNCHANGED <<assembly, day, reports, complaint>>
        /\ saved' = IF pc \in {"publish", "publishing", "exit"} THEN saved ELSE Cut
    BY <1>13 DEF Kill
  <2> QED
    BY <2>1, StoppedKeeps
<1>14. CASE NextDay
  <2>1. /\ pc = "over" /\ pc' = "flags" /\ reports' = << >> /\ complaint' = FALSE
        /\ exit' = "none" /\ saved' = saved /\ last' = Pairs(reports)
    BY <1>14 DEF NextDay, Pairs
  <2>2. Reported'
    BY <2>1 DEF Reported
  <2>3. Remembered'
    BY <2>1 DEF Remembered, Pairs
  <2> QED
    BY <2>2, <2>3
<1>15. CASE Over \/ UNCHANGED vars
  <2>1. UNCHANGED <<assembly, pc, day, reports, saved, complaint, exit>>
    BY <1>15 DEF Over, vars
  <2>2. UNCHANGED <<cmd, zone, out, world, last>>
    BY <2>1 DEF assembly, day
  <2>3. /\ Evaluated' = Evaluated /\ Annotated' = Annotated /\ Fleet' = Fleet
        /\ Complete' = Complete /\ (Earned' <=> Earned)
    BY <2>1, <2>2, Unmoved
  <2>4. Reported'
    BY <2>1, <2>2, <2>3 DEF Reported, Solid, Pairs
  <2>5. Remembered'
    BY <2>1, <2>2 DEF Remembered, Pairs
  <2> QED
    BY <2>4, <2>5
<1> QED
  BY <1>1, <1>2, <1>3, <1>4, <1>5, <1>6, <1>7, <1>8, <1>9, <1>10, <1>11, <1>12, <1>13, <1>14, <1>15
  DEF Next

LEMMA TaleInvariant ==
  Spec => [](Inputs /\ Gathered /\ Reported /\ Remembered)
<1>1. Init => Inputs /\ Gathered /\ Reported /\ Remembered
  BY InputsInit, GatheredInit, TalesInit
<1>2. Inputs /\ Gathered /\ Reported /\ Remembered /\ [Next]_vars
        => (Inputs /\ Gathered /\ Reported /\ Remembered)'
  BY InputsStep, GatheredStep, TalesStep
<1> QED
  BY <1>1, <1>2, PTL DEF Spec

\* egressFindings blames this host for the endpoints it has no route to, once
\* for each family and with how many they are, for no other endpoint, and
\* those endpoints' verdicts refer to it.
THEOREM EgressIsOurs ==
  Spec => []EgressIsLocal
<1>1. Inputs /\ Gathered /\ Reported => EgressIsLocal
  BY HostIsBlamed DEF Gathered, Reported
<1> QED
  BY <1>1, TaleInvariant, PTL

\* addressFindings has one line for every name of several endpoints, on the
\* report of a worst one, with that one's severity and, if they disagree, its
\* name.
THEOREM OddOneIsFiled ==
  Spec => []OddOneIsShown
<1>1. Inputs /\ Gathered /\ Reported => OddOneIsShown
  BY OddOneIsSaid DEF Gathered, Reported
<1> QED
  BY <1>1, TaleInvariant, PTL

\* A comparison says all that changed since the run before and nothing else,
\* each line where its target is, whatever the document was and however many
\* reports a target has (LoadReports, Transitions, addTransitions).
THEOREM NewsIsTrue ==
  Spec => []NewsIsComplete
<1>1. Inputs /\ Gathered /\ Reported /\ Remembered => NewsIsComplete
  BY NewsIsTold DEF Gathered, Reported
<1> QED
  BY <1>1, TaleInvariant, PTL

\* The exit code is earned by an endpoint: what a run says of itself, of a
\* pool or of an improvement neither fails the gate nor hides what does
\* (shouldExit and Report.Worst, after every finding has been filed).
THEOREM GateIsEarned ==
  Spec => []ExitIsEarned
<1>1. Reported => ExitIsEarned
  BY DEF Reported, ExitIsEarned, Earned, Severe
<1> QED
  BY <1>1, TaleInvariant, PTL

\* The command's state is well formed: what is dialled has a host and a port,
\* there is a report for each endpoint and a severity for each finding,
\* standard input has one reader and the metrics file is whole.
THEOREM CommandIsSound ==
  Spec => []CommandInv
<1>1. ASSUME Inputs, Gathered, Reported, Remembered
      PROVE  TypeOK /\ OneReader
  <2>1. OneReader
    BY <1>1 DEF Gathered, OneReader
  <2>2. pc \in Steps /\ run \in 1..Len(session.commands)
    BY <1>1 DEF Gathered, Inputs, Today
  <2>3. Dialable
    <3>1. ASSUME NEW i \in DOMAIN out
          PROVE  Parses(out[i]) /\ out[i].port # ""
      <4>1. out[i] \in Target
        BY <1>1 DEF Gathered
      <4>2. out[i].host \in Hosts /\ out[i].port \in Ports
        BY <4>1, AddrType
      <4> QED
        BY <4>2, TargetsAssumption DEF Parses
    <3> QED
      BY <3>1 DEF Dialable
  <2>4. /\ reports # << >> => DOMAIN reports = DOMAIN out
        /\ \A i \in DOMAIN reports : /\ reports[i].class \in Class
                                     /\ \A f \in reports[i].findings : f.status \in Status
    BY <1>1 DEF Reported, Solid
  <2> QED
    BY <1>1, <2>1, <2>2, <2>3, <2>4 DEF TypeOK, Reported, Remembered, Steps
<1> QED
  BY <1>1, TaleInvariant, FileIsTidy, PTL DEF CommandInv
=============================================================================
