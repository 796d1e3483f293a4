---------------------------- MODULE WatchProofs ----------------------------
(***************************************************************************)
(* What Watch's run shows for two endpoints and three changes, proved for  *)
(* any fleet, any classes and any number of changes.                       *)
(*                                                                         *)
(* The argument is that the reader and the loop remember the same run: the *)
(* one the next comparison is made with.  A line that is missing, or that  *)
(* says another class than the run found, would put them apart for good.   *)
(***************************************************************************)
EXTENDS Watch, TLAPS

\* What the reader knows is the run the next one is compared with, and
\* outside of a run that is the last one.
Remembered ==
  /\ told = prev
  /\ pc \in {"select", "write"} => prev = cur

\* Only a cancelled run is spoiled, and it ends in the stop.
Spoiled == tainted # {} => cancelled /\ pc \in {"running", "stopped"}

IInv == TypeOK /\ Remembered /\ Spoiled /\ FileIsCurrent

----------------------------------------------------------------------------
(* What a comparison of two runs of one fleet says.                        *)

\* Transitions of two runs over the same endpoints: one line for each that
\* has another class now, with that class, and no other line.
LEMMA MovesOnly ==
  ASSUME NEW was \in [Target -> Class], NEW now \in [Target -> Class]
  PROVE  Transitions(was, now) =
           {[target |-> t, event |-> "moved", from |-> was[t], to |-> now[t],
             status |-> IF AtLeast(StatusOf(now[t]), StatusOf(was[t]))
                        THEN StatusOf(now[t]) ELSE "OK"] :
              t \in {u \in Target : now[u] # was[u]}}
<1>1. DOMAIN was = Target /\ DOMAIN now = Target
  OBVIOUS
<1>2. DOMAIN now \ DOMAIN was = {} /\ DOMAIN was \ DOMAIN now = {}
  BY <1>1
<1>3. DOMAIN now \cap DOMAIN was = Target
  BY <1>1
<1> QED
  BY <1>2, <1>3 DEF Transitions

\* The severity of a class is a severity.
LEMMA StatusOfType == \A c : StatusOf(c) \in Status
BY DEF StatusOf, Status

\* Whoever knew the run before, and reads all the lines, knows this one.
LEMMA ReadingAllIsKnowing ==
  ASSUME NEW was \in [Target -> Class], NEW now \in [Target -> Class]
  PROVE  Read(was, Transitions(was, now)) = now
<1> DEFINE L == Transitions(was, now)
<1>1. ASSUME NEW t \in Target
      PROVE  (IF \E l \in L : l.target = t
              THEN (CHOOSE l \in L : l.target = t).to ELSE was[t]) = now[t]
  <2>1. \A l \in L : l.target = t => l.to = now[t]
    BY MovesOnly
  <2>2. CASE \E l \in L : l.target = t
    BY <2>1, <2>2
  <2>3. CASE ~\E l \in L : l.target = t
    <3>1. now[t] # was[t] =>
            [target |-> t, event |-> "moved", from |-> was[t], to |-> now[t],
             status |-> IF AtLeast(StatusOf(now[t]), StatusOf(was[t]))
                        THEN StatusOf(now[t]) ELSE "OK"] \in L
      BY MovesOnly
    <3> QED
      BY <2>3, <3>1
  <2> QED
    BY <2>2, <2>3
<1>2. Read(was, L) = [t \in Target |-> now[t]]
  BY <1>1 DEF Read
<1> QED
  BY <1>2

----------------------------------------------------------------------------
(* The inductive invariant.                                                *)

LEMMA IInvInit == Init => IInv
<1> SUFFICES ASSUME Init
             PROVE  IInv
  OBVIOUS
<1>1. truth \in [Target -> Class]
  BY WatchAssumption DEF Init
<1>2. TypeOK
  <2>1. changes \in 0..MaxChanges
    BY WatchAssumption DEF Init
  <2> QED
    BY <1>1, <2>1 DEF Init, TypeOK
<1>3. Remembered /\ Spoiled /\ FileIsCurrent
  BY DEF Init, Remembered, Spoiled, FileIsCurrent
<1> QED
  BY <1>2, <1>3 DEF IInv

\* Only a run moves what is compared, and only the print moves what it is
\* compared with, the reader along with it.
LEMMA IInvStep == IInv /\ [Next]_vars => IInv'
<1> SUFFICES ASSUME IInv, [Next]_vars
             PROVE  IInv'
  OBVIOUS
<1> USE WatchAssumption DEF IInv, TypeOK, Remembered, Spoiled, FileIsCurrent
<1>1. CASE TakeTick \/ TakeDone
  BY <1>1 DEF TakeTick, TakeDone
<1>2. ASSUME NEW t \in Target, Report(t)
      PROVE  IInv'
  <2>1. truth[t] \in Class
    OBVIOUS
  <2>2. cur' \in [Target -> Class]
    BY <1>2, <2>1 DEF Report
  <2> QED
    BY <1>2, <2>2 DEF Report
<1>3. CASE Check
  BY <1>3 DEF Check
<1>4. CASE PrintMoved
  <2>1. told' = cur
    BY <1>4, ReadingAllIsKnowing DEF PrintMoved
  <2>2. \A l \in lines' : l.target \in Target /\ l.status \in Status
    BY <1>4, MovesOnly, StatusOfType DEF PrintMoved, Status
  <2> QED
    BY <1>4, <2>1, <2>2 DEF PrintMoved
<1>5. CASE Write
  BY <1>5 DEF Write
<1>6. CASE TickerFires \/ Signal
  <2>1. tick' \in BOOLEAN /\ cancelled' \in BOOLEAN /\ (cancelled => cancelled')
    BY <1>6 DEF TickerFires, Signal
  <2>2. UNCHANGED <<truth, changes, pc, cur, waiting, tainted, prev, lines,
                    told, file, written>>
    BY <1>6 DEF TickerFires, Signal
  <2> QED
    BY <2>1, <2>2
<1>7. ASSUME NEW t \in Target, NEW c \in Conclusions, Change(t, c)
      PROVE  IInv'
  <2>1. truth' \in [Target -> Conclusions] /\ changes' \in 0..MaxChanges
    BY <1>7 DEF Change
  <2> QED
    BY <1>7, <2>1 DEF Change
<1>8. CASE UNCHANGED vars
  BY <1>8 DEF vars
<1> QED
  BY <1>1, <1>2, <1>3, <1>4, <1>5, <1>6, <1>7, <1>8 DEF Next, Loop, Stopped

----------------------------------------------------------------------------
(* The theorems.                                                           *)

\* Every reachable state of a watch satisfies the inductive invariant.
THEOREM Invariant == Spec => []IInv
BY IInvInit, IInvStep, PTL DEF Spec

\* However often it runs, whatever changes in between and whenever the signal
\* comes: the first report with every line since applied to it is what the
\* last run found.
THEOREM ReaderStaysCurrent == Spec => []ReaderIsCurrent
<1>1. IInv => ReaderIsCurrent
  BY DEF IInv, Remembered, ReaderIsCurrent
<1> QED
  BY <1>1, Invariant, PTL

\* A run that the signal spoiled is neither printed, nor written, nor compared
\* with.
THEOREM TaintIsKeptBack == Spec => []NothingTaintedIsSaid
<1>1. IInv => NothingTaintedIsSaid
  BY DEF IInv, Spoiled, NothingTaintedIsSaid
<1> QED
  BY <1>1, Invariant, PTL

\* The state has its types, and the file that was written last says what the
\* screen said.
THEOREM WatchIsKept == Spec => []WatchInv
<1>1. IInv => WatchInv
  BY DEF IInv, WatchInv
<1> QED
  BY <1>1, Invariant, PTL

\* The severity on a line is that of the fall from what the reader was told:
\* the run a tick is compared with is the one he knows.
THEOREM FallsAreTold == Spec => FallsAreGraded
<1>1. IInv /\ [Next]_vars => [\A l \in lines' \ lines : GradedFrom(told[l.target], l)]_vars
  <2>1. SUFFICES ASSUME IInv, [Next]_vars, NEW l \in lines' \ lines
                 PROVE  GradedFrom(told[l.target], l)
    OBVIOUS
  <2>2. PrintMoved
    BY <2>1 DEF Next, Loop, TakeTick, TakeDone, Report, Check, Write, TickerFires, Signal,
       Change, Stopped, vars
  <2>3. /\ l.to = cur[l.target]
        /\ l.status = IF AtLeast(StatusOf(cur[l.target]), StatusOf(prev[l.target]))
                      THEN StatusOf(cur[l.target]) ELSE "OK"
    BY <2>1, <2>2, MovesOnly DEF PrintMoved, IInv, TypeOK
  <2>4. told = prev
    BY <2>1 DEF IInv, Remembered
  <2> QED
    BY <2>3, <2>4 DEF GradedFrom
<1> QED
  BY <1>1, Invariant, PTL DEF Spec, FallsAreGraded
=============================================================================
