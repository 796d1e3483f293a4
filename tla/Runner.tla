------------------------------- MODULE Runner -------------------------------
(***************************************************************************)
(* run in cmd/pqprobe: one goroutine per target, a channel of `concurrency`*)
(* slots they queue for, the profiles of one endpoint dialled in sequence, *)
(* and a WaitGroup the caller waits on.  A dial is one DoConfirmed: it     *)
(* returns (Dialer shows that), with a kind; once the caller's context is  *)
(* done that may be the kind of the caller's own cancellation.             *)
(***************************************************************************)
EXTENDS Kinds, Integers, FiniteSets

CONSTANTS
  N,            \* targets are numbered 1..N
  Concurrency,  \* the number asked for
  Profile,
  SizeProbe,    \* the profiles of the size sweep
  Plan,         \* profilesFor: the profiles of each target, in order
  Endings,      \* the kinds a dial may end with
  Interrupted   \* ... and those it may also end with on a done context

Target == 1..N

ASSUME RunnerAssumption ==
  /\ N \in Nat
  /\ Concurrency \in Int
  /\ SizeProbe \subseteq Profile
  /\ Plan \in [Target -> Seq(Profile)]
  /\ Endings \subseteq Kind
  /\ Interrupted \subseteq Kind

\* The slots of the semaphore: a channel of no slots would take nobody.
Slots == IF Concurrency < 1 THEN 1 ELSE Concurrency

VARIABLES
  launched,  \* goroutines started so far; they start in target order
  wg,        \* the WaitGroup's counter
  sem,       \* slots taken
  pc,        \* where each goroutine is
  next,      \* each goroutine's place in its plan
  stopped,   \* sweepStopped
  results,   \* what each goroutine has collected
  reps,      \* the reports
  cancelled, \* the caller's context is done
  returned   \* run has returned

vars == <<launched, wg, sem, pc, next, stopped, results, reps, cancelled,
          returned>>

Entries == [profile : Profile, kind : Kind]
Reports == [target : 0..N, results : Seq(Entries)]

NoReport == [target |-> 0, results |-> << >>]

Init ==
  /\ launched = 0
  /\ wg = 0
  /\ sem = 0
  /\ pc = [t \in Target |-> "unborn"]
  /\ next = [t \in Target |-> 1]
  /\ stopped = [t \in Target |-> FALSE]
  /\ results = [t \in Target |-> << >>]
  /\ reps = [t \in Target |-> NoReport]
  /\ cancelled = FALSE
  /\ returned = FALSE

----------------------------------------------------------------------------

\* Mutant: go without wg.Add(1).
LaunchUncounted ==
  /\ launched < N
  /\ launched' = launched + 1
  /\ pc' = [pc EXCEPT ![launched + 1] = "queued"]
  /\ UNCHANGED <<wg, sem, next, stopped, results, reps, cancelled, returned>>

\* wg.Add(1), then go.
Launch ==
  /\ launched < N
  /\ launched' = launched + 1
  /\ wg' = wg + 1
  /\ pc' = [pc EXCEPT ![launched + 1] = "queued"]
  /\ UNCHANGED <<sem, next, stopped, results, reps, cancelled, returned>>

\* Mutant: one slot too many.
FreeOffByOne == sem <= Slots

Free == sem < Slots

\* sem <- struct{}{}: blocks while every slot is taken, and does not look at
\* the context.
Acquire(t) ==
  /\ pc[t] = "queued"
  /\ Free
  /\ sem' = sem + 1
  /\ pc' = [pc EXCEPT ![t] = "loop"]
  /\ UNCHANGED <<launched, wg, next, stopped, results, reps, cancelled,
                 returned>>

InLoop(t) == pc[t] = "loop" /\ next[t] <= Len(Plan[t])

Current(t) == Plan[t][next[t]]

\* Mutant: a stopped sweep stops the endpoint.
SkippedAll(t) == stopped[t]

Skipped(t) == stopped[t] /\ Current(t) \in SizeProbe

SkipSize(t) ==
  /\ InLoop(t)
  /\ Skipped(t)
  /\ next' = [next EXCEPT ![t] = @ + 1]
  /\ UNCHANGED <<launched, wg, sem, pc, stopped, results, reps, cancelled,
                 returned>>

\* DoConfirmed is called ...
Dial(t) ==
  /\ InLoop(t)
  /\ ~Skipped(t)
  /\ pc' = [pc EXCEPT ![t] = "dialing"]
  /\ UNCHANGED <<launched, wg, sem, next, stopped, results, reps, cancelled,
                 returned>>

Stops(t, k) == Current(t) \in SizeProbe /\ k # "ok"

\* ... and returns.
Dialled(t, k) ==
  /\ pc[t] = "dialing"
  /\ k \in Endings \/ (cancelled /\ k \in Interrupted)
  /\ results' = [results EXCEPT ![t] =
                   Append(@, [profile |-> Current(t), kind |-> k])]
  /\ stopped' = [stopped EXCEPT ![t] = @ \/ Stops(t, k)]
  /\ next' = [next EXCEPT ![t] = @ + 1]
  /\ pc' = [pc EXCEPT ![t] = "loop"]
  /\ UNCHANGED <<launched, wg, sem, reps, cancelled, returned>>

\* Mutant: the goroutine writes at the loop's index, not at its own.
ReportAtLoopIndex(t) ==
  /\ pc[t] = "loop"
  /\ next[t] > Len(Plan[t])
  /\ reps' = [reps EXCEPT ![launched] = [target |-> t, results |-> results[t]]]
  /\ pc' = [pc EXCEPT ![t] = "releasing"]
  /\ UNCHANGED <<launched, wg, sem, next, stopped, results, cancelled,
                 returned>>

\* reps[i] = verdict.Evaluate(...)
Report(t) ==
  /\ pc[t] = "loop"
  /\ next[t] > Len(Plan[t])
  /\ reps' = [reps EXCEPT ![t] = [target |-> t, results |-> results[t]]]
  /\ pc' = [pc EXCEPT ![t] = "releasing"]
  /\ UNCHANGED <<launched, wg, sem, next, stopped, results, cancelled,
                 returned>>

\* The deferred calls, last one first: <-sem, then wg.Done().
Release(t) ==
  /\ pc[t] = "releasing"
  /\ sem' = sem - 1
  /\ pc' = [pc EXCEPT ![t] = "exiting"]
  /\ UNCHANGED <<launched, wg, next, stopped, results, reps, cancelled,
                 returned>>

Done(t) ==
  /\ pc[t] = "exiting"
  /\ wg' = wg - 1
  /\ pc' = [pc EXCEPT ![t] = "gone"]
  /\ UNCHANGED <<launched, sem, next, stopped, results, reps, cancelled,
                 returned>>

\* wg.Wait() returns, and so does run.
Return ==
  /\ launched = N
  /\ wg = 0
  /\ ~returned
  /\ returned' = TRUE
  /\ UNCHANGED <<launched, wg, sem, pc, next, stopped, results, reps,
                 cancelled>>

Cancel ==
  /\ ~cancelled
  /\ ~returned
  /\ cancelled' = TRUE
  /\ UNCHANGED <<launched, wg, sem, pc, next, stopped, results, reps,
                 returned>>

Over == returned /\ UNCHANGED vars

Goroutine(t) ==
  \/ Acquire(t) \/ SkipSize(t) \/ Dial(t) \/ (\E k \in Kind : Dialled(t, k))
  \/ Report(t) \/ Release(t) \/ Done(t)

Next == \/ Launch \/ (\E t \in Target : Goroutine(t)) \/ Return
        \/ Cancel \/ Over

\* The Go scheduler runs every goroutine that can run, and every dial comes
\* back because Dialer's attempt returns.
Spec == /\ Init /\ [][Next]_vars
        /\ WF_vars(Launch) /\ WF_vars(Return)
        /\ \A t \in Target : WF_vars(Goroutine(t))

----------------------------------------------------------------------------
(* Properties.                                                             *)

Places == {"unborn", "queued", "loop", "dialing", "releasing", "exiting",
           "gone"}

TypeOK ==
  /\ launched \in 0..N
  /\ wg \in 0..N
  /\ sem \in 0..Slots
  /\ pc \in [Target -> Places]
  /\ next \in [Target -> Nat \ {0}]
  /\ stopped \in [Target -> BOOLEAN]
  /\ results \in [Target -> Seq(Entries)]
  /\ reps \in [Target -> Reports]
  /\ cancelled \in BOOLEAN
  /\ returned \in BOOLEAN

\* --concurrency is a promise to other people's networks: never more
\* handshakes in flight than it says.
Dialing == {t \in Target : pc[t] = "dialing"}

AtMostConcurrency == Cardinality(Dialing) <= Slots

\* When run returns nothing is still running: no goroutine writes a report
\* behind the caller's back, no slot is lost, and the report at a target's
\* index is that target's, with everything it collected.
NothingOutlivesTheRun ==
  returned => /\ \A t \in Target : /\ pc[t] = "gone"
                                   /\ reps[t] = [target |-> t,
                                                 results |-> results[t]]
              /\ sem = 0

\* Once a padded hello has gone unanswered, no padded hello follows it ...
SweepStops ==
  \A t \in Target : \A i, j \in DOMAIN results[t] :
     (i < j /\ results[t][i].profile \in SizeProbe
            /\ results[t][j].profile \in SizeProbe)
       => results[t][i].kind = "ok"

\* ... and nothing else goes missing: a finished endpoint has the results of
\* its plan, in its order, less the sizes after the one that failed.
Answered(t, p) == \E i \in DOMAIN results[t] : results[t][i].profile = p

NothingElseIsSkipped ==
  \A t \in Target : next[t] > Len(Plan[t]) =>
     \A i \in DOMAIN Plan[t] :
        \/ Answered(t, Plan[t][i])
        \/ /\ Plan[t][i] \in SizeProbe
           /\ \E j \in 1..(i - 1) :
                /\ Plan[t][j] \in SizeProbe
                /\ \E n \in DOMAIN results[t] :
                     results[t][n].profile = Plan[t][j] /\ results[t][n].kind # "ok"

\* What a finished endpoint was not sent is what its sweep made pointless,
\* all of it and only that.
SweepIsExact == SweepStops /\ NothingElseIsSkipped

\* The endpoints in hand, and the ones whose report is in.
Busy == {t \in Target : pc[t] \in {"loop", "dialing"}}
Reported == {t \in Target : reps[t] # NoReport}

Promise == INSTANCE Fleet WITH
             Concurrency <- Slots, busy <- Busy, reported <- Reported

\* The goroutines, the slots and the WaitGroup implement Fleet, its promise
\* to return included, cancelled or not.
KeepsFleetPromise == Promise!Spec
=============================================================================
