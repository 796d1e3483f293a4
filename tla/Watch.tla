-------------------------------- MODULE Watch --------------------------------
(***************************************************************************)
(* --watch: watchLoop re-runs the fleet on a ticker, prints what moved     *)
(* since the run before, rewrites the textfile, and stops on a signal.     *)
(* A run is Fleet's: every endpoint reports once.  The signal may come at  *)
(* any moment; a report made after it may be of dials the cancelled        *)
(* context cut, and is then about this process, not about the endpoint.    *)
(***************************************************************************)
EXTENDS Verdict

CONSTANTS
  Target,
  Conclusions,  \* the classes an endpoint may truly have
  Garbage,      \* the classes a cancelled run may grade it
  MaxChanges    \* times an endpoint changes while it is watched

ASSUME WatchAssumption ==
  /\ Conclusions \subseteq Class /\ Garbage \subseteq Class
  /\ MaxChanges \in Nat

VARIABLES
  truth,      \* what each endpoint really is
  changes,
  pc,         \* where watchLoop is
  tick,       \* the ticker's channel holds a tick
  cancelled,  \* a signal arrived: the context is done
  cur,        \* the reports of the run in progress, or of the last one
  waiting,    \* the endpoints that have not reported in this run yet
  tainted,    \* the endpoints whose report the cancellation spoiled
  prev,       \* the run the next one is compared with
  lines,      \* what the last tick printed
  told,       \* each endpoint's class, as one who reads every line knows it
  file,       \* the textfile's content
  written     \* the last rewrite of it succeeded

vars == <<truth, changes, pc, tick, cancelled, cur, waiting, tainted, prev,
          lines, told, file, written>>

\* The full report has been printed, and perhaps written: every line from
\* here on is read against it.
Init ==
  /\ truth \in [Target -> Conclusions]
  /\ changes = 0
  /\ pc = "select"
  /\ tick = FALSE
  /\ cancelled = FALSE
  /\ cur = truth
  /\ waiting = {}
  /\ tainted = {}
  /\ prev = truth
  /\ lines = {}
  /\ told = truth
  /\ file = truth
  /\ written = TRUE

----------------------------------------------------------------------------
(* watchLoop.                                                              *)

\* The select takes the tick.  If the context is done as well it may take
\* either: Go picks at random.
TakeTick ==
  /\ pc = "select"
  /\ tick
  /\ tick' = FALSE
  /\ pc' = "running"
  /\ waiting' = Target
  /\ tainted' = {}
  /\ UNCHANGED <<truth, changes, cancelled, cur, prev, lines, told,
                 file, written>>

TakeDone ==
  /\ pc = "select"
  /\ cancelled
  /\ pc' = "stopped"
  /\ UNCHANGED <<truth, changes, tick, cancelled, cur, waiting, tainted, prev,
                 lines, told, file, written>>

\* An endpoint reports to the run: what it is, or what the cancelled context
\* made of it.
Report(t) ==
  /\ pc = "running"
  /\ t \in waiting
  /\ waiting' = waiting \ {t}
  /\ \/ cur' = [cur EXCEPT ![t] = truth[t]] /\ UNCHANGED tainted
     \/ /\ cancelled
        /\ \E c \in Garbage : cur' = [cur EXCEPT ![t] = c]
        /\ tainted' = tainted \cup {t}
  /\ UNCHANGED <<truth, changes, pc, tick, cancelled, prev, lines, told,
                 file, written>>

\* Mutant: what a cancelled run found is said like any other.
CheckNothing ==
  /\ pc = "running"
  /\ waiting = {}
  /\ pc' = "print"
  /\ UNCHANGED <<truth, changes, tick, cancelled, cur, waiting, tainted, prev,
                 lines, told, file, written>>

\* run has returned; ctx.Err() is asked before anything is said.
Check ==
  /\ pc = "running"
  /\ waiting = {}
  /\ pc' = IF cancelled THEN "stopped" ELSE "print"
  /\ UNCHANGED <<truth, changes, tick, cancelled, cur, waiting, tainted, prev,
                 lines, told, file, written>>

\* A reader takes each line's word for the endpoint it names.
Read(known, said) ==
  [t \in Target |-> IF \E l \in said : l.target = t
                    THEN (CHOOSE l \in said : l.target = t).to ELSE known[t]]

\* Mutant: every run is compared with the first one.
PrintAgainstFirst ==
  /\ pc = "print"
  /\ lines' = Transitions(prev, cur)
  /\ told' = Read(told, lines')
  /\ pc' = "write"
  /\ UNCHANGED <<truth, changes, tick, cancelled, cur, waiting, tainted, prev,
                 file, written>>

\* watchTick, then prev = cur.
PrintMoved ==
  /\ pc = "print"
  /\ lines' = Transitions(prev, cur)
  /\ told' = Read(told, lines')
  /\ prev' = cur
  /\ pc' = "write"
  /\ UNCHANGED <<truth, changes, tick, cancelled, cur, waiting, tainted, file,
                 written>>

\* Mutant: the file is rewritten only when something moved.
WriteIfMoved ==
  /\ pc = "write"
  /\ \/ file' = (IF lines = {} THEN file ELSE cur) /\ written' = TRUE
     \/ UNCHANGED file /\ written' = FALSE
  /\ pc' = "select"
  /\ UNCHANGED <<truth, changes, tick, cancelled, cur, waiting, tainted, prev,
                 lines, told>>

\* output.Textfile replaces the file or leaves it alone.
Write ==
  /\ pc = "write"
  /\ \/ file' = cur /\ written' = TRUE
     \/ UNCHANGED file /\ written' = FALSE
  /\ pc' = "select"
  /\ UNCHANGED <<truth, changes, tick, cancelled, cur, waiting, tainted, prev,
                 lines, told>>

----------------------------------------------------------------------------
(* The world.                                                              *)

\* The ticker's channel holds one tick; one that finds it full is dropped.
TickerFires ==
  /\ pc # "stopped"
  /\ ~tick
  /\ tick' = TRUE
  /\ UNCHANGED <<truth, changes, pc, cancelled, cur, waiting, tainted, prev,
                 lines, told, file, written>>

Signal ==
  /\ ~cancelled
  /\ pc # "stopped"
  /\ cancelled' = TRUE
  /\ UNCHANGED <<truth, changes, pc, tick, cur, waiting, tainted, prev, lines,
                 told, file, written>>

Change(t, c) ==
  /\ pc # "stopped"
  /\ changes < MaxChanges
  /\ truth[t] # c
  /\ changes' = changes + 1
  /\ truth' = [truth EXCEPT ![t] = c]
  /\ UNCHANGED <<pc, tick, cancelled, cur, waiting, tainted, prev, lines,
                 told, file, written>>

Stopped == pc = "stopped" /\ UNCHANGED vars

Loop == \/ TakeTick \/ TakeDone \/ (\E t \in Target : Report(t))
        \/ Check \/ PrintMoved \/ Write

Next == \/ Loop \/ TickerFires \/ Signal \/ Stopped
        \/ \E t \in Target, c \in Conclusions : Change(t, c)

\* The ticker ticks, and the loop takes the steps it can.  Nothing is asked of
\* the select's coin: a run started on a done context ends the watch as well.
Spec == Init /\ [][Next]_vars /\ WF_vars(TickerFires) /\ WF_vars(Loop)

----------------------------------------------------------------------------
(* Properties.                                                             *)

TypeOK ==
  /\ truth \in [Target -> Conclusions]
  /\ changes \in 0..MaxChanges
  /\ pc \in {"select", "running", "print", "write", "stopped"}
  /\ tick \in BOOLEAN /\ cancelled \in BOOLEAN /\ written \in BOOLEAN
  /\ waiting \subseteq Target /\ tainted \subseteq Target
  /\ cur \in [Target -> Class] /\ prev \in [Target -> Class]
  /\ told \in [Target -> Class] /\ file \in [Target -> Class]
  /\ \A l \in lines : l.target \in Target /\ l.status \in Status

\* Only what moves is printed, so nothing may get lost between the lines:
\* between two ticks, the first report with every line since applied to it is
\* exactly what the last run found.
ReaderIsCurrent == pc = "select" => told = cur

\* What a signal made of a run is never said: not as a line, not in the file,
\* not as the baseline of a comparison.
NothingTaintedIsSaid ==
  tainted # {} => pc \in {"running", "stopped"}

\* The file a scrape reads agrees with the screen, unless it could not be
\* written, in which case it still holds something an earlier run found.
FileIsCurrent == pc = "select" /\ written => file = told

\* The state is well formed, and the file is what the screen said.
WatchInv == TypeOK /\ FileIsCurrent

\* A signal stops the watch.
SignalStops == cancelled ~> pc = "stopped"

\* A change that lasts is told: if nobody stops the watch, the reader ends up
\* knowing what each endpoint is.
ChangesAreTold == <>[](told = truth) \/ <>cancelled

\* A watch ends when it is told to, and is worth reading until then.
WatchIsLive == SignalStops /\ ChangesAreTold

\* A line speaks to who was told the class before it, in however many lines:
\* one that brings a class as bad or worse carries that class's severity, and
\* never an improvement's; one that brings a better class is quiet.
GradedFrom(before, l) ==
  /\ AtLeast(StatusOf(l.to), StatusOf(before)) => l.status = StatusOf(l.to)
  /\ ~AtLeast(StatusOf(l.to), StatusOf(before)) => l.status = "OK"

FallsAreGraded ==
  [][\A l \in lines' \ lines : GradedFrom(told[l.target], l)]_vars
=============================================================================
