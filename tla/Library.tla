------------------------------ MODULE Library ------------------------------
(***************************************************************************)
(* pq.Probe, the runner of the library: the same dials and the same grades *)
(* as run, with other plumbing.  A goroutine per target queues for a slot, *)
(* dials the whole profile list, writes its report, gives the slot back    *)
(* and then offers itself on an unbuffered channel; Probe starts all of    *)
(* them, receives as often, and appends a report for every word it could   *)
(* not parse.                                                              *)
(***************************************************************************)
EXTENDS Kinds, Integers, FiniteSets

CONSTANTS
  Word,         \* what an embedder may name a target by
  Unparsable,   \* the words inventory.Parse refuses
  Fleets,       \* the sequences of words to call Probe with
  Asked,        \* Options.Concurrency
  Fallback,     \* what fewer than one means: 8
  Profile,
  SizeProbe,    \* the profiles of the size sweep
  Sel,          \* the profiles selected and the probes appended, in order
  Endings,      \* the kinds a dial may end with
  Interrupted   \* ... and those it may also end with on a done context

ASSUME LibraryAssumption ==
  /\ Unparsable \subseteq Word
  /\ Fleets \subseteq Seq(Word)
  /\ Asked \in Int /\ Fallback \in Nat \ {0}
  /\ SizeProbe \subseteq Profile
  /\ Sel \in Seq(Profile)
  /\ Endings \subseteq Kind /\ Interrupted \subseteq Kind

VARIABLES
  targets,    \* the words of the call
  valid,      \* the rest of the call is in order
  parsed,     \* those that parse, in order, numbered as the goroutines are
  errs,       \* those that do not
  launched,   \* goroutines started
  sem,        \* slots taken
  pc,         \* where each goroutine is
  results,    \* what each has collected
  received,   \* values received from done
  out,        \* the reports
  cancelled,  \* the caller's context is done
  returned    \* no, an error, or reports

vars == <<targets, valid, parsed, errs, launched, sem, pc, results, received,
          out, cancelled, returned>>
call == <<targets, valid, parsed, errs, cancelled>>

N == Len(parsed)
Target == 1..N

concurrency == IF Asked < 1 THEN Fallback ELSE Asked

Report(word, class, rs) == [word |-> word, class |-> class, results |-> rs]
NoReport == Report("none", "none", << >>)

\* Mutant: a word that does not parse leaves no trace.
AppendNothing(reports, words) == reports

\* A target that was never probed is reported as unreachable.
AppendUnparsed(reports, words) ==
  reports \o [i \in DOMAIN words |-> Report(words[i], "unreachable", << >>)]

\* The words in W, in the order they were given: ParseAll goes through them
\* once and keeps those that parse in one list, and the others in another.
Kept(words, W) ==
  LET kept[i \in 0..Len(words)] ==
        IF i = 0 THEN << >>
        ELSE IF words[i] \in W THEN Append(kept[i - 1], words[i])
             ELSE kept[i - 1]
  IN kept[Len(words)]

Init ==
  /\ targets \in Fleets
  /\ valid \in BOOLEAN
  /\ parsed = Kept(targets, Word \ Unparsable)
  /\ errs = Kept(targets, Unparsable)
  /\ launched = 0 /\ sem = 0 /\ received = 0
  /\ pc = [t \in Target |-> "unborn"]
  /\ results = [t \in Target |-> << >>]
  /\ out = [t \in Target |-> NoReport]
  /\ cancelled = FALSE
  /\ returned = "no"

\* Nothing is dialled, and no report comes back, for a call that is wrong.
Refuse ==
  /\ returned = "no" /\ launched = 0
  /\ targets = << >> \/ parsed = << >> \/ ~valid
  /\ returned' = "error"
  /\ UNCHANGED <<call, launched, sem, pc, results, received, out>>

Accepted == targets # << >> /\ parsed # << >> /\ valid

Launch ==
  /\ Accepted
  /\ launched < N
  /\ launched' = launched + 1
  /\ pc' = [pc EXCEPT ![launched + 1] = "queued"]
  /\ UNCHANGED <<call, sem, results, received, out, returned>>

Free == sem < concurrency

Acquire(t) ==
  /\ pc[t] = "queued"
  /\ Free
  /\ sem' = sem + 1
  /\ pc' = [pc EXCEPT ![t] = "loop"]
  /\ UNCHANGED <<call, launched, results, received, out, returned>>

Dial(t) ==
  /\ pc[t] = "loop"
  /\ Len(results[t]) < Len(Sel)
  /\ pc' = [pc EXCEPT ![t] = "dialing"]
  /\ UNCHANGED <<call, launched, sem, results, received, out, returned>>

Dialled(t, k) ==
  /\ pc[t] = "dialing"
  /\ k \in Endings \/ (cancelled /\ k \in Interrupted)
  /\ results' = [results EXCEPT ![t] =
                   Append(@, [profile |-> Sel[Len(@) + 1], kind |-> k])]
  /\ pc' = [pc EXCEPT ![t] = "loop"]
  /\ UNCHANGED <<call, launched, sem, received, out, returned>>

\* out[i] = convert(verdict.Evaluate(...))
Grade(t) ==
  /\ pc[t] = "loop"
  /\ Len(results[t]) = Len(Sel)
  /\ out' = [out EXCEPT ![t] = Report(parsed[t], "graded", results[t])]
  /\ pc' = [pc EXCEPT ![t] = "deferred"]
  /\ UNCHANGED <<call, launched, sem, results, received, returned>>

\* Mutant: offers itself before the slot is free, and forgets it.
ReleaseNothing(t) ==
  /\ pc[t] = "deferred"
  /\ pc' = [pc EXCEPT ![t] = "sending"]
  /\ UNCHANGED <<call, launched, sem, results, received, out, returned>>

\* The deferred function: <-sem, and then done <- struct{}{}.
Release(t) ==
  /\ pc[t] = "deferred"
  /\ sem' = sem - 1
  /\ pc' = [pc EXCEPT ![t] = "sending"]
  /\ UNCHANGED <<call, launched, results, received, out, returned>>

\* Probe receives, once every goroutine is started.
Meet(t) ==
  /\ pc[t] = "sending"
  /\ launched = N /\ received < N
  /\ received' = received + 1
  /\ pc' = [pc EXCEPT ![t] = "gone"]
  /\ UNCHANGED <<call, launched, sem, results, out, returned>>

\* Mutant: one receive too few.
AllButOneIn == received >= N - 1

AllIn == received = N

\* The words that do not parse are part of the fleet all the same.
Return ==
  /\ Accepted /\ launched = N
  /\ AllIn
  /\ returned = "no"
  /\ out' = AppendUnparsed(out, errs)
  /\ returned' = "reports"
  /\ UNCHANGED <<call, launched, sem, pc, results, received>>

Cancel ==
  /\ ~cancelled /\ returned = "no"
  /\ cancelled' = TRUE
  /\ UNCHANGED <<targets, valid, parsed, errs, launched, sem, pc, results,
                 received, out, returned>>

Over == returned # "no" /\ UNCHANGED vars

Goroutine(t) ==
  \/ Acquire(t) \/ Dial(t) \/ (\E k \in Kind : Dialled(t, k))
  \/ Grade(t) \/ Release(t)

Caller == Refuse \/ Launch \/ Return \/ \E t \in Target : Meet(t)

Next == Caller \/ (\E t \in Target : Goroutine(t)) \/ Cancel \/ Over

\* The scheduler runs whoever can run, and every dial comes back.
Spec == /\ Init /\ [][Next]_vars
        /\ WF_vars(Caller)
        /\ WF_vars(\E t \in Target : Goroutine(t))

----------------------------------------------------------------------------
(* Properties.                                                             *)

Places == {"unborn", "queued", "loop", "dialing", "deferred", "sending", "gone"}

TypeOK ==
  /\ launched \in 0..N /\ received \in 0..N
  /\ sem \in 0..concurrency
  /\ pc \in [Target -> Places]
  /\ \A t \in Target : Len(results[t]) <= Len(Sel)
  /\ returned \in {"no", "error", "reports"}

\* Never more handshakes in flight than the embedder allowed, or than the
\* default if it asked for none.
AtMostConcurrency == Cardinality({t \in Target : pc[t] = "dialing"}) <= concurrency

\* A fleet check that looks complete is: one report for every word of the
\* call, the probed ones in the order they were given, each with the results
\* of its own dials, the ones that did not parse behind them.
Times(w, s) == Cardinality({i \in DOMAIN s : s[i] = w})

NobodyIsDropped ==
  returned = "reports" =>
    LET words == [i \in DOMAIN out |-> out[i].word] IN
    /\ Len(out) = Len(targets)
    /\ \A w \in Word : Times(w, words) = Times(w, targets)
    /\ \A t \in Target : out[t] = Report(parsed[t], "graded", results[t])

\* When Probe returns, nothing it started is still running or blocked, and an
\* error means that nothing was started at all.
NothingIsLeftBehind ==
  returned # "no" =>
    /\ sem = 0
    /\ \A t \in Target : pc[t] = IF returned = "error" THEN "unborn" ELSE "gone"

\* The state is well formed, the bound is kept, and nothing survives the call.
LibraryInv == TypeOK /\ AtMostConcurrency /\ NothingIsLeftBehind

\* A call returns, cancelled or not.
Returns == <>(returned # "no")

----------------------------------------------------------------------------
(* What the documentation says and the code does not do.                   *)

\* "The library and the binary cannot dial different runs from the same
\* request": as in run, no padded hello follows one that went unanswered.
SweepStops ==
  \A t \in Target : \A i, j \in DOMAIN results[t] :
     (i < j /\ {results[t][i].profile, results[t][j].profile} \subseteq SizeProbe)
       => results[t][i].kind = "ok"
=============================================================================
