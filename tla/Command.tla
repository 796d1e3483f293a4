------------------------------- MODULE Command -------------------------------
(***************************************************************************)
(* pqprobe probe, from the command line to the exit code, and run again    *)
(* the next day: cmdProbe assembles the fleet (Assembly), has it probed,   *)
(* says what is true of the run (Aftermath), compares it with the run      *)
(* before, prints a document and rewrites the metrics file (Textfile).     *)
(* Its standard output is a file, which the next run's --baseline reads.   *)
(* The process may be killed anywhere, and its output may fail.            *)
(***************************************************************************)
EXTENDS Assembly, Aftermath

CONSTANTS
  Sessions,     \* what is run: a sequence of commands, one a day; whether
                \* things fail; and the trial they are part of
  Zones(_, _),  \* what the resolver may know on a day of a trial: a sequence
                \* of addresses per name
  Worlds(_, _), \* what may be out there on a day of a trial
  Files(_),     \* what the first baseline may be
  MaxKills      \* times the process is killed while it rewrites the metrics file

VARIABLES
  session,
  run,        \* the day
  world,      \* what the endpoints are that day, and the prober's routes
  reports,    \* verdict.Report of each endpoint
  saved,      \* the document --baseline names
  complaint,  \* the baseline could not be read, and the operator was told
  last,       \* target and class of every report of the run before
  exit,       \* the exit code, "none" before there is one
  \* writeAtomic's
  step, want, temps, mine, path, before, returned, kills, writes

\* What a run of each day has to say.
Metrics == <<"first", "second", "third">>

\* A session has a command for each of its days, and something to say on each.
ASSUME CommandAssumption ==
  /\ MaxKills \in Nat
  /\ \A s \in Sessions : Len(s.commands) \in 1..Len(Metrics)

\* What may be typed: the operands, what the two flags name, what is on
\* standard input as words and as lines, and the rest of the flags.
CommandLine ==
  [args : Seq(Words \cup {Dash}), list : [piped : BOOLEAN, holds : Seq(Words)],
   inventory : [piped : BOOLEAN, holds : Seq(Lines)], groups : SUBSET STRING,
   stdin : [words : Seq(Words), lines : Seq(Lines)], port : Ports \cup {""},
   sni : Hosts \cup {""}, perAddress : BOOLEAN, network : Families \cup {""},
   dns : STRING, baseline : BOOLEAN, render : {"json", "wrapped", "findings", "text"},
   exitOn : STRING, textfile : BOOLEAN]

\* The checks a run has for itself; the others are of one endpoint.
RunChecks == {"verdict", "addresses", "net", "resolver", "egress", "transition"}

\* What may be out there, as far as the types go; and what a file may hold,
\* whose reports, if it has any, this program wrote: one class per target.
ASSUME WorldAssumption ==
  \A s \in Sessions :
    /\ s.faults \in BOOLEAN /\ s.commands \in Seq(CommandLine)
    /\ \A d \in DOMAIN s.commands :
         /\ Zones(s.trial, d) \subseteq [Hosts \ Literals -> Seq(Literals)]
         /\ \A w \in Worlds(s.trial, d) :
              /\ w.routes \subseteq Families
              /\ w.class \in [Literals -> Class]
              /\ w.besides \in [Literals -> SUBSET ((STRING \ RunChecks) \X Status)]
    /\ \A f \in Files(s.trial) :
         /\ f.form \in {"object", "findings", "text", "cut"}
         /\ f.reports # << >> => f.form = "object" /\ f.tool = "pqprobe"
         /\ f.reports \in Seq([target : Hosts \X Ports \X (Hosts \cup {""}), class : Class])
         /\ \A i, j \in DOMAIN f.reports :
              f.reports[i].target = f.reports[j].target => f.reports[i] = f.reports[j]

T == INSTANCE Textfile WITH Document <- ToSet(Metrics), MaxWrites <- Len(Metrics), pc <- step

metrics == <<step, want, temps, mine, path, before, returned, kills, writes>>
day == <<session, run, world, last>>

Init ==
  /\ session \in Sessions
  /\ run = 1
  /\ cmd = session.commands[1]
  /\ zone \in Zones(session.trial, 1)
  /\ world \in Worlds(session.trial, 1)
  /\ saved \in Files(session.trial)
  /\ pc = "flags" /\ Fresh
  /\ last = {<<saved.reports[i].target, saved.reports[i].class>> : i \in DOMAIN saved.reports}
  /\ reports = << >> /\ complaint = FALSE /\ exit = "none"
  /\ T!Init /\ want = Metrics[1]

\* A flag that means nothing is refused before standard input is touched; the
\* shell has emptied the output.
Flags ==
  /\ pc = "flags"
  /\ IF validExitOn(cmd.exitOn)
     THEN pc' = "operands" /\ UNCHANGED <<saved, exit>>
     ELSE pc' = "over" /\ saved' = Cut /\ exit' = "2"
  /\ UNCHANGED <<assembly, day, reports, complaint, metrics>>

Collect ==
  /\ Assemble
  /\ UNCHANGED <<day, reports, saved, complaint, exit, metrics>>

Usage ==
  /\ pc = "usage"
  /\ pc' = "over" /\ saved' = Cut /\ exit' = "2"
  /\ UNCHANGED <<assembly, day, reports, complaint, metrics>>

----------------------------------------------------------------------------
(* The run.                                                                *)

\* The addresses a dial of the target may try.
Tried(t) ==
  IF t.host \in Literals THEN {t.host}
  ELSE {ip \in ToSet(zone[t.host]) : inFamily(ip, cmd.network)}

Routed(t) == {ip \in Tried(t) : inFamily(ip, cmd.network) /\ Family(ip) \in world.routes}

\* What a day's probe of a target comes to: a name with no address does not
\* resolve; an address this host has no route to, or one the run excludes, is
\* unroutable; of several the resolver chooses.
Seen(t) ==
  IF Routed(t) # {}
  THEN LET ip == CHOOSE ip \in Routed(t) : \A other \in Routed(t) :
                   ip = other \/ Less(<<ip, DefaultPort>>, <<other, DefaultPort>>)
       IN [class |-> world.class[ip], besides |-> world.besides[ip], unroutable |-> FALSE]
  ELSE [class |-> "unreachable", besides |-> {}, unroutable |-> Tried(t) # {}]

Probe ==
  /\ pc = "run"
  /\ reports' = [i \in DOMAIN out |-> ReportOf(out[i], Seen(out[i]))]
  /\ pc' = "annotate"
  /\ UNCHANGED <<assembly, day, saved, complaint, exit, metrics>>

\* addressFindings, netFindings, resolverFindings and egressFindings, which
\* asks the prober for its routes.
Annotate ==
  /\ pc = "annotate"
  /\ LET names == [i \in DOMAIN out |-> ServerName(out[i])]
         pooled == IF cmd.perAddress THEN addressFindings(names, reports) ELSE reports
     IN reports' = egressFindings(resolverFindings(cmd.dns, netFindings(cmd.network, pooled)),
                                  cmd.network, world.routes)
  /\ pc' = "compare"
  /\ UNCHANGED <<assembly, day, saved, complaint, exit, metrics>>

\* The baseline is read after the probe, and a run that cannot compare still
\* says what it found.
Compare ==
  /\ pc = "compare"
  /\ IF cmd.baseline /\ Loads(saved)
     THEN reports' = addTransitions(saved, reports)
     ELSE UNCHANGED reports
  /\ complaint' = (cmd.baseline /\ ~Loads(saved))
  /\ pc' = "render"
  /\ UNCHANGED <<assembly, day, saved, exit, metrics>>

Render ==
  /\ pc = "render"
  /\ saved' = Rendered(cmd.render, reports)
  /\ reports' = IF cmd.render = "text" THEN WorstFirst(reports) ELSE reports
  /\ pc' = IF cmd.textfile THEN "publish" ELSE "exit"
  /\ UNCHANGED <<assembly, day, complaint, exit, metrics>>

\* Standard output is full or closed.
RenderFails ==
  /\ pc = "render"
  /\ session.faults
  /\ saved' = Cut
  /\ pc' = "over" /\ exit' = "2"
  /\ UNCHANGED <<assembly, day, reports, complaint, metrics>>

----------------------------------------------------------------------------
(* The metrics file.                                                       *)

Publish ==
  /\ pc = "publish"
  /\ T!Call(Metrics[run])
  /\ pc' = "publishing"
  /\ UNCHANGED <<assembly, day, reports, saved, complaint, exit>>

\* A step of the rewrite.  Its error is printed and nothing else.
Publishing ==
  /\ pc = "publishing"
  /\ \/ T!CreateTemp \/ T!WriteString \/ T!Close \/ T!Chmod \/ T!Rename \/ T!Return
     \/ session.faults /\ T!Fail
  /\ UNCHANGED <<assembly, pc, day, reports, saved, complaint, exit>>

Published ==
  /\ pc = "publishing"
  /\ step = "idle"
  /\ pc' = "exit"
  /\ UNCHANGED <<assembly, day, reports, saved, complaint, exit, metrics>>

Exit ==
  /\ pc = "exit"
  /\ exit' = IF shouldExit(reports, cmd.exitOn) THEN "1" ELSE "0"
  /\ pc' = "over"
  /\ UNCHANGED <<assembly, day, reports, saved, complaint, metrics>>

----------------------------------------------------------------------------

\* The process is killed; what it had not finished printing is cut short.
Kill ==
  /\ session.faults
  /\ pc # "over"
  /\ saved' = IF pc \in {"publish", "publishing", "exit"} THEN saved ELSE Cut
  /\ pc' = "over" /\ exit' = "killed"
  /\ IF step # "idle" THEN T!Kill ELSE UNCHANGED metrics
  /\ UNCHANGED <<assembly, day, reports, complaint>>

\* The next day: another command, another world.
NextDay ==
  /\ pc = "over"
  /\ run < Len(session.commands)
  /\ run' = run + 1
  /\ cmd' = session.commands[run + 1]
  /\ zone' \in Zones(session.trial, run')
  /\ world' \in Worlds(session.trial, run')
  /\ last' = {<<reports[i].target, reports[i].class>> : i \in DOMAIN reports}
  /\ pc' = "flags" /\ Clear
  /\ reports' = << >> /\ complaint' = FALSE /\ exit' = "none"
  /\ UNCHANGED <<session, saved, metrics>>

Over ==
  /\ pc = "over"
  /\ run = Len(session.commands)
  /\ UNCHANGED <<assembly, pc, day, reports, saved, complaint, exit, metrics>>

Next == \/ Flags \/ Collect \/ Usage \/ Probe \/ Annotate \/ Compare
        \/ Render \/ RenderFails \/ Publish \/ Publishing \/ Published \/ Exit
        \/ Kill \/ NextDay \/ Over

vars == <<assembly, pc, day, reports, saved, complaint, exit, metrics>>

Spec == Init /\ [][Next]_vars

----------------------------------------------------------------------------
(* Properties.                                                             *)

TypeOK ==
  /\ pc \in {"flags", "operands", "list", "inventory", "merge", "expand", "usage", "run",
             "annotate", "compare", "render", "publish", "publishing", "exit", "over"}
  /\ run \in 1..Len(session.commands)
  /\ Dialable
  /\ reports # << >> => DOMAIN reports = DOMAIN out
  /\ \A i \in DOMAIN reports : /\ reports[i].class \in Class
                               /\ \A f \in reports[i].findings : f.status \in Status
  /\ saved.form \in {"object", "findings", "text", "cut"}
  /\ complaint \in BOOLEAN
  /\ exit \in {"none", "0", "1", "2", "killed"}

\* The state is well formed; standard input has one reader; and the metrics
\* file is always whole, its directory tidy, and what writeAtomic returned is
\* what it did, in a run and in the next one.
CommandInv == TypeOK /\ OneReader /\ T!FileInv

\* Over all the runs, killed or not, the metrics file is an atomic register.
KeepsFilePromise == T!KeepsFilePromise

Said(check) ==
  {f \in UNION {reports[i].findings : i \in DOMAIN reports} : f.check = check}

\* Printed, and not yet sorted for a reader.
Compared == pc = "render"

\* The news of a run that compared itself with the one before is exactly what
\* differs, whoever vanished and whatever the document was: each change is on
\* a report of its target, or on the first; where nothing is said and nobody
\* complained, nothing has changed; and a baseline that is not a whole --json
\* run makes no news at all.
NewsIsComplete ==
  Compared =>
    LET now == {<<reports[i].target, reports[i].class>> : i \in DOMAIN reports}
        targets(run_) == {p[1] : p \in run_}
        news(i) == {f \in reports[i].findings : f.check = "transition"}
        ours == saved.reports # << >> /\ saved.schema <= Schema
    IN IF ~cmd.baseline \/ complaint
       THEN Said("transition") = {} /\ (cmd.baseline => ~ours)
       ELSE /\ {f.target : f \in Said("transition")}
                 = {p[1] : p \in (now \ last) \cup (last \ now)}
            /\ \A f \in Said("transition") :
                 /\ f.about[2] = "none" \/ <<f.target, f.about[2]>> \in last
                 /\ f.about[3] = "none" \/ <<f.target, f.about[3]>> \in now
                 /\ f.about[2] = "none" <=> f.target \notin targets(last)
                 /\ f.about[3] = "none" <=> f.target \notin targets(now)
            /\ \A i \in DOMAIN reports : \A f \in news(i) :
                 f.target = reports[i].target \/ (i = 1 /\ f.target \notin targets(now))

\* An endpoint of the baseline that is not in this run.
Vanished ==
  cmd.baseline /\ ~complaint
  /\ \E p \in last : \A i \in DOMAIN out : String(out[i]) # p[1]

\* A run fails its gate for what an endpoint is: its class, something else that
\* was found about it, or that it is gone.  What the run says of itself, of
\* the prober, of a pool or of an improvement neither adds to that nor hides
\* it, and a class is matched alone.
ExitIsEarned ==
  pc = "over" /\ exit \in {"0", "1"} =>
    LET severe(i) == \/ AtLeast(StatusOf(Seen(out[i]).class), cmd.exitOn)
                     \/ \E f \in Seen(out[i]).besides : AtLeast(f[2], cmd.exitOn)
    IN exit = "1" <=>
         \/ cmd.exitOn \in Status
            /\ ((\E i \in DOMAIN out : severe(i)) \/ (Vanished /\ AtLeast("WARN", cmd.exitOn)))
         \/ cmd.exitOn \in Class /\ \E i \in DOMAIN out : Seen(out[i]).class = cmd.exitOn

\* The family everything dialled for the target was in, "" if nobody knows.
OneFamily(t) == IF t.host \in Literals THEN Family(t.host) ELSE cmd.network

\* This host is blamed for the endpoints it could not have reached, whoever
\* they are, and for no others: a family without a route, once, with how many;
\* and their verdicts point there instead of guessing.
EgressIsLocal ==
  Compared =>
    LET cut(f) == {i \in DOMAIN out : /\ OneFamily(out[i]) = f /\ f \notin world.routes
                                      /\ Tried(out[i]) # {}}
        refers(i) == \E f \in reports[i].findings : f.check = "verdict" /\ f.about = <<"egress">>
    IN /\ {<<f.about[1], f.n>> : f \in Said("egress")}
            = {<<f, Cardinality(cut(f))>> : f \in {g \in Families : cut(g) # {}}}
       /\ Cardinality(Said("egress")) = Cardinality({f \in Families : cut(f) # {}})
       /\ \A i \in DOMAIN out : refers(i) <=> \E f \in Families : i \in cut(f)

\* One bad address of a name is said where it is: every name of several
\* endpoints has one line, with how many they are, as severe as the worst of
\* them, on the report of one that is that bad, which it names if they
\* disagree; and a name of one endpoint has none.  They are counted as they are
\* dialled: two addresses on two ports are four.
OddOneIsShown ==
  Compared =>
    LET pool(name) == {i \in DOMAIN out : ServerName(out[i]) = name}
        lines(name) == {l \in (DOMAIN out) \X Said("addresses") :
                          l[2] \in reports[l[1]].findings /\ l[2].target = <<name>>}
    IN \A name \in {ServerName(out[i]) : i \in DOMAIN out} :
         IF cmd.perAddress /\ Cardinality(pool(name)) > 1
         THEN /\ Cardinality(lines(name)) = 1
              /\ \A l \in lines(name) :
                   /\ l[1] \in pool(name)
                   /\ l[2].n = Cardinality(pool(name))
                   /\ l[2].status = StatusOf(reports[l[1]].class)
                   /\ \A i \in pool(name) : AtLeast(l[2].status, StatusOf(reports[i].class))
                   /\ IF \E i \in pool(name) : reports[i].class # reports[l[1]].class
                      THEN l[2].about = <<"disagree", reports[l[1]].target, reports[l[1]].class>>
                      ELSE l[2].about = <<"all", reports[l[1]].class>>
         ELSE lines(name) = {}

=============================================================================
