------------------------------ MODULE Aftermath ------------------------------
(***************************************************************************)
(* What a run makes of its reports once every endpoint has been graded:    *)
(* the findings that are about several endpoints, the prober or the run    *)
(* before, and whether the command fails for it.                           *)
(*                                                                         *)
(* A report's findings are a set; the order they are printed in, and the   *)
(* sort that puts it right after each addition, are layout.                *)
(***************************************************************************)
EXTENDS Targets, Verdict

\* `about` is what a finding says, as far as anybody acts on it, and `n` the
\* number it carries.
Finding(check, target, status, about, n) ==
  [check |-> check, target |-> target, status |-> status, about |-> about, n |-> n]

\* What Evaluate returns for a target.  The findings besides the verdict, from
\* the attempts, the measurements and the certificate, are a set of checks and
\* severities.  A verdict on an endpoint there is no route to guesses at why.
ReportOf(t, seen) ==
  [target |-> String(t), class |-> seen.class, unroutable |-> seen.unroutable,
   findings |->
     {Finding("verdict", String(t), StatusOf(seen.class),
              IF seen.unroutable THEN <<"guess">> ELSE << >>, 0)}
     \cup {Finding(f[1], String(t), f[2], << >>, 0) : f \in seen.besides}]

Worst(report) ==
  CHOOSE s \in {"OK"} \cup {f.status : f \in report.findings} :
    \A f \in report.findings : AtLeast(s, f.status)

\* The reports with what is added to each.
Filed(reports, added) ==
  [i \in DOMAIN reports |-> [reports[i] EXCEPT !.findings = @ \cup added[i]]]

----------------------------------------------------------------------------
(* The addresses of one name.                                              *)

\* The first of a group whose class is as severe as any.
worst(group) ==
  CHOOSE i \in DOMAIN group :
    \A j \in DOMAIN group :
      /\ AtLeast(StatusOf(group[i].class), StatusOf(group[j].class))
      /\ j < i => StatusOf(group[j].class) # StatusOf(group[i].class)

AddressConsistency(name, group) ==
  LET class == group[worst(group)].class
      agree == \A i \in DOMAIN group : group[i].class = class
  IN Finding("addresses", <<name>>, StatusOf(class),
             IF agree THEN <<"all", class>>
             ELSE <<"disagree", group[worst(group)].target, class>>,
             Len(group))

\* Mutant: files at the place in the group, not at the place in the run.
addressFindingsByPlace(names, reports) ==
  LET at(name)    == {i \in DOMAIN names : names[i] = name}
      of(name)    == At([i \in DOMAIN names |-> i], at(name))
      group(name) == At(reports, at(name))
      pools       == {name \in ToSet(names) : Len(of(name)) > 1}
      added       == [i \in DOMAIN reports |->
                        {AddressConsistency(name, group(name)) :
                           name \in {p \in pools : worst(group(p)) = i}}]
  IN Filed(reports, added)

\* The reports that ask for one server name are its pool; a pool of one says
\* nothing.
addressFindings(names, reports) ==
  LET at(name)    == {i \in DOMAIN names : names[i] = name}
      of(name)    == At([i \in DOMAIN names |-> i], at(name))
      group(name) == At(reports, at(name))
      pools       == {name \in ToSet(names) : Len(of(name)) > 1}
      added       == [i \in DOMAIN reports |->
                        {AddressConsistency(name, group(name)) :
                           name \in {p \in pools : of(p)[worst(group(p))] = i}}]
  IN Filed(reports, added)

----------------------------------------------------------------------------
(* What is true of the run and not of an endpoint.                         *)

netFindings(network, reports) ==
  LET added == [i \in DOMAIN reports |->
                  IF network = "" THEN {}
                  ELSE {Finding("net", reports[i].target, "OK", <<network>>, 0)}]
  IN Filed(reports, added)

resolverFindings(at, reports) ==
  LET added == [i \in DOMAIN reports |->
                  IF at = "" \/ i # 1 THEN {}
                  ELSE {Finding("resolver", reports[1].target, "OK", <<at>>, 0)}]
  IN Filed(reports, added)

\* Mutant: the pinned family is blamed even for an address of the other one.
familyPinned(report, pinned) ==
  IF pinned = "" /\ report.target[1] \in Literals THEN Family(report.target[1]) ELSE pinned

\* The family an address literal is in, or else the one the run is pinned to,
\* which may be none.
familyOf(report, pinned) ==
  IF report.target[1] \in Literals THEN Family(report.target[1]) ELSE pinned

affected(reports, pinned, network) ==
  {i \in DOMAIN reports : reports[i].unroutable /\ familyOf(reports[i], pinned) = network}

\* Once for each family that endpoints failed for and this host has no route
\* for; those endpoints' verdicts then refer to it.
egressFindings(reports, pinned, routes) ==
  LET at(network) == affected(reports, pinned, network)
      missing     == {f \in Families \ routes : at(f) # {}}
      refers(i)   == {f \in missing : i \in at(f)}
      hint(f, i)  == IF f.check = "verdict" /\ refers(i) # {}
                     THEN [f EXCEPT !.about = <<"egress">>] ELSE f
      said(i)     == {Finding("egress", reports[i].target, "ERROR", <<f>>, Cardinality(at(f))) :
                        f \in {m \in missing : i = MinOf(at(m))}}
  IN [i \in DOMAIN reports |->
        [reports[i] EXCEPT !.findings = {hint(f, i) : f \in @} \cup said(i)]]

----------------------------------------------------------------------------
(* The run before.                                                         *)

Schema == 1

\* What a file may hold: a --json run, of which Transitions reads the target
\* and the class of each report; one of the other renderings of a run; or the
\* beginning of a document whose writer was stopped.
Stored(form, tool, schema, reports) ==
  [form |-> form, tool |-> tool, schema |-> schema,
   reports |-> [i \in DOMAIN reports |->
                  [target |-> reports[i].target, class |-> reports[i].class]]]

Cut == Stored("cut", "", 0, << >>)

\* What a renderer writes.  The wrapped findings are an object too: read as a
\* run it is one without a tool or reports.
Rendered(form, reports) ==
  IF form = "json" THEN Stored("object", "pqprobe", Schema, reports)
  ELSE IF form = "wrapped" THEN Stored("object", "", Schema, << >>)
  ELSE Stored(form, "", 0, << >>)

\* Mutant: any object is a run.
LoadsAnyObject(doc) == doc.form = "object"

\* LoadReports returns the reports and no error.
Loads(doc) ==
  /\ doc.form = "object"
  /\ doc.schema <= Schema
  /\ doc.tool = "pqprobe"
  /\ doc.reports # << >>

\* The classes of a run by target; of a target that comes twice, the last.
byTarget(reports) ==
  [t \in {reports[i].target : i \in DOMAIN reports} |->
     reports[MaxOf({i \in DOMAIN reports : reports[i].target = t})].class]

\* What Transitions says of two runs: each report is compared, so of a target
\* that comes twice both of its classes are.
News(old, reports) ==
  LET now(i) == [byTarget(reports) EXCEPT ![reports[i].target] = reports[i].class]
  IN UNION {{Finding("transition", t.target, t.status, <<t.event, t.from, t.to>>, 0) :
               t \in Transitions(byTarget(old), now(i))} : i \in DOMAIN reports}

\* Mutant: what has no report of its own is not filed.
addTransitionsUnfiled(doc, reports) ==
  LET of(f) == {i \in DOMAIN reports : reports[i].target = f.target}
      added == [i \in DOMAIN reports |->
                  {f \in News(doc.reports, reports) : of(f) # {} /\ MaxOf(of(f)) = i}]
  IN Filed(reports, added)

\* Each transition goes on the last report of its target, and on the first of
\* the run where there is none.
addTransitions(doc, reports) ==
  LET of(f) == {i \in DOMAIN reports : reports[i].target = f.target}
      at(f) == IF of(f) = {} THEN 1 ELSE MaxOf(of(f))
      added == [i \in DOMAIN reports |-> {f \in News(doc.reports, reports) : at(f) = i}]
  IN Filed(reports, added)

----------------------------------------------------------------------------
(* The exit code.                                                          *)

validExitOn(s) == s \in {""} \cup Status \cup Class

\* Mutant: the class decides, whatever else a report says.
shouldExitByClass(reports, exitOn) ==
  \/ exitOn \in Status /\ \E i \in DOMAIN reports : AtLeast(StatusOf(reports[i].class), exitOn)
  \/ exitOn \in Class  /\ \E i \in DOMAIN reports : reports[i].class = exitOn

\* A status is a threshold, a class is exact.
shouldExit(reports, exitOn) ==
  \/ exitOn \in Status /\ \E i \in DOMAIN reports : AtLeast(Worst(reports[i]), exitOn)
  \/ exitOn \in Class  /\ \E i \in DOMAIN reports : reports[i].class = exitOn

\* Text puts the worst endpoint first, and leaves them that way.  (Two server
\* names at one address keep their order here.)
WorstFirst(reports) ==
  LET Before(i, j) ==
        LET a == Rank(Worst(reports[i]))
            b == Rank(Worst(reports[j]))
            s == SubSeq(reports[i].target, 1, 2)
            t == SubSeq(reports[j].target, 1, 2)
        IN \/ a > b
           \/ a = b /\ Less(s, t)
           \/ a = b /\ s = t /\ i < j
      places == DOMAIN reports
      at == InOrder(places, {p \in places \X places : Before(p[1], p[2])})
  IN [n \in DOMAIN at |-> reports[at[n]]]
=============================================================================
