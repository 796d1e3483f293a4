------------------------------ MODULE MCCommand ------------------------------
(***************************************************************************)
(* Three trials.  "words" is one day of every short command line over two  *)
(* names and three addresses: every pair of operands, a list and an        *)
(* inventory from a file, the pipe or nowhere, the same endpoint written   *)
(* with and without its port, under two server names and in two groups.    *)
(* "days" is a pair of days, between which the command, the resolver, the  *)
(* endpoints and the routes may change.  "faults" is three days of one     *)
(* endpoint on which anything may be killed or fail.                       *)
(***************************************************************************)
EXTENDS Command

MCLiterals == {"192.0.2.1", "192.0.2.2", "2001:db8::1"}
MCHosts == {"a.example", "b.example"} \cup MCLiterals
MCPorts == {"443", "8443"}
MCV4 == {"192.0.2.1", "192.0.2.2"}

\* As text: "[" comes after the digits and before the letters.
MCOrder == << <<"192.0.2.1", "443">>, <<"192.0.2.1", "8443">>, <<"192.0.2.2", "443">>,
              <<"192.0.2.2", "8443">>, <<"2001:db8::1", "443">>, <<"2001:db8::1", "8443">>,
              <<"a.example", "443">>, <<"a.example", "8443">>,
              <<"b.example", "443">>, <<"b.example", "8443">> >>
MCLess(a, b) ==
  \E i, j \in DOMAIN MCOrder : i < j /\ MCOrder[i] = a /\ MCOrder[j] = b

Word(h, p, s) == [host |-> h, port |-> p, sni |-> s]
A == Word("a.example", "", "")
A443 == Word("a.example", "443", "")
Origin == Word("192.0.2.1", "", "a.example")
Other == Word("192.0.2.1", "", "b.example")
Bad == Word("", "", "")

Line(section, colon, word) == [section |-> section, colon |-> colon, word |-> word]

MCArgs == {<< >>, <<A>>, <<A, Origin>>, <<A443, A>>, <<Bad, Dash>>, <<Dash, A, Dash>>}
MCLists == {File(<< >>), Pipe, File(<<A, Bad, Origin, Other>>)}
MCInventories ==
  { File(<< >>), Pipe,
    File(<<Line("edge", FALSE, A), Line("cdn", FALSE, A), Line("cdn", FALSE, Origin),
           Line("edge", TRUE, Other)>>) }

MCSplitInventories ==
  { File(<<Line("edge", FALSE, A443), Line("cdn", FALSE, A)>>) }

MCStdin == [words |-> <<A443, Other>>, lines |-> <<Line("edge", FALSE, Other)>>]

CommandsWith(inventories) ==
  [args : MCArgs, list : MCLists, inventory : inventories, groups : {{}, {"cdn"}},
   port : {"443", "8443"}, sni : {"", "b.example"}, stdin : {MCStdin},
   perAddress : BOOLEAN, network : {"", "tcp6"}, dns : {""}, baseline : {FALSE},
   render : {"text"}, exitOn : {"BAD"}, textfile : {FALSE}]

Trial(name, faults, commands) == [trial |-> name, faults |-> faults, commands |-> commands]

MCWords == {Trial("words", FALSE, <<c>>) : c \in CommandsWith(MCInventories)}
MCSplit == {Trial("words", FALSE, <<c>>) : c \in CommandsWith(MCSplitInventories)}

\* A command over operands only, compared with the day before.
Probing(args, perAddress, network, exitOn, render) ==
  [args |-> args, list |-> File(<< >>), inventory |-> File(<< >>), groups |-> {},
   port |-> "443", sni |-> "", stdin |-> MCStdin, perAddress |-> perAddress,
   network |-> network, dns |-> IF perAddress THEN "9.9.9.9:53" ELSE "", baseline |-> TRUE,
   render |-> render, exitOn |-> exitOn, textfile |-> FALSE]

Second == Word("192.0.2.2", "", "")
Sixth == Word("2001:db8::1", "", "")

MCDays ==
  LET first == { Probing(<<A>>, TRUE, "", "", "json"), Probing(<<A>>, FALSE, "", "", "wrapped"),
                 Probing(<<Second, Sixth>>, FALSE, "", "", "json"),
                 Probing(<<Second>>, FALSE, "", "", "text"),
                 Probing(<<Second>>, FALSE, "", "", "findings"),
                 Probing(<<>>, FALSE, "", "", "json") }
      second == { Probing(<<A, Sixth>>, TRUE, "", "BAD", "json"),
                  Probing(<<A, Second>>, TRUE, "tcp4", "WARN", "text"),
                  Probing(<<Second, Sixth>>, FALSE, "tcp4", "ERROR", "json"),
                  Probing(<<Second, Sixth>>, FALSE, "", "WARN", "json"),
                  Probing(<<A, Second, Sixth>>, FALSE, "tcp6", "pq-blind", "json"),
                  Probing(<<A>>, FALSE, "", "pq-blond", "json") }
  IN {Trial("days", FALSE, <<x, y>>) : x \in first, y \in second}

MCFaults ==
  LET daily == [Probing(<<Second>>, FALSE, "", "BAD", "json") EXCEPT !.textfile = TRUE]
  IN {Trial("faults", TRUE, <<daily, daily, daily>>)}

\* One name behind two ports, and under the name and its address.
MCTwoPorts ==
  {Trial("days", FALSE, <<Probing(<<A, Word("a.example", "8443", "")>>, TRUE, "", "", "json")>>)}

MCSessions == MCWords \cup MCDays \cup MCFaults

\* What a.example resolves to.
Zone(ips) == [n \in MCHosts \ MCLiterals |-> ips]
MCZones(trial, run_) ==
  IF trial = "words" \/ run_ = 2
  THEN {Zone(<< >>), Zone(<<"192.0.2.1", "192.0.2.2">>), Zone(<<"192.0.2.1", "2001:db8::1">>)}
  ELSE {Zone(<<"192.0.2.1", "2001:db8::1">>)}

World(class, worn, routes) ==
  [class |-> class, routes |-> routes,
   besides |-> [ip \in MCLiterals |->
                  IF ip \in worn THEN {<<"expiry", "BAD">>, <<"chain", "WARN">>} ELSE {}]]

Alike(class) == [ip \in MCLiterals |-> class]

MCWorlds(trial, run_) ==
  CASE trial = "words" -> {World(Alike("pq-ready"), {}, Families)}
    [] trial = "faults" -> {World(Alike(c), {}, Families) : c \in {"pq-ready", "pq-intolerant"}}
    [] trial = "days" /\ run_ = 1 ->
         {World(Alike("pq-ready"), {}, Families),
          World([Alike("pq-blind") EXCEPT !["192.0.2.1"] = "pq-intolerant"], {}, {"tcp4"})}
    [] trial = "days" /\ run_ = 2 ->
         {World(class, {}, routes) : class \in [MCLiterals -> {"pq-ready", "pq-blind", "pq-intolerant"}],
                                     routes \in {Families, {"tcp4"}}}
         \cup {World(Alike("pq-blind"), {"192.0.2.2"}, Families),
               World(Alike("pq-ready"), {}, {"tcp6"}), World(Alike("pq-ready"), {}, {})}

\* Before the first run there is no file, or one it must not mistake for a
\* run, or one of a pqprobe older than the schema.
MCFiles(trial) ==
  LET old == <<[target |-> <<"192.0.2.2", "443", "">>, class |-> "pq-blind"]>>
  IN {Cut} \cup IF trial # "faults" THEN {}
                 ELSE { Stored("object", "another", 0, << >>), Stored("object", "pqprobe", 1, << >>),
                        Stored("object", "pqprobe", 0, old), Stored("object", "pqprobe", 2, old) }
=============================================================================
