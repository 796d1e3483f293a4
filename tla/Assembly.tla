------------------------------ MODULE Assembly ------------------------------
(***************************************************************************)
(* From a command line to the list of endpoints that run dials: collect,   *)
(* which gathers the operands, --list and --inventory, hands standard      *)
(* input to at most one of them, puts the default port and the server name *)
(* where they belong and drops what is named twice; and ExpandAddresses,   *)
(* which puts the addresses of a name in its place for --per-address.      *)
(*                                                                         *)
(* A word is what Parse makes of it: a host, a port or "" where none is    *)
(* written, a server name or ""; a word Parse refuses has no host.         *)
(***************************************************************************)
EXTENDS Targets

CONSTANT DefaultPort   \* inventory.DefaultPort

ASSUME PortAssumption == DefaultPort \in Ports

VARIABLES
  cmd,    \* the command line, and what standard input would give its reader
  zone,   \* what the resolver knows
  pc,     \* the source to read next, then merge, expand, run or usage; what
          \* comes before and after is Command's
  taken,  \* who standard input was given to, in turn
  twice,  \* somebody asked for it again
  all,    \* the targets read so far
  out     \* the targets of the run

assembly == <<cmd, zone, taken, twice, all, out>>

----------------------------------------------------------------------------
(* Words, lists and inventories.                                           *)

\* The operand that stands for standard input.
Dash == [host |-> "-", port |-> "", sni |-> ""]

\* What --list or --inventory names: standard input, or a file and its
\* contents, of which there are none without the flag.
Pipe == [piped |-> TRUE, holds |-> << >>]
File(contents) == [piped |-> FALSE, holds |-> contents]

\* What Parse makes of a word, and of a line of an inventory.
Words == [host : Hosts \cup {""}, port : Ports \cup {""}, sni : Hosts \cup {""}]
Lines == [section : STRING, colon : BOOLEAN, word : Words]

Parses(word) == word.host # ""

\* A target, with PortWritten.
Parse(word) ==
  [host |-> word.host, sni |-> word.sni, written |-> word.port # "",
   port |-> IF word.port = "" THEN DefaultPort ELSE word.port]

ParseAll(words) ==
  LET good == At(words, {i \in DOMAIN words : Parses(words[i])})
  IN [i \in DOMAIN good |-> Parse(good[i])]

ReadList(words) == ParseAll(words)

\* An inventory's lines have their section; the word of a line is its
\* ansible_host where it has one.  Variables and children are not hosts.
Wanted(groups, line) ==
  ~line.colon /\ (groups = {} \/ line.section \in groups)

Collapse(ts) ==
  LET last(a) == CHOOSE i \in DOMAIN ts :
                   Addr(ts[i]) = a /\ \A j \in DOMAIN ts : Addr(ts[j]) = a => j <= i
      addrs == {Addr(ts[i]) : i \in DOMAIN ts}
      at == InOrder(addrs, {p \in addrs \X addrs : Less(p[1], p[2])})
  IN [n \in DOMAIN at |-> ts[last(at[n])]]

\* Of the lines at one address the last one stands; the addresses are sorted.
ReadAnsibleINI(lines, groups) ==
  LET kept == At(lines, {i \in DOMAIN lines : Wanted(groups, lines[i])})
  IN Collapse(ParseAll([i \in DOMAIN kept |-> kept[i].word]))

----------------------------------------------------------------------------
(* collect.                                                                *)

\* What a source that wants standard input gets: the stream, once.
Claim(who) ==
  /\ taken' = IF taken = << >> THEN <<who>> ELSE taken
  /\ twice' = (twice \/ taken # << >>)

\* Each `-` among the operands claims it; the list it holds goes in front of
\* the words, which are parsed together.
ReadOperands ==
  /\ pc = "operands"
  /\ LET dashes == Cardinality({i \in DOMAIN cmd.args : cmd.args[i] = Dash})
         words == At(cmd.args, {i \in DOMAIN cmd.args : cmd.args[i] # Dash})
     IN /\ taken' = IF dashes > 0 THEN <<"operand">> ELSE << >>
        /\ twice' = (dashes > 1)
        /\ all' = (IF dashes > 0 THEN ReadList(cmd.stdin.words) ELSE << >>)
                  \o ParseAll(words)
  /\ pc' = "list"
  /\ UNCHANGED <<cmd, zone, out>>

\* Mutant: takes standard input without asking whether it is taken.
ReadListAnyway ==
  /\ pc = "list"
  /\ IF cmd.list.piped
     THEN taken' = Append(taken, "list") /\ all' = all \o ReadList(cmd.stdin.words)
     ELSE all' = all \o ReadList(cmd.list.holds) /\ UNCHANGED taken
  /\ pc' = "inventory"
  /\ UNCHANGED <<cmd, zone, twice, out>>

ReadListFlag ==
  /\ pc = "list"
  /\ IF cmd.list.piped
     THEN /\ Claim("list")
          /\ all' = IF taken = << >> THEN all \o ReadList(cmd.stdin.words) ELSE all
     ELSE all' = all \o ReadList(cmd.list.holds) /\ UNCHANGED <<taken, twice>>
  /\ pc' = "inventory"
  /\ UNCHANGED <<cmd, zone, out>>

ReadInventory ==
  /\ pc = "inventory"
  /\ IF cmd.inventory.piped
     THEN /\ Claim("inventory")
          /\ all' = IF taken = << >>
                    THEN all \o ReadAnsibleINI(cmd.stdin.lines, cmd.groups)
                    ELSE all
     ELSE /\ all' = all \o ReadAnsibleINI(cmd.inventory.holds, cmd.groups)
          /\ UNCHANGED <<taken, twice>>
  /\ pc' = "merge"
  /\ UNCHANGED <<cmd, zone, out>>

\* Mutant: --port replaces every port.
OverrideAlways(t) ==
  [t EXCEPT !.port = IF cmd.port # "" THEN cmd.port ELSE @,
            !.sni  = IF cmd.sni # "" THEN cmd.sni ELSE @]

\* --port is for targets written without one, --sni is for all of them.
Override(t) ==
  [t EXCEPT !.port = IF cmd.port # "" /\ ~t.written THEN cmd.port ELSE @,
            !.sni  = IF cmd.sni # "" THEN cmd.sni ELSE @]

Key(t) == <<Addr(t), t.sni>>

\* The first target of each key.
Deduplicated(ts) ==
  At(ts, {i \in DOMAIN ts : \A j \in 1..(i - 1) : Key(ts[j]) # Key(ts[i])})

\* By address, and in the order they came where that is the same.
Sorted(ts) ==
  LET Before(i, j) == \/ Less(Addr(ts[i]), Addr(ts[j]))
                      \/ Addr(ts[i]) = Addr(ts[j]) /\ i < j
      at == InOrder(DOMAIN ts, {p \in (DOMAIN ts) \X DOMAIN ts : Before(p[1], p[2])})
  IN [n \in DOMAIN at |-> ts[at[n]]]

Merge ==
  /\ pc = "merge"
  /\ out' = Sorted(Deduplicated([i \in DOMAIN all |-> Override(all[i])]))
  /\ pc' = IF twice \/ out' = << >> THEN "usage"
           ELSE IF cmd.perAddress THEN "expand" ELSE "run"
  /\ UNCHANGED <<cmd, zone, taken, twice, all>>

----------------------------------------------------------------------------
(* ExpandAddresses.                                                        *)

\* Mutant: a name with nothing in the family of the run yields nothing.
ExpandDropping(t) ==
  LET ips == zone[t.host]
      kept == At(ips, {i \in DOMAIN ips : inFamily(ips[i], cmd.network)})
  IN IF t.host \in Literals THEN <<t>>
     ELSE [i \in DOMAIN kept |-> [t EXCEPT !.host = kept[i], !.sni = ServerName(t),
                                           !.written = FALSE]]

\* A name with no address, or none in the family of the run, stays.
Expand(t) ==
  LET ips == zone[t.host]
      kept == At(ips, {i \in DOMAIN ips : inFamily(ips[i], cmd.network)})
  IN IF t.host \in Literals \/ kept = << >> THEN <<t>>
     ELSE [i \in DOMAIN kept |-> [t EXCEPT !.host = kept[i], !.sni = ServerName(t),
                                           !.written = FALSE]]

ExpandAddresses ==
  /\ pc = "expand"
  /\ out' = FlattenSeq([i \in DOMAIN out |-> Expand(out[i])])
  /\ pc' = "run"
  /\ UNCHANGED <<cmd, zone, taken, twice, all>>

\* Nothing has been read.
Fresh ==
  /\ taken = << >> /\ twice = FALSE
  /\ all = << >> /\ out = << >>

\* ... or the next command starts.
Clear ==
  /\ taken' = << >> /\ twice' = FALSE
  /\ all' = << >> /\ out' = << >>

Assemble ==
  ReadOperands \/ ReadListFlag \/ ReadInventory \/ Merge \/ ExpandAddresses

----------------------------------------------------------------------------
(* Properties.                                                             *)

WordsOf(source, whole) ==
  IF source.piped THEN ToSet(whole) ELSE ToSet(source.holds)

\* The words of the command line and the sources it names that somebody
\* wrote outside an inventory, and those of the inventory's wanted hosts.
Written ==
  (ToSet(cmd.args) \ {Dash}) \cup WordsOf(cmd.list, cmd.stdin.words) \cup
  IF Dash \in ToSet(cmd.args) THEN ToSet(cmd.stdin.words) ELSE {}

Hosted == {l.word : l \in {m \in WordsOf(cmd.inventory, cmd.stdin.lines) :
                             Wanted(cmd.groups, m)}}

\* The endpoint a word means: its own port or else --port or else 443, and
\* the server name of the command or else its own.
Meant(w) ==
  [host |-> w.host,
   port |-> IF w.port # "" THEN w.port ELSE IF cmd.port # "" THEN cmd.port ELSE DefaultPort,
   sni  |-> IF cmd.sni # "" THEN cmd.sni ELSE w.sni]

Dialled(w, ts) == \E i \in DOMAIN ts : <<ts[i].host, ts[i].port, ts[i].sni>> =
                                        <<w.host, w.port, w.sni>>

\* collect has returned, and nothing has been expanded.
Collected == pc = IF cmd.perAddress THEN "expand" ELSE "run"

\* The fleet is what was named: every word that parses is dialled as what it
\* means, every host of the wanted groups is dialled somewhere, nobody is
\* dialled who was not named, and nobody twice.
FleetIsWhatWasNamed ==
  Collected =>
    /\ \A w \in Written : Parses(w) => Dialled(Meant(w), out)
    /\ \A w \in Hosted : Parses(w) => \E i \in DOMAIN out : out[i].host = w.host
    /\ \A i \in DOMAIN out : \E w \in Written \cup Hosted :
          Parses(w) /\ Dialled(Meant(w), <<out[i]>>)
    /\ \A i, j \in DOMAIN out : Key(out[i]) = Key(out[j]) => i = j

\* A command that wants standard input twice probes nothing: two readers
\* would each have part of the fleet, and the run would look complete.
OneReader ==
  /\ Len(taken) <= 1
  /\ pc \in {"expand", "run"} => ~twice

\* What may take a target's place: itself, or one of its addresses.
Stands(new, t) ==
  /\ ServerName(new) = ServerName(t) /\ new.port = t.port
  /\ \/ new.host = t.host
     \/ /\ t.host \notin Literals
        /\ new.host \in ToSet(zone[t.host]) /\ inFamily(new.host, cmd.network)

\* No endpoint disappears because its name was expanded, none appears that
\* nobody named, and what takes its place asks for the same server name.
NothingVanishes ==
  [][pc = "expand" =>
       /\ \A i \in DOMAIN out  : \E j \in DOMAIN out' : Stands(out'[j], out[i])
       /\ \A j \in DOMAIN out' : \E i \in DOMAIN out  : Stands(out'[j], out[i])]_assembly

\* What is dialled has a host and a port.
Dialable == \A i \in DOMAIN out : Parses(out[i]) /\ out[i].port # ""

----------------------------------------------------------------------------
(* What the documentation says and the code does not do.                   *)

\* "--port N: default port for targets written without one": a host that was
\* written with its port is dialled there, in an inventory too.
WrittenPortsStand ==
  Collected =>
    \A w \in Hosted : Parses(w) /\ w.port # "" =>
       \E i \in DOMAIN out : Addr(out[i]) = <<w.host, w.port>>
=============================================================================
