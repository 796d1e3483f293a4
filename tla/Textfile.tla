------------------------------- MODULE Textfile -------------------------------
(***************************************************************************)
(* writeAtomic, called once by an ordinary run and after every tick by a   *)
(* watch: a temporary file beside the target, filled, closed, made         *)
(* readable and renamed over it, with a deferred removal.  Any step may    *)
(* fail; the process may be killed between any two and started again; and  *)
(* a collector may read the path at any moment.                            *)
(***************************************************************************)
EXTENDS Naturals, FiniteSets

CONSTANTS
  Document,   \* the texts a run may want to publish
  MaxKills,   \* times the process is killed
  MaxWrites   \* rewrites attempted

VARIABLES
  pc,       \* the step of writeAtomic that is next
  want,     \* the body being written
  temps,    \* the temporary files in the directory
  mine,     \* the number of the one this call created, 0 for none
  path,     \* the file at the path
  before,   \* the path as the call found it
  returned, \* what the last finished call returned: "nil", "error", "nothing"
  kills,
  writes

vars == <<pc, want, temps, mine, path, before, returned, kills, writes>>

\* A file: the text it is meant to hold, how much of it is there, and
\* whether the collector, another user, may open it.
File == [text : Document, whole : BOOLEAN, readable : BOOLEAN]

Absent == [text |-> "absent", whole |-> TRUE, readable |-> TRUE]

Init ==
  /\ pc = "idle"
  /\ want \in Document
  /\ temps = {}
  /\ mine = 0
  /\ path = Absent
  /\ before = Absent
  /\ returned = "nothing"
  /\ kills = 0
  /\ writes = 0

\* The temporary file this call works on.
Temp == CHOOSE f \in temps : f.name = mine

Call(d) ==
  /\ pc = "idle"
  /\ writes < MaxWrites
  /\ writes' = writes + 1
  /\ want' = d
  /\ before' = path
  /\ pc' = "create"
  /\ UNCHANGED <<temps, mine, path, returned, kills>>

\* os.CreateTemp: a name nobody has, mode 0600.
CreateTemp ==
  /\ pc = "create"
  /\ mine' = writes
  /\ temps' = temps \cup {[name |-> writes, whole |-> FALSE, readable |-> FALSE]}
  /\ pc' = "write"
  /\ UNCHANGED <<want, path, before, returned, kills, writes>>

Becomes(f) == temps' = (temps \ {Temp}) \cup {f}

WriteString ==
  /\ pc = "write"
  /\ Becomes([Temp EXCEPT !.whole = TRUE])
  /\ pc' = "close"
  /\ UNCHANGED <<want, mine, path, before, returned, kills, writes>>

Close ==
  /\ pc = "close"
  /\ pc' = "chmod"
  /\ UNCHANGED <<want, temps, mine, path, before, returned, kills, writes>>

\* Mutant: the mode CreateTemp gave the file is left as it is.
ChmodForgotten ==
  /\ pc = "chmod"
  /\ pc' = "rename"
  /\ UNCHANGED <<want, temps, mine, path, before, returned, kills, writes>>

Chmod ==
  /\ pc = "chmod"
  /\ Becomes([Temp EXCEPT !.readable = TRUE])
  /\ pc' = "rename"
  /\ UNCHANGED <<want, mine, path, before, returned, kills, writes>>

\* The rename takes the temporary file away with it, so the deferred Remove
\* that follows finds nothing.
Rename ==
  /\ pc = "rename"
  /\ path' = [text |-> want, whole |-> Temp.whole, readable |-> Temp.readable]
  /\ temps' = temps \ {Temp}
  /\ pc' = "return"
  /\ UNCHANGED <<want, mine, before, returned, kills, writes>>

Return ==
  /\ pc = "return"
  /\ returned' = "nil"
  /\ mine' = 0
  /\ pc' = "idle"
  /\ UNCHANGED <<want, temps, path, before, kills, writes>>

\* Mutant: the error is swallowed.
FailSilently ==
  /\ pc \in {"create", "write", "close", "chmod", "rename"}
  /\ temps' = {f \in temps : f.name # mine}
  /\ mine' = 0
  /\ returned' = "nil"
  /\ pc' = "idle"
  /\ UNCHANGED <<want, path, before, kills, writes>>

\* A step fails: the deferred Remove takes the temporary file, if there is
\* one, and the error goes back to the caller, who prints it and goes on.
Fail ==
  /\ pc \in {"create", "write", "close", "chmod", "rename"}
  /\ temps' = {f \in temps : f.name # mine}
  /\ mine' = 0
  /\ returned' = "error"
  /\ pc' = "idle"
  /\ UNCHANGED <<want, path, before, kills, writes>>

\* SIGKILL: nothing deferred runs, and the process comes back later knowing
\* nothing of the call.
Kill ==
  /\ kills < MaxKills
  /\ pc # "idle"
  /\ kills' = kills + 1
  /\ pc' = "idle"
  /\ mine' = 0
  /\ returned' = "nothing"
  /\ UNCHANGED <<want, temps, path, before, writes>>

Next == \/ (\E d \in Document : Call(d))
        \/ CreateTemp \/ WriteString \/ Close \/ Chmod \/ Rename \/ Return
        \/ Fail \/ Kill

Spec == Init /\ [][Next]_vars

----------------------------------------------------------------------------
(* Properties.                                                             *)

TypeOK ==
  /\ pc \in {"idle", "create", "write", "close", "chmod", "rename", "return"}
  /\ want \in Document
  /\ \A f \in temps : /\ f.name \in 1..MaxWrites
                       /\ f.whole \in BOOLEAN /\ f.readable \in BOOLEAN
  /\ mine = 0 <=> pc \in {"idle", "create"}
  /\ pc \in {"write", "close", "chmod", "rename"} =>
       \E f \in temps : f.name = mine
  /\ path \in File \cup {Absent}
  /\ returned \in {"nil", "error", "nothing"}
  /\ kills \in 0..MaxKills /\ writes \in 0..MaxWrites

\* The collector never reads half a document and is never locked out of one,
\* whichever step failed and whenever the process was killed.
AlwaysReadable == path.whole /\ path.readable

\* What a call returns is what it did: an error left the file as the call
\* found it, and nil put the document there.
ReturnIsTrue ==
  pc = "idle" => /\ returned = "error" => path = before
                 /\ returned = "nil" => path.text = want

\* A temporary file is left behind only by a kill, one for each at most, so
\* a watch does not fill the directory however often its writes fail.
NoLitter == pc = "idle" => Cardinality(temps) <= kills

\* The state is well formed, neither the path nor its directory is left in a
\* state somebody has to clean up, and writeAtomic says what it did.
FileInv == TypeOK /\ AlwaysReadable /\ NoLitter /\ ReturnIsTrue

Promise == INSTANCE AtomicFile WITH
             content <- IF path.whole /\ path.readable THEN path.text ELSE "torn"

\* Seen from outside, writeAtomic is an atomic register.
KeepsFilePromise == Promise!Spec
=============================================================================
