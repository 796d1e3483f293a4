------------------------------ MODULE AtomicFile ------------------------------
(***************************************************************************)
(* What output.Textfile promises the collector that scrapes the file: at   *)
(* every moment the path holds nothing yet or one whole document, and a    *)
(* rewrite changes it in one step or not at all.                           *)
(***************************************************************************)
CONSTANT Document

VARIABLE content

Init == content = "absent"

Replace(d) == content' = d

Next == \E d \in Document : Replace(d)

Spec == Init /\ [][Next]_content
=============================================================================
