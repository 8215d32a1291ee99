----------------------------- MODULE MCStartup -----------------------------
(***************************************************************************)
(* Directories a and b with three manifest files, the second of which may  *)
(* be a link; b may lie within a, and may be closed to us; "same" is       *)
(* another name of a and "gone" does not exist.                            *)
(*                                                                         *)
(* Keys of no byte, of too few and of enough, alone or with blanks around  *)
(* them that make up a length that would do, or spoil one that does.       *)
(***************************************************************************)
EXTENDS Startup

\* 1 is the directory a with the files 2 and 3, 4 is b with the file 5.
MCPlaces == 1..5

Skill(n, w) == [name |-> n, write |-> w]

MCTrees ==
    {[root   |-> [d \in {"a", "b", "same", "gone"} |->
                     CASE d \in {"a", "same"} -> 1 [] d = "b" -> 4
                       [] d = "gone" -> Nowhere],
      found  |-> [p \in MCPlaces |->
                     CASE p = 1 -> {2, 3} \cup (IF nested THEN {5} ELSE {})
                       [] p = 4 -> {5} [] OTHER -> {}],
      within |-> [p \in MCPlaces |->
                     CASE p = 1 -> {2, 3} \cup (IF nested THEN {5} ELSE {})
                       [] p = 4 -> {5} [] OTHER -> {}],
      listed |-> [p \in MCPlaces |->
                     closed => p # 4 /\ (nested => p # 1)],
      target |-> [p \in MCPlaces |-> IF p = 3 THEN link ELSE p],
      holds  |-> [p \in MCPlaces |->
                     CASE p = 2 -> Skill("x", FALSE) [] p = 3 -> second
                       [] p = 5 -> third [] OTHER -> NotAManifest]]
        : nested \in BOOLEAN, closed \in BOOLEAN,
          link \in {2, 3, 5, Nowhere},
          second \in {Skill("x", FALSE), Skill("y", TRUE), NotAManifest},
          third \in {Skill("y", FALSE), Skill("z", FALSE), NotAManifest}}

MCConfigured ==
    {<<>>} \cup [1..1 -> {"a", "b", "gone"}]
           \cup [1..2 -> {"a", "b", "same", "gone"}]

MCKeys == [text : {0, 8}, blanks : {0, 8}] \cup [text : {16}, blanks : {0, 1}]
=============================================================================
