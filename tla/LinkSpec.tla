------------------------------ MODULE LinkSpec ------------------------------
(***************************************************************************)
(* What wdclink promises about symbols, without modules, tables or         *)
(* libraries: a name is missing from the time something refers to it until *)
(* something defines it, it is defined once and for all, and a link        *)
(* completes exactly when nothing is missing.                              *)
(***************************************************************************)
EXTENDS Naturals

CONSTANTS Names, Initial    \* Initial: the names the linker defines itself

VARIABLES defined, missing, outcome

vars == << defined, missing, outcome >>

TypeOK == /\ defined \subseteq Names
          /\ missing \subseteq Names
          /\ outcome \in {"linking", "complete", "unresolved", "aborted"}

Init == defined = Initial /\ missing = {} /\ outcome = "linking"

Reference(n) ==
    /\ outcome = "linking" /\ n \notin defined
    /\ missing' = missing \cup {n}
    /\ UNCHANGED << defined, outcome >>

Define(n) ==
    /\ outcome = "linking" /\ n \notin defined
    /\ defined' = defined \cup {n} /\ missing' = missing \ {n}
    /\ UNCHANGED outcome

(* The end of the last section is known: the names that stood for ends.    *)
Complete ==
    /\ outcome = "linking" /\ missing = {}
    /\ \E ends \in SUBSET Names : defined' = defined \cup ends
    /\ outcome' = "complete" /\ UNCHANGED missing

GiveUp ==
    /\ outcome = "linking" /\ missing # {}
    /\ outcome' = "unresolved" /\ UNCHANGED << defined, missing >>

Abort == outcome' = "aborted" /\ UNCHANGED << defined, missing >>

Next == \/ \E n \in Names : Reference(n) \/ Define(n)
        \/ Complete \/ GiveUp \/ Abort

Spec == Init /\ [][Next]_vars

-----------------------------------------------------------------------------
(* A link that completed misses nothing, one given up on misses something, *)
(* and no name is both defined and missing.                                *)
Sound == /\ outcome = "complete" => missing = {}
         /\ outcome = "unresolved" => missing # {}
         /\ defined \cap missing = {}
=============================================================================
