---------------------------- MODULE ShadowSearch ----------------------------
(***************************************************************************)
(* What the shadow-DOM compatible queries of dom-util.ts promise, stated   *)
(* without a frontier: in one step each call returns.  querySelector       *)
(* returns some element below the start (in the light tree or in any open  *)
(* shadow tree reachable from it) that matches, or null when there is      *)
(* none; querySelectorAll returns exactly the set of such elements.        *)
(***************************************************************************)
EXTENDS DomTree

VARIABLES first, firstDone, all, allDone

vars == <<treeVars, first, firstDone, all, allDone>>

Init ==
    /\ TreeInit
    /\ first = NULL /\ firstDone = FALSE
    /\ all = {} /\ allDone = FALSE

ReturnFirst ==
    /\ ~firstDone
    /\ firstDone' = TRUE
    /\ first' \in IF Matches = {} THEN {NULL} ELSE Matches
    /\ UNCHANGED <<treeVars, all, allDone>>

ReturnAll ==
    /\ ~allDone
    /\ allDone' = TRUE
    /\ all' = Matches
    /\ UNCHANGED <<treeVars, first, firstDone>>

Next == ReturnFirst \/ ReturnAll

Spec == Init /\ [][Next]_vars /\ WF_vars(ReturnFirst) /\ WF_vars(ReturnAll)
=============================================================================
