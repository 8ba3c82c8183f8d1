--------------------------- MODULE ClassAncestry ---------------------------
(***************************************************************************)
(* The class helpers of dom-util.ts: toggleClass, which changes an         *)
(* element's classList, and descendedFromClass, which walks parentElement  *)
(* links from an element, optionally stopping below a stop element, to     *)
(* tell whether the element or one of its ancestors has a class.  The      *)
(* class name is one fixed name; classes[e] says whether e has it.  The    *)
(* parentElement forest over Node is chosen in Init.  A call runs          *)
(* synchronously: no toggle happens while its loop runs.                   *)
(***************************************************************************)
EXTENDS Naturals, FiniteSets

CONSTANTS N,               \* number of elements
          UNDEFINED        \* a model value: an omitted optional argument

NULL == 0
Node == 1..N

VARIABLES parent,         \* parentElement, NULL at a root
          classes,        \* classes[e]: e.classList.contains(className)
          pc,             \* "idle" or "loop" (inside descendedFromClass)
          start, stop,    \* the call's element and stopElement arguments
          element,        \* the loop's element variable
          isDescendant    \* the loop's isDescendant variable

vars == <<parent, classes, pc, start, stop, element, isDescendant>>

RECURSIVE AncestorsOf(_)
\* the strict ancestors of e through parentElement
AncestorsOf(e) == IF parent[e] = NULL THEN {} ELSE {parent[e]} \cup AncestorsOf(parent[e])

Init ==
    /\ parent \in {p \in [Node -> Node \cup {NULL}] : \A i \in Node : p[i] < i}
    /\ classes \in [Node -> BOOLEAN]
    /\ pc = "idle"
    /\ start = NULL /\ stop = NULL /\ element = NULL
    /\ isDescendant = FALSE

(* toggleClass(el, className, bool): with bool undefined the class is     *)
(* flipped, otherwise added when bool is true and removed when false       *)
toggleClass(el, bool) ==
    /\ pc = "idle"
    /\ classes' = [classes EXCEPT ![el] = IF bool = UNDEFINED THEN ~classes[el] ELSE bool]
    /\ UNCHANGED <<parent, pc, start, stop, element, isDescendant>>

(* descendedFromClass(element, className, stopElement): the first test,   *)
(* before the loop                                                         *)
CallDescendedFromClass(el, stopEl) ==
    /\ pc = "idle"
    /\ pc' = "loop"
    /\ start' = el /\ stop' = stopEl /\ element' = el
    /\ isDescendant' = classes[el]
    /\ UNCHANGED <<parent, classes>>

\* mutant: the stopElement test is missing from the while condition
LoopContinuesNoStop ==
    /\ ~isDescendant
    /\ parent[element] # NULL

\* the while condition
LoopContinues ==
    /\ ~isDescendant
    /\ parent[element] # NULL
    /\ (stop = UNDEFINED \/ parent[element] # stop)

\* mutant: element = element.parentElement is missing from the body
LoopBodyNoMove ==
    /\ pc = "loop"
    /\ LoopContinues
    /\ isDescendant' = classes[element]
    /\ UNCHANGED <<parent, classes, pc, start, stop, element>>

\* one pass of the loop body: test element, then move to its parent
LoopBody ==
    /\ pc = "loop"
    /\ LoopContinues
    /\ isDescendant' = classes[element]
    /\ element' = parent[element]
    /\ UNCHANGED <<parent, classes, pc, start, stop>>

\* the loop ends: return isDescendant
LoopExit ==
    /\ pc = "loop"
    /\ ~LoopContinues
    /\ pc' = "idle"
    /\ UNCHANGED <<parent, classes, start, stop, element, isDescendant>>

Next ==
    \/ \E el \in Node, bool \in {TRUE, FALSE, UNDEFINED} : toggleClass(el, bool)
    \/ \E el \in Node, stopEl \in Node \cup {UNDEFINED} : CallDescendedFromClass(el, stopEl)
    \/ LoopBody
    \/ LoopExit

\* a call is synchronous: once started, its loop keeps running
Spec == Init /\ [][Next]_vars /\ WF_vars(LoopBody \/ LoopExit)

---------------------------------------------------------------------------
\* the elements the doc comment asks about: the element itself and its
\* ancestors, those at or above stopElement excluded when it is an ancestor
Asked(el, stopEl) ==
    {el} \cup {a \in AncestorsOf(el) :
                  stopEl \notin AncestorsOf(el) \/ stopEl \in AncestorsOf(a)}

(* A true answer is never wrong: when descendedFromClass returns true, the *)
(* element or an ancestor strictly below stopElement has the class.  The   *)
(* classes cannot change while the call runs, so the classes at the return *)
(* are the ones the call saw.                                              *)
DescendedSound ==
    [][LoopExit => (isDescendant => \E a \in Asked(start, stop) : classes[a])]_vars

(* The doc comment: "Are any ancestors of the element (or the element      *)
(* itself) members of the given class."  When the call returns false, none *)
(* of those elements (below stopElement) has the class.                    *)
DescendedComplete ==
    [][LoopExit => (~isDescendant => \A a \in Asked(start, stop) : ~classes[a])]_vars

(* Every call of descendedFromClass returns: each pass of the loop moves   *)
(* one parentElement up, so the walk ends at the root, at stopElement or   *)
(* at an element with the class.                                           *)
DescendedTerminates == pc = "loop" ~> pc = "idle"
=============================================================================
