----------------------------- MODULE EventPath -----------------------------
(***************************************************************************)
(* getEventPath of dom-util.ts: the "div.a>span#b" description of the      *)
(* nodes an event passed through.  It takes e.composedPath() when that is  *)
(* non-empty (the event is being dispatched) and otherwise walks from      *)
(* e.target through parentNode, or host at a shadow root; it then folds    *)
(* the path, innermost first, with getPathFromNode, prepending each        *)
(* non-empty descriptor and a '>' to the string built so far.              *)
(*                                                                         *)
(* Nodes are 1..N in composed pre-order; node 1 is the document and cp[i] *)
(* is i's parentNode, or its host when i is a shadow root.  A node is the  *)
(* document, a shadow root, an ordinary HTML element, the GR-APP element,  *)
(* a SLOT or an SVG element.  A descriptor is abstracted to the node that *)
(* produces it: the string is a sequence of node tokens and SEP tokens.    *)
(* A light child of a shadow host may be assigned to a slot of the host's *)
(* shadow tree; composedPath() then runs through the slot.                *)
(***************************************************************************)
EXTENDS Naturals, SequencesExt

CONSTANT N              \* nodes of the composed tree, the document included

NULL == 0
WINDOW == N + 1         \* composedPath() ends with the Window
SEP == N + 2            \* the '>' between two descriptors
Node == 1..N
Kind == {"document", "shadow", "html", "gr-app", "slot", "svg"}

VARIABLES cp, kind,     \* the tree, chosen in Init
          slotOf,       \* the slot a light child is assigned to, or NULL
          target,       \* e.target, an element; NULL when e is undefined
          dispatching,  \* composedPath() is non-empty (dispatch in progress)
          pc,           \* "start", "walk", "fold", "done" or "threw"
          path,         \* the path variable
          el,           \* the walk's el variable
          i,            \* the index of the fold over path
          domPath       \* the fold's accumulator

vars == <<cp, kind, slotOf, target, dispatching, pc, path, el, i, domPath>>

RECURSIVE CAncestors(_, _)
CAncestors(p, n) == IF n = 1 THEN {1} ELSE {n} \cup CAncestors(p, p[n])

\* composed parents in pre-order numbering: each node hangs below the
\* node before it or one of that node's ancestors
PreOrder(p) == \A n \in 2..N : p[n] \in CAncestors(p, n - 1)

\* node kinds the DOM can hold: the document at the root, a shadow root on
\* an HTML element (at most one each), SVG inside SVG only
WellFormed(p, k) ==
    /\ k[1] = "document" /\ \A n \in 2..N : k[n] # "document"
    /\ \A n \in 2..N :
          /\ k[n] = "shadow" => /\ k[p[n]] \in {"html", "gr-app"}
                                /\ \A m \in 2..N : (m # n /\ p[m] = p[n]) => k[m] # "shadow"
          /\ k[p[n]] = "svg" => k[n] = "svg"
          /\ k[p[n]] = "document" => k[n] \in {"html", "gr-app"}

isElement(n) == kind[n] \in {"html", "gr-app", "slot", "svg"}

RECURSIVE ScopeOf(_)
\* the shadow root or document whose tree an element belongs to
ScopeOf(n) == IF kind[cp[n]] \in {"shadow", "document"} THEN cp[n] ELSE ScopeOf(cp[n])

\* the slots an element may be assigned to: those of its parent's shadow tree
SlotChoices(n) ==
    {NULL} \cup
    {s \in Node : /\ n > 1 /\ kind[n] # "shadow" /\ kind[s] = "slot"
                  /\ \E r \in Node : kind[r] = "shadow" /\ cp[r] = cp[n] /\ ScopeOf(s) = r}

(* el.parentNode || el.host: the parent, and at a shadow root its host;   *)
(* the document has neither                                               *)
ParentOrHost(n) == IF n = 1 THEN NULL ELSE cp[n]

\* the node an event goes to next: the assigned slot, else the parent or host
EventParent(n) == IF slotOf[n] # NULL THEN slotOf[n] ELSE cp[n]

\* e.composedPath() of a composed event, innermost first: the target, the
\* nodes it propagates through across slots and shadow roots, the document,
\* the Window
RECURSIVE ComposedFrom(_)
ComposedFrom(n) == IF n = 1 THEN <<1, WINDOW>> ELSE <<n>> \o ComposedFrom(EventParent(n))

Init ==
    /\ cp \in {p \in [2..N -> Node] : PreOrder(p)}
    /\ kind \in {k \in {(1 :> "document") @@ f : f \in [2..N -> Kind \ {"document"}]} :
                   WellFormed(cp, k)}
    /\ LET choice == [n \in Node |-> SlotChoices(n)]
       IN  slotOf \in {f \in [Node -> UNION {choice[n] : n \in Node}] :
                         \A n \in Node : f[n] \in choice[n]}
    /\ target \in {n \in Node : isElement(n)} \cup {NULL}
    /\ dispatching \in BOOLEAN
    /\ pc = "start" /\ path = <<>> /\ el = NULL /\ i = 1 /\ domPath = <<>>

(* if (!e) return '' *)
NoEvent ==
    /\ pc = "start" /\ target = NULL
    /\ pc' = "done"
    /\ UNCHANGED <<cp, kind, slotOf, target, dispatching, path, el, i, domPath>>

(* let path = e.composedPath(); if it is empty, start the walk at e.target *)
Start ==
    /\ pc = "start" /\ target # NULL
    /\ IF dispatching
       THEN pc' = "fold" /\ path' = ComposedFrom(target) /\ el' = el
       ELSE pc' = "walk" /\ path' = <<>> /\ el' = target
    /\ UNCHANGED <<cp, kind, slotOf, target, dispatching, i, domPath>>

\* mutant: el moves to its parent before it is pushed
WalkStepLate ==
    /\ pc = "walk" /\ el # NULL
    /\ path' = Append(path, ParentOrHost(el))
    /\ el' = ParentOrHost(el)
    /\ UNCHANGED <<cp, kind, slotOf, target, dispatching, pc, i, domPath>>

\* while (el) { path.push(el); el = el.parentNode || el.host; }
WalkStep ==
    /\ pc = "walk" /\ el # NULL
    /\ path' = Append(path, el)
    /\ el' = ParentOrHost(el)
    /\ UNCHANGED <<cp, kind, slotOf, target, dispatching, pc, i, domPath>>

WalkEnd ==
    /\ pc = "walk" /\ el = NULL
    /\ pc' = "fold"
    /\ UNCHANGED <<cp, kind, slotOf, target, dispatching, path, el, i, domPath>>

(* getPathFromNode: '' for a non-element, GR-APP or a slot; otherwise the *)
(* tag, #id and .classes.  For an SVG element el.className is an          *)
(* SVGAnimatedString, an object and so truthy, and className.replace is   *)
(* not a function: the call throws a TypeError.                           *)
Informative(n) == n \in Node /\ kind[n] = "html"
Throws(n) == n \in Node /\ kind[n] = "svg"

\* mutant: the descriptor is appended after the accumulated path
FoldAppend(acc, n) == IF acc = <<>> THEN <<n>> ELSE acc \o <<SEP, n>>

\* domPath ? `${pathForEl}>${domPath}` : pathForEl
FoldPrepend(acc, n) == IF acc = <<>> THEN <<n>> ELSE <<n, SEP>> \o acc

\* one call of the reduce callback
FoldStep ==
    /\ pc = "fold" /\ i <= Len(path)
    /\ IF Throws(path[i])
       THEN pc' = "threw" /\ UNCHANGED <<i, domPath>>
       ELSE /\ domPath' = IF Informative(path[i]) THEN FoldPrepend(domPath, path[i]) ELSE domPath
            /\ i' = i + 1
            /\ UNCHANGED pc
    /\ UNCHANGED <<cp, kind, slotOf, target, dispatching, path, el>>

FoldEnd ==
    /\ pc = "fold" /\ i > Len(path)
    /\ pc' = "done"
    /\ UNCHANGED <<cp, kind, slotOf, target, dispatching, path, el, i, domPath>>

Next == NoEvent \/ Start \/ WalkStep \/ WalkEnd \/ FoldStep \/ FoldEnd

Spec == Init /\ [][Next]_vars

---------------------------------------------------------------------------
\* the type of every variable: a path holds nodes and the Window only
TypeOK ==
    /\ target \in Node \cup {NULL} /\ dispatching \in BOOLEAN
    /\ pc \in {"start", "walk", "fold", "done", "threw"}
    /\ path \in Seq(Node \cup {WINDOW}) /\ el \in Node \cup {NULL}
    /\ i \in Nat /\ domPath \in Seq(Node \cup {SEP})

RECURSIVE Outward(_, _)
\* the reference path: n and the nodes above it under the parent function up
Outward(up, n) == IF n = 1 THEN <<1>> ELSE <<n>> \o Outward(up, up[n])

\* the informative elements of a path, outermost first, joined by '>'
Described(p) ==
    LET d == Reverse(SelectSeq(p, Informative))
    IN  IF d = <<>> THEN <<>>
        ELSE [k \in 1..2 * Len(d) - 1 |-> IF k % 2 = 1 THEN d[(k + 1) \div 2] ELSE SEP]

(* A returned path names every HTML element the event passed through,     *)
(* outermost first and separated by single '>', and nothing else (no      *)
(* GR-APP, slot, shadow root, document or Window entry).  During dispatch *)
(* that is the composed path, through the slot a light child is assigned  *)
(* to and the shadow-tree elements around it; afterwards, the walk through *)
(* parentNode and host, which goes from a slotted element straight to its *)
(* host and so leaves those shadow-tree elements out.                      *)
PathDescribesAncestors ==
    pc = "done" =>
        domPath = IF target = NULL THEN <<>>
                  ELSE Described(Outward(IF dispatching THEN [n \in 2..N |-> EventParent(n)] ELSE cp,
                                         target))

(* getEventPath returns a string, possibly empty, for every event and     *)
(* never throws: the spec's contract for path formatting.                  *)
NeverThrows == pc # "threw"
=============================================================================
