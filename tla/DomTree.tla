------------------------------ MODULE DomTree ------------------------------
(***************************************************************************)
(* The composed DOM tree the query utilities of dom-util.ts read.          *)
(*                                                                         *)
(* Nodes are 1..N, numbered in composed tree order (a pre-order walk that  *)
(* visits a host's shadow root like a child), so within any one tree scope *)
(* numeric order is document order.  cp[i] is the composed parent of i:    *)
(* the parentNode of an element, the host of a shadow root.  A node is an   *)
(* element or a shadow root of mode "open" or "closed"; the start node 1   *)
(* is the container handed to the query (an element or an open root).     *)
(* match is the set of elements the selector matches.  The tree is chosen  *)
(* in Init among all such trees and never changes: the utilities only read *)
(* it.                                                                     *)
(***************************************************************************)
EXTENDS Naturals, FiniteSets, SequencesExt

CONSTANT N          \* number of nodes in the composed tree

VARIABLES cp, kind, match,
          desc, sroot   \* indexes derived from cp and kind when the tree is built

treeVars == <<cp, kind, match, desc, sroot>>

NULL == 0
Node == 1..N
ShadowKind == {"open", "closed"}

RECURSIVE CAncestors(_, _)
\* i and its composed ancestors under the parent function p
CAncestors(p, i) == IF i = 1 THEN {1} ELSE {i} \cup CAncestors(p, p[i])

\* p numbers the nodes in pre-order: each node hangs below the path to i-1
PreOrder(p) == \A i \in 2..N : p[i] \in CAncestors(p, i - 1)

\* a shadow root is attached to an element, and an element has at most one
WellFormed(p, k) ==
    /\ k[1] \in {"element", "open"}
    /\ \A i \in 2..N : k[i] \in ShadowKind =>
          /\ k[p[i]] = "element"
          /\ \A j \in 2..N : (j # i /\ p[j] = p[i]) => k[j] = "element"

(* isElement (nodeType === 1) *)
isElement(n) == kind[n] = "element"

(* parentNode of a tree-scope member: an element's parent; a shadow root  *)
(* has none (its host is reached through .host, not .parentNode)          *)
ParentNode(n) == IF n = 1 \/ ~isElement(n) THEN NULL ELSE cp[n]

RECURSIVE LightAncestors(_)
LightAncestors(n) ==
    IF ParentNode(n) = NULL THEN {}
    ELSE {ParentNode(n)} \cup LightAncestors(ParentNode(n))

\* the elements of c's own tree scope below c, never crossing into a
\* shadow tree
LightDescendantsOf(c) == {d \in Node : c \in LightAncestors(d)}

\* the open shadow root of an element; NULL when it has none or it is closed
OpenShadowRootOf(e) ==
    IF \E s \in 2..N : cp[s] = e /\ kind[s] = "open"
    THEN CHOOSE s \in 2..N : cp[s] = e /\ kind[s] = "open"
    ELSE NULL

TreeInit ==
    /\ cp \in {p \in [2..N -> 1..N] : (\A i \in 2..N : p[i] < i) /\ PreOrder(p)}
    /\ kind \in {k \in [Node -> {"element"} \cup ShadowKind] : WellFormed(cp, k)}
    /\ match \in SUBSET {i \in Node : kind[i] = "element"}
    /\ desc = [c \in Node |-> LightDescendantsOf(c)]
    /\ sroot = [e \in Node |-> OpenShadowRootOf(e)]

TreeTypeOK ==
    /\ cp \in [2..N -> Node]
    /\ kind \in [Node -> {"element"} \cup ShadowKind]
    /\ match \subseteq Node

\* what the native container.querySelectorAll('*') visits
LightDescendants(c) == desc[c]

(* el.shadowRoot: null for an element without a shadow root or with a      *)
(* closed one                                                              *)
shadowRoot(e) == sroot[e]

(* 'shadowRoot' in el: true of every Element (the getter is on            *)
(* Element.prototype), false of a ShadowRoot                               *)
isElementWithShadowRoot(n) == isElement(n)

\* a set of nodes as a sequence in document (numeric) order
InDocumentOrder(S) ==
    [i \in 1..Cardinality(S) |-> CHOOSE x \in S : Cardinality({y \in S : y < x}) = i - 1]

\* native c.querySelectorAll(selector), in document order
NativeQueryAll(c) == InDocumentOrder(LightDescendants(c) \cap match)

\* native c.querySelector(selector): the first match in document order
NativeQuery(c) == IF NativeQueryAll(c) = <<>> THEN NULL ELSE Head(NativeQueryAll(c))

\* the nodes a shadow-including search from node 1 can reach through
\* children and open shadow roots (the reference definition)
RECURSIVE Reach(_)
Reach(S) ==
    LET next == {j \in 2..N : cp[j] \in S /\ kind[j] \in {"element", "open"}}
    IN  IF next \subseteq S THEN S ELSE Reach(S \cup next)

\* every element below the start, in any open shadow tree, that matches
Matches == (Reach({1}) \ {1}) \cap match
=============================================================================
