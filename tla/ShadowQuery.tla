---------------------------- MODULE ShadowQuery ----------------------------
(***************************************************************************)
(* querySelector and querySelectorAll of dom-util.ts: the work-list loops  *)
(* that search a container and every shadow root found below it.  One     *)
(* action is one iteration of a while loop: pop the last entry of `nodes`, *)
(* skip it when it is null, run the native query on it, then append the   *)
(* shadowRoot of every element below it and its own shadowRoot.  Both     *)
(* calls run on the same tree; their steps interleave only to let one     *)
(* state relate the two results.                                           *)
(***************************************************************************)
EXTENDS DomTree

VARIABLES qNodes, qResult, qDone,          \* querySelector: nodes, result, returned
          aNodes, aResults, aDone,         \* querySelectorAll: nodes, results, returned
          aSearched                        \* history: containers queried by querySelectorAll

vars == <<treeVars, qNodes, qResult, qDone, aNodes, aResults, aDone, aSearched>>

\* mutant: the scan of node.querySelectorAll('*') also yields node itself
AllShadowNodesWithSelf(node) ==
    LET els == SelectSeq(InDocumentOrder(LightDescendants(node) \cup {node}), isElementWithShadowRoot)
    IN  [i \in DOMAIN els |-> shadowRoot(els[i])]

(* [...node.querySelectorAll('*')].filter(isElementWithShadowRoot)        *)
(*   .map(child => child.shadowRoot): null for every element without an   *)
(* open shadow root                                                        *)
AllShadowNodes(node) ==
    LET els == SelectSeq(InDocumentOrder(LightDescendants(node)), isElementWithShadowRoot)
    IN  [i \in DOMAIN els |-> shadowRoot(els[i])]

\* mutant: the push of the container's own shadow root is missing
OwnShadowRootMissing(node) == <<>>

\* mutant: nodes.push(node) instead of nodes.push(node.shadowRoot)
OwnShadowRootPushesNode(node) == <<node>>

(* if (isElementWithShadowRoot(node)) nodes.push(node.shadowRoot) *)
OwnShadowRoot(node) ==
    IF isElementWithShadowRoot(node) THEN <<shadowRoot(node)>> ELSE <<>>

\* nodes = nodes.concat(allShadowNodes) followed by the push of the own root
Expand(rest, node) == rest \o AllShadowNodes(node) \o OwnShadowRoot(node)

(* results.add(el) for each el of a native result: a Set keeps the first  *)
(* insertion and ignores repeats                                           *)
SetAddAll(results, els) ==
    LET RECURSIVE Add(_, _)
        Add(acc, i) == IF i > Len(els) THEN acc
                       ELSE Add(IF Contains(acc, els[i]) THEN acc ELSE Append(acc, els[i]), i + 1)
    IN  Add(results, 1)

Init ==
    /\ TreeInit
    /\ qNodes = <<1>> /\ qResult = NULL /\ qDone = FALSE
    /\ aNodes = <<1>> /\ aResults = <<>> /\ aDone = FALSE
    /\ aSearched = {}

---------------------------------------------------------------------------
(* querySelector *)

\* if (!node || !node.querySelector) continue;
QuerySkipInvalid ==
    /\ ~qDone /\ qNodes # <<>> /\ Last(qNodes) = NULL
    /\ qNodes' = Front(qNodes)
    /\ UNCHANGED <<treeVars, qResult, qDone, aNodes, aResults, aDone, aSearched>>

\* result = node.querySelector(selector); if (result) break;
QueryFound ==
    /\ ~qDone /\ qNodes # <<>> /\ Last(qNodes) # NULL
    /\ NativeQuery(Last(qNodes)) # NULL
    /\ qResult' = NativeQuery(Last(qNodes))
    /\ qNodes' = Front(qNodes)
    /\ qDone' = TRUE
    /\ UNCHANGED <<treeVars, aNodes, aResults, aDone, aSearched>>

\* mutant: querySelector queues the shadow roots below but not its own
QueryDescendNoOwnRoot ==
    /\ ~qDone /\ qNodes # <<>> /\ Last(qNodes) # NULL
    /\ NativeQuery(Last(qNodes)) = NULL
    /\ qResult' = NULL
    /\ qNodes' = Front(qNodes) \o AllShadowNodes(Last(qNodes))
    /\ UNCHANGED <<treeVars, qDone, aNodes, aResults, aDone, aSearched>>

\* no match in this container: queue the shadow roots below it
QueryDescend ==
    /\ ~qDone /\ qNodes # <<>> /\ Last(qNodes) # NULL
    /\ NativeQuery(Last(qNodes)) = NULL
    /\ qResult' = NULL
    /\ qNodes' = Expand(Front(qNodes), Last(qNodes))
    /\ UNCHANGED <<treeVars, qDone, aNodes, aResults, aDone, aSearched>>

\* while (nodes.length) ends: return result
QueryExhausted ==
    /\ ~qDone /\ qNodes = <<>>
    /\ qDone' = TRUE
    /\ UNCHANGED <<treeVars, qNodes, qResult, aNodes, aResults, aDone, aSearched>>

---------------------------------------------------------------------------
(* querySelectorAll *)

\* if (!node || !node.querySelectorAll) continue;
AllSkipInvalid ==
    /\ ~aDone /\ aNodes # <<>> /\ Last(aNodes) = NULL
    /\ aNodes' = Front(aNodes)
    /\ UNCHANGED <<treeVars, qNodes, qResult, qDone, aResults, aDone, aSearched>>

\* add the container's own matches, then queue the shadow roots below it
AllSearch ==
    /\ ~aDone /\ aNodes # <<>> /\ Last(aNodes) # NULL
    /\ aResults' = SetAddAll(aResults, NativeQueryAll(Last(aNodes)))
    /\ aNodes' = Expand(Front(aNodes), Last(aNodes))
    /\ aSearched' = aSearched \cup {Last(aNodes)}
    /\ UNCHANGED <<treeVars, qNodes, qResult, qDone, aDone>>

\* return [...results]
AllExhausted ==
    /\ ~aDone /\ aNodes = <<>>
    /\ aDone' = TRUE
    /\ UNCHANGED <<treeVars, qNodes, qResult, qDone, aNodes, aResults, aSearched>>

---------------------------------------------------------------------------
QueryStep == QuerySkipInvalid \/ QueryFound \/ QueryDescend \/ QueryExhausted
AllStep == AllSkipInvalid \/ AllSearch \/ AllExhausted

Next == QueryStep \/ AllStep

\* each call is a synchronous loop that runs to its return
Spec == Init /\ [][Next]_vars /\ WF_vars(QueryStep) /\ WF_vars(AllStep)

---------------------------------------------------------------------------
(* The type of every variable; a frontier is a sequence of at most N + 1  *)
(* entries (the start, one per element below a searched container and the *)
(* start's own shadow root), since no container is searched twice.          *)
TypeOK ==
    /\ TreeTypeOK
    /\ qNodes \in Seq(Node \cup {NULL}) /\ aNodes \in Seq(Node \cup {NULL})
    /\ Len(qNodes) <= N + 1 /\ Len(aNodes) <= N + 1
    /\ qResult \in Node \cup {NULL} /\ aResults \in Seq(Node)
    /\ qDone \in BOOLEAN /\ aDone \in BOOLEAN
    /\ aSearched \subseteq Node

(* Refinement: the frontier loops implement ShadowSearch.  querySelector   *)
(* returns, and returns a matching element below the start, through any   *)
(* number of open shadow roots, whenever there is one; querySelectorAll    *)
(* returns exactly the matching elements of the start's light tree and of  *)
(* every open shadow tree reachable from it.                               *)
Search == INSTANCE ShadowSearch
           WITH first <- IF qDone THEN qResult ELSE NULL, firstDone <- qDone,
                all <- IF aDone THEN ToSet(aResults) ELSE {}, allDone <- aDone
ImplementsShadowSearch == Search!Spec

(* The two calls pop their containers in the same last-in-first-out order, *)
(* so once both have returned, querySelector's result is the first element *)
(* of querySelectorAll's array (and null exactly when that array is empty). *)
FirstIsHeadOfAll ==
    (qDone /\ aDone) =>
        qResult = IF aResults = <<>> THEN NULL ELSE Head(aResults)

(* querySelectorAll never runs the native query on the same container      *)
(* twice: every shadow root is queued once, by the scope of its host, so   *)
(* the scans never overlap and the Set only guards against repeats that    *)
(* cannot arise.                                                           *)
NoContainerSearchedTwice ==
    [][AllSearch => Last(aNodes) \notin aSearched]_vars
=============================================================================
