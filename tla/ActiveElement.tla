--------------------------- MODULE ActiveElement ---------------------------
(***************************************************************************)
(* findActiveElement of dom-util.ts: the element that has focus, found by *)
(* descending from document.activeElement through the activeElement of     *)
(* each shadow root on the way.  The focus is the chain of those active    *)
(* elements: chain[1] is document.activeElement, chain[i+1] the            *)
(* activeElement of chain[i].shadowRoot.  An element is described by its  *)
(* nodeName (BODY, one containing DIALOG, or another) and by whether it   *)
(* has a shadowRoot.  Focus moves between calls; a call (each recursive   *)
(* invocation one step) runs synchronously.                                *)
(***************************************************************************)
EXTENDS Naturals, Sequences

CONSTANTS MaxDepth,     \* the deepest chain of nested shadow roots
          UNDEFINED     \* a model value: ignoreDialogs omitted

NULL == 0
Name == {"BODY", "DIALOG", "OTHER"}
Element == [name : Name, hasShadowRoot : BOOLEAN]

\* chains the browser can produce: every element but the last hosts the
\* shadow root whose activeElement follows it; BODY is only the document's,
\* and it is active only when nothing else has focus (the app attaches no
\* shadow root to it)
Chain ==
    {c \in UNION {[1..d -> Element] : d \in 0..MaxDepth} :
        /\ \A i \in 1..Len(c) - 1 : c[i].hasShadowRoot
        /\ \A i \in 1..Len(c) : c[i].name = "BODY" => (i = 1 /\ ~c[i].hasShadowRoot)}

VARIABLES chain,        \* the focus, as above
          pc,           \* "idle" or "call" (a findActiveElement frame runs)
          level,        \* the frame's root: 0 document, i chain[i].shadowRoot
          ignore,       \* the frame's ignoreDialogs argument
          topIgnore,    \* the ignoreDialogs the caller passed
          result        \* the value returned, NULL or the index of an element

vars == <<chain, pc, level, ignore, topIgnore, result>>

\* root.activeElement of the frame's root
Active(l) == IF l < Len(chain) THEN l + 1 ELSE NULL

\* mutant: the test stops at root.activeElement?.shadowRoot
ActiveHostsShadowRoot(l) == Active(l) # NULL /\ chain[Active(l)].hasShadowRoot

\* root.activeElement?.shadowRoot?.activeElement is non-null
ActiveHostsFocus(l) == Active(l) # NULL /\ Active(Active(l)) # NULL

Init ==
    /\ chain \in Chain
    /\ pc = "idle" /\ level = 0 /\ ignore = UNDEFINED /\ topIgnore = UNDEFINED
    /\ result = NULL

\* the user moves focus; no call is running
FocusMoves(c) ==
    /\ pc = "idle"
    /\ chain' = c
    /\ UNCHANGED <<pc, level, ignore, topIgnore, result>>

(* findActiveElement(document, ignoreDialogs) *)
Call(ign) ==
    /\ pc = "idle"
    /\ pc' = "call" /\ level' = 0 /\ ignore' = ign /\ topIgnore' = ign
    /\ UNCHANGED <<chain, result>>

(* findActiveElement(null): if (root === null) return null *)
CallNullRoot(ign) ==
    /\ pc = "idle"
    /\ topIgnore' = ign /\ result' = NULL
    /\ UNCHANGED <<chain, pc, level, ignore>>

Return(r) == pc' = "idle" /\ result' = r /\ UNCHANGED <<chain, level, ignore, topIgnore>>

\* ignoreDialogs and root.activeElement's nodeName includes DIALOG
DialogIgnored ==
    /\ pc = "call"
    /\ ignore = TRUE /\ Active(level) # NULL /\ chain[Active(level)].name = "DIALOG"
    /\ Return(NULL)

\* mutant: the recursive call is made on root instead of its active
\* element's shadow root
DescendSameRoot ==
    /\ pc = "call"
    /\ ~(ignore = TRUE /\ Active(level) # NULL /\ chain[Active(level)].name = "DIALOG")
    /\ ActiveHostsFocus(level)
    /\ ignore' = UNDEFINED
    /\ UNCHANGED <<chain, pc, level, topIgnore, result>>

\* return findActiveElement(root.activeElement.shadowRoot): no ignoreDialogs
Descend ==
    /\ pc = "call"
    /\ ~(ignore = TRUE /\ Active(level) # NULL /\ chain[Active(level)].name = "DIALOG")
    /\ ActiveHostsFocus(level)
    /\ level' = Active(level) /\ ignore' = UNDEFINED
    /\ UNCHANGED <<chain, pc, topIgnore, result>>

\* the frame's root has no activeElement, or it is BODY: return null;
\* otherwise return root.activeElement
Answer ==
    /\ pc = "call"
    /\ ~(ignore = TRUE /\ Active(level) # NULL /\ chain[Active(level)].name = "DIALOG")
    /\ ~ActiveHostsFocus(level)
    /\ Return(IF Active(level) = NULL \/ chain[Active(level)].name = "BODY"
              THEN NULL ELSE Active(level))

Next ==
    \/ \E c \in Chain : FocusMoves(c)
    \/ \E ign \in {TRUE, UNDEFINED} : Call(ign) \/ CallNullRoot(ign)
    \/ DialogIgnored \/ Descend \/ Answer

\* a call runs synchronously to its return: focus cannot move meanwhile
Spec == Init /\ [][Next]_vars /\ WF_vars(DialogIgnored \/ Descend \/ Answer)

---------------------------------------------------------------------------

\* the innermost focused element, unless focus is on BODY or nowhere
Innermost ==
    IF chain = <<>> \/ chain[1].name = "BODY" THEN NULL ELSE Len(chain)

(* Without ignoreDialogs, a call on the document returns the innermost    *)
(* focused element, however many shadow roots lie between it and the      *)
(* document, and null only when focus is on BODY or nowhere.               *)
FindsInnermost ==
    [][(pc = "call" /\ pc' = "idle" /\ topIgnore = UNDEFINED) => result' = Innermost]_vars

(* With ignoreDialogs, a call returns null whenever the focus is inside an *)
(* element whose nodeName contains DIALOG, at whatever depth that element  *)
(* sits: the caller asks not to be handed focus that belongs to a dialog.  *)
DialogsIgnored ==
    [][(pc = "call" /\ pc' = "idle" /\ topIgnore = TRUE
          /\ \E i \in 1..Len(chain) : chain[i].name = "DIALOG") => result' = NULL]_vars

(* Every call of findActiveElement returns: each recursive call goes one   *)
(* shadow root deeper along the focus, which ends at an element whose      *)
(* shadow root (if any) holds no focus.                                    *)
ActiveElementReturns == pc = "call" ~> pc = "idle"
=============================================================================
