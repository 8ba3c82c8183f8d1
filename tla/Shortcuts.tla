----------------------------- MODULE Shortcuts -----------------------------
(***************************************************************************)
(* addShortcut of dom-util.ts and the document's keydown listener list.    *)
(* Each call wraps the caller's listener in a new closure, adds it to the  *)
(* document's keydown listeners and returns a remover for that closure.    *)
(* A keydown dispatch follows the DOM's rule: the listener list is cloned  *)
(* when dispatch reaches the document, each clone entry runs in order, and *)
(* an entry removed meanwhile (its "removed" flag set) is skipped.  A      *)
(* caller's listener may call any remover, its own included, while it     *)
(* runs.  A registration is a slot of Regs with the shortcut it was made  *)
(* for; a shortcut is a key and the modifiers it lists.                    *)
(***************************************************************************)
EXTENDS Naturals, Sequences, FiniteSets

CONSTANTS Regs,         \* the addShortcut calls that can happen
          Shortcuts,    \* the shortcuts they may be made for
          Events,       \* the keydown events that may be dispatched
          MaxCalls      \* bound on the caller listener runs of a behaviour

Modifier == {"ALT_KEY", "CTRL_KEY", "META_KEY", "SHIFT_KEY"}

VARIABLES shortcut,     \* shortcut[r]: what registration r was made for
          state,        \* "unused", "added" or "released" (its remover ran)
          releasedAt,   \* history: Len(calls) when r's remover ran
          listeners,    \* the document's keydown listener list, in order
          event,        \* the keydown being dispatched, or NONE
          clone,        \* the dispatch's clone of the listener list
          next,         \* the clone entry to run next
          from,         \* history: Len(calls) when the dispatch began
          before,       \* history: the registrations added when it began
          calls         \* the caller listeners run: <<registration, event>>

vars == <<shortcut, state, releasedAt, listeners, event, clone, next, from, before, calls>>

NONE == [none |-> TRUE]
NOTYET == MaxCalls + 1

Init ==
    /\ shortcut \in [Regs -> Shortcuts]
    /\ state = [r \in Regs |-> "unused"]
    /\ releasedAt = [r \in Regs |-> NOTYET]
    /\ listeners = <<>> /\ event = NONE /\ clone = <<>> /\ next = 1
    /\ from = 0 /\ before = {} /\ calls = <<>>

addShortcut(r) ==
    /\ state[r] = "unused"
    /\ state' = [state EXCEPT ![r] = "added"]
    /\ listeners' = Append(listeners, r)
    /\ UNCHANGED <<shortcut, releasedAt, event, clone, next, from, before, calls>>

\* mutant: the remover passes the caller's listener, not the wrapped one,
\* and removes nothing
RemoverWrongFunction(r) ==
    /\ state[r] = "added"
    /\ state' = [state EXCEPT ![r] = "released"]
    /\ releasedAt' = [releasedAt EXCEPT ![r] = Len(calls)]
    /\ UNCHANGED <<listeners, shortcut, event, clone, next, from, before, calls>>

(* the remover: document.removeEventListener('keydown', wrappedListener);  *)
(* the entry leaves the list and gets the DOM's removed flag, so a running *)
(* dispatch skips it; a second call finds nothing to remove                *)
Remover(r) ==
    /\ state[r] = "added"
    /\ state' = [state EXCEPT ![r] = "released"]
    /\ releasedAt' = [releasedAt EXCEPT ![r] = Len(calls)]
    /\ listeners' = SelectSeq(listeners, LAMBDA x : x # r)
    /\ UNCHANGED <<shortcut, event, clone, next, from, before, calls>>

\* a keydown reaches the document: its listener list is cloned
KeyDown(e) ==
    /\ event = NONE
    /\ Len(calls) + Len(listeners) <= MaxCalls
    /\ event' = e /\ clone' = listeners /\ next' = 1 /\ from' = Len(calls)
    /\ before' = {r \in Regs : state[r] = "added"}
    /\ UNCHANGED <<shortcut, state, releasedAt, listeners, calls>>

(* wrappedListener(e): return unless the key, then ctrlKey, then metaKey  *)
(* match the shortcut; altKey and shiftKey are deliberately not compared  *)
Matches(s, e) ==
    /\ e.key = s.key
    /\ e.ctrlKey = ("CTRL_KEY" \in s.modifiers)
    /\ e.metaKey = ("META_KEY" \in s.modifiers)

\* the next clone entry: skipped when it was removed, else wrappedListener
\* runs and calls the caller's listener when the shortcut matches
InvokeNext ==
    /\ event # NONE /\ next <= Len(clone)
    /\ LET r == clone[next] IN
         calls' = IF (\E j \in DOMAIN listeners : listeners[j] = r) /\ Matches(shortcut[r], event)
                  THEN Append(calls, <<r, event>>) ELSE calls
    /\ next' = next + 1
    /\ UNCHANGED <<shortcut, state, releasedAt, listeners, event, clone, from, before>>

\* every clone entry has run: the dispatch is over
DispatchDone ==
    /\ event # NONE /\ next > Len(clone)
    /\ event' = NONE
    /\ UNCHANGED <<shortcut, state, releasedAt, listeners, clone, next, from, before, calls>>

Next ==
    \/ \E r \in Regs : addShortcut(r) \/ Remover(r)
    \/ \E e \in Events : KeyDown(e)
    \/ InvokeNext \/ DispatchDone

Spec == Init /\ [][Next]_vars

---------------------------------------------------------------------------

(* The handle addShortcut returns releases the listener: once the remover *)
(* has run, the caller's listener never runs again, not even for a keydown *)
(* already being dispatched, as when a shortcut's own listener removes    *)
(* itself or another shortcut.                                             *)
NoCallAfterRelease ==
    \A i \in DOMAIN calls : i <= releasedAt[calls[i][1]]

shiftPressed(e) == e.shiftKey

(* A shortcut that lists SHIFT_KEY or ALT_KEY among its modifiers runs    *)
(* only while that key is down: what the modifiers field of Shortcut,     *)
(* whose Modifier enum offers both, tells a caller.  (A shortcut listing   *)
(* none may run with Shift or Alt down: the comment in wrappedListener     *)
(* says the user may need them to type the key.)                           *)
ListedModifiersHeld ==
    \A j \in DOMAIN calls :
        LET s == shortcut[calls[j][1]]
            e == calls[j][2]
        IN  /\ "SHIFT_KEY" \in s.modifiers => shiftPressed(e)
            /\ "ALT_KEY" \in s.modifiers => e.altKey
=============================================================================
