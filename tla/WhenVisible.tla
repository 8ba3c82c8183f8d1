---------------------------- MODULE WhenVisible ----------------------------
(***************************************************************************)
(* whenVisible of dom-util.ts and the IntersectionObserver it creates.     *)
(* whenVisible(element, callback) observes the element with a new          *)
(* observer; the observer's callback checks that it got exactly one entry  *)
(* (check throws otherwise), and on an intersecting entry unobserves the   *)
(* element and runs the caller's callback.  Each element of Elements gets  *)
(* its own whenVisible call and so its own observer.                       *)
(*                                                                         *)
(* The browser side follows the IntersectionObserver processing model:     *)
(* a rendering update compares an element's intersection with the last one *)
(* recorded for it (none after observe) and, when it changed, queues an    *)
(* entry and a task that later hands every queued entry to the observer's *)
(* callback at once.  Rendering updates may run again before that task     *)
(* does; MaxQueued bounds how many entries can pile up.                    *)
(***************************************************************************)
EXTENDS Integers, Sequences

CONSTANTS Elements,     \* the elements whenVisible is called on
          MaxQueued     \* entries that can be queued before the task runs

NONE == -1

VARIABLES visible,      \* visible[e]: e intersects the root (margin included)
          started,      \* whenVisible(e, ...) has been called
          observing,    \* e is an observation target of its observer
          previous,     \* last intersection recorded for e: NONE, 0 or 1
          queued,       \* the observer's queued entries (isIntersecting flags)
          taskQueued,   \* a notify task is pending for the observer
          called,       \* how many times e's callback ran
          threw         \* a callback's check(entries.length === 1) failed for e

vars == <<visible, started, observing, previous, queued, taskQueued, called, threw>>

Init ==
    /\ visible \in [Elements -> BOOLEAN]
    /\ started = [e \in Elements |-> FALSE]
    /\ observing = [e \in Elements |-> FALSE]
    /\ previous = [e \in Elements |-> NONE]
    /\ queued = [e \in Elements |-> <<>>]
    /\ taskQueued = [e \in Elements |-> FALSE]
    /\ called = [e \in Elements |-> 0]
    /\ threw = [e \in Elements |-> FALSE]

\* layout or scrolling moves an element in or out of view
Scroll(e) ==
    /\ visible' = [visible EXCEPT ![e] = ~@]
    /\ UNCHANGED <<started, observing, previous, queued, taskQueued, called, threw>>

(* whenVisible: new IntersectionObserver(...); observer.observe(element) *)
WhenVisibleCall(e) ==
    /\ ~started[e]
    /\ started' = [started EXCEPT ![e] = TRUE]
    /\ observing' = [observing EXCEPT ![e] = TRUE]
    /\ previous' = [previous EXCEPT ![e] = NONE]
    /\ UNCHANGED <<visible, queued, taskQueued, called, threw>>

\* the rendering update: a changed intersection queues an entry and a task
Frame(e) ==
    LET idx == IF visible[e] THEN 1 ELSE 0 IN
    /\ observing[e] /\ idx # previous[e]
    /\ Len(queued[e]) < MaxQueued
    /\ previous' = [previous EXCEPT ![e] = idx]
    /\ queued' = [queued EXCEPT ![e] = Append(@, visible[e])]
    /\ taskQueued' = [taskQueued EXCEPT ![e] = TRUE]
    /\ UNCHANGED <<visible, started, observing, called, threw>>

\* mutant: the element is not unobserved before the callback runs
OnIntersectingKeepObserving(e) ==
    /\ observing' = observing
    /\ called' = [called EXCEPT ![e] = @ + 1]

(* the observer callback on a single intersecting entry:                  *)
(* observer.unobserve(entry.target); callback();                          *)
OnIntersecting(e) ==
    /\ observing' = [observing EXCEPT ![e] = FALSE]
    /\ called' = [called EXCEPT ![e] = @ + 1]

\* mutant: observer.unobserve runs for every single entry, intersecting or not
NotifyUnobserveAlways(e) ==
    /\ taskQueued[e]
    /\ taskQueued' = [taskQueued EXCEPT ![e] = FALSE]
    /\ queued' = [queued EXCEPT ![e] = <<>>]
    /\ IF Len(queued[e]) # 1
       THEN threw' = [threw EXCEPT ![e] = TRUE] /\ UNCHANGED <<observing, called>>
       ELSE /\ UNCHANGED threw
            /\ observing' = [observing EXCEPT ![e] = FALSE]
            /\ called' = [called EXCEPT ![e] = IF queued[e][1] THEN @ + 1 ELSE @]
    /\ UNCHANGED <<visible, started, previous>>

\* the notify task: the observer's callback gets every queued entry
Notify(e) ==
    /\ taskQueued[e]
    /\ taskQueued' = [taskQueued EXCEPT ![e] = FALSE]
    /\ queued' = [queued EXCEPT ![e] = <<>>]
    /\ IF Len(queued[e]) # 1
       THEN threw' = [threw EXCEPT ![e] = TRUE] /\ UNCHANGED <<observing, called>>
       ELSE /\ UNCHANGED threw
            /\ IF queued[e][1] THEN OnIntersecting(e) ELSE UNCHANGED <<observing, called>>
    /\ UNCHANGED <<visible, started, previous>>

Next == \E e \in Elements : Scroll(e) \/ WhenVisibleCall(e) \/ Frame(e) \/ Notify(e)

\* rendering updates and queued tasks keep running; scrolling is the user's
Spec == Init /\ [][Next]_vars
        /\ \A e \in Elements : WF_vars(WhenVisibleCall(e)) /\ WF_vars(Frame(e)) /\ WF_vars(Notify(e))

---------------------------------------------------------------------------

(* Each caller's callback runs at most once, however often its element     *)
(* scrolls in and out of view and however the entries are batched.         *)
CallbackAtMostOnce == \A e \in Elements : called[e] <= 1

(* An element that comes into view and stays there gets its callback: the *)
(* promise whenVisible makes to the code that defers work until then.      *)
CallbackWhenVisible == \A e \in Elements : (<>[]visible[e]) => <>(called[e] > 0)
=============================================================================
