---------------------------- MODULE MCShortcuts ----------------------------
(* Three addShortcut calls, any two of which may be for the same shortcut; *)
(* two keys; keydowns with and without Shift and Ctrl.                     *)
EXTENDS Shortcuts, TLC

CONSTANTS r1, r2, r3, k1, k2

MCRegs == {r1, r2, r3}
MCShortcuts == {[key |-> k1, modifiers |-> {}],
                [key |-> k1, modifiers |-> {"CTRL_KEY"}],
                [key |-> k2, modifiers |-> {"SHIFT_KEY"}]}
MCEvents == {[key |-> k, altKey |-> FALSE, ctrlKey |-> c, metaKey |-> FALSE, shiftKey |-> s] :
                k \in {k1, k2}, c \in BOOLEAN, s \in BOOLEAN}
MCMaxCalls == 3
MCSymmetry == Permutations(MCRegs)
=============================================================================
