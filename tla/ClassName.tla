----------------------------- MODULE ClassName -----------------------------
(***************************************************************************)
(* strToClassName of dom-util.ts:                                          *)
(*   `${prefix}${str.replace(/[^a-zA-Z0-9-_]/g, '_')}`                     *)
(* with str defaulting to '' and prefix to 'generated_'.  A character is   *)
(* abstracted to its class: a letter, a digit, '-', '_' or any other       *)
(* character (space, '.', ':', a non-ASCII letter...).  The default prefix *)
(* is a run of letters ended by '_', abstracted to <<letter, '_'>>.        *)
(***************************************************************************)
EXTENDS Naturals, Sequences

CONSTANTS UNDEFINED,    \* a model value: an omitted argument
          MaxLen        \* the longest str and prefix enumerated

Char == {"letter", "digit", "-", "_", "other"}
DEFAULT_PREFIX == <<"letter", "_">>

\* strings of at most n characters
StringsUpTo(n) == UNION {[1..k -> Char] : k \in 0..n}

\* the characters /[^a-zA-Z0-9-_]/ does not match
Kept == {"letter", "digit", "-", "_"}

\* mutant: the regular expression without the g flag replaces only the
\* first character it matches
replaceFirst(s) ==
    IF \E i \in DOMAIN s : s[i] \notin Kept
    THEN LET f == CHOOSE i \in DOMAIN s : s[i] \notin Kept /\ \A j \in 1..i - 1 : s[j] \in Kept
         IN  [s EXCEPT ![f] = "_"]
    ELSE s

\* str.replace(/[^a-zA-Z0-9-_]/g, '_'): every other character becomes '_'
replace(s) == [i \in DOMAIN s |-> IF s[i] \in Kept THEN s[i] ELSE "_"]

\* the default parameters: an omitted argument takes its default
Arg(a, default) == IF a = UNDEFINED THEN default ELSE a

strToClassName(str, prefix) == Arg(prefix, DEFAULT_PREFIX) \o replace(Arg(str, <<>>))

VARIABLES str, prefix,  \* the call's arguments, UNDEFINED when omitted
          result        \* the returned class name, UNDEFINED before it returns

vars == <<str, prefix, result>>

Init ==
    /\ str \in StringsUpTo(MaxLen) \cup {UNDEFINED}
    /\ prefix \in StringsUpTo(MaxLen) \cup {UNDEFINED}
    /\ result = UNDEFINED

Call ==
    /\ result = UNDEFINED
    /\ result' = strToClassName(str, prefix)
    /\ UNCHANGED <<str, prefix>>

Next == Call

Spec == Init /\ [][Next]_vars

---------------------------------------------------------------------------
(* The naming rule of the doc comment: a class name begins with a letter  *)
(* and goes on with letters, digits, hyphens and underscores.              *)
ValidClassName(s) ==
    /\ s # <<>> /\ s[1] = "letter"
    /\ \A i \in DOMAIN s : s[i] \in Kept

(* Every string, whatever characters it holds and however many need      *)
(* replacing, becomes a valid class name when the prefix is omitted or is  *)
(* itself a valid class name.  (An empty prefix gives '' for an empty str  *)
(* and keeps a leading digit, '-' or '_' of str.)                          *)
ValidPrefixGivesValidName ==
    (result # UNDEFINED /\ (prefix = UNDEFINED \/ ValidClassName(prefix)))
        => ValidClassName(result)
=============================================================================
