-------------------------- MODULE MCClassAncestry --------------------------
(* Every parentElement forest of MCElements elements: chains deep enough   *)
(* for an element, two ancestors and a stop element above them.            *)
EXTENDS ClassAncestry

MCElements == 4
=============================================================================
