---------------------------- MODULE MCEventPath ----------------------------
(* Every composed tree of MCNodes nodes under the document: room for a     *)
(* host, its shadow root, a wrapper element and a slot inside it, and a   *)
(* light child of the host assigned to that slot; or GR-APP, a slot and   *)
(* an SVG element on the way to the target.                               *)
EXTENDS EventPath

MCNodes == 6
=============================================================================
