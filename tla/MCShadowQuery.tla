--------------------------- MODULE MCShadowQuery ---------------------------
(* Every composed tree of MCNodes nodes: enough for a start element with  *)
(* an open shadow root, a light-tree host, a closed root and a shadow root *)
(* nested inside another.                                                  *)
EXTENDS ShadowQuery

MCNodes == 5
=============================================================================
