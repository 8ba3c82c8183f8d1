---------------------------- MODULE MCClassName ----------------------------
(* Arguments of up to three characters: enough for a leading character to *)
(* be replaced and for two characters to need replacing.                  *)
EXTENDS ClassName

MCMaxLen == 3
=============================================================================
