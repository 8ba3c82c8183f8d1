-------------------------- MODULE MCActiveElement --------------------------
(* Focus chains through up to three nested shadow roots: a dialog can sit  *)
(* at the document level or one or two shadow roots down.                  *)
EXTENDS ActiveElement

MCMaxDepth == 3
=============================================================================
