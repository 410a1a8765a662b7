------------------------- MODULE MCNotebookDrafts -------------------------
(* Instances of NotebookDrafts small enough for TLC.                       *)
EXTENDS NotebookDrafts
===========================================================================
