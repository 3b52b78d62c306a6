------------------------------ MODULE MCFsoShell ------------------------------
(* Host files that end inside a buffer, on the end of one, and after the     *)
(* largest file of the store.                                                *)
EXTENDS FsoShell

CONSTANTS a, b

ShortFiles == {<<a, b>>, <<a, a, b>>, <<a, b, b, a>>}
=============================================================================
