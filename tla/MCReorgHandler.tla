--------------------------- MODULE MCReorgHandler ---------------------------
(* Instances of ReorgHandler.                                               *)
EXTENDS ReorgHandler

CONSTANTS a, b

Nobody    == {{}}
NobodyOrB == {{}, {b}}
=============================================================================
