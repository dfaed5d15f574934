------------------------ MODULE MCRuntimeDispatcher -------------------------
(***************************************************************************)
(* Model-checking instances of RuntimeDispatcher: three actions share a    *)
(* key, one has none.                                                      *)
(***************************************************************************)
EXTENDS RuntimeDispatcher, TLC

MCKeyOf == [a \in Actions |-> IF a = "free" THEN NoKey ELSE "k"]
=============================================================================
