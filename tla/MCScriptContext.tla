--------------------------- MODULE MCScriptContext ---------------------------
(* ScriptContext for TLC.                                                  *)
EXTENDS ScriptContext
=============================================================================
