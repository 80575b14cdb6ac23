------------------------- MODULE MCScriptScheduler -------------------------
(* Small instances of ScriptScheduler for TLC. *)
EXTENDS ScriptScheduler
=============================================================================
