-------------------------- MODULE MCScriptRunner --------------------------
(* Model-checking instances of ScriptRunner. *)
EXTENDS ScriptRunner
=============================================================================
