--------------------------- MODULE MCScriptSandbox ---------------------------
(* The sandbox with a few run() calls, so that one can be sent to a worker   *)
(* that is dying of another's timeout and one to its replacement.            *)
EXTENDS ScriptSandbox
=============================================================================
