-------------------------- MODULE MCReflectionImport --------------------------
(* Two upstreams that may be asked, one of them declared in the            *)
(* configuration, and a target that is none.                               *)
EXTENDS ReflectionImport, TLC

CONSTANTS configured, other, malformed, s1, s2

MCTargets == {configured, other, malformed}
MCNamed == {{}, {s1}}
MCStartupSymbols == configured :> {}
=============================================================================
