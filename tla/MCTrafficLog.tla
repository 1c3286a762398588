----------------------------- MODULE MCTrafficLog -----------------------------
(* The traffic log with room for three entries and three units of body: a    *)
(* draft with no body, one that the byte cap admits beside others, and one   *)
(* too big to be kept at all.                                                *)
EXTENDS TrafficLog

MCDrafts ==
  {[kinds |-> {}, bytes |-> 0, shown |-> TRUE],
   [kinds |-> Kinds, bytes |-> 2, shown |-> TRUE],
   [kinds |-> Kinds, bytes |-> 4, shown |-> FALSE]}
=============================================================================
