---------------------------- MODULE ReflectionFetch ----------------------------
(***************************************************************************)
(* One import of descriptors over gRPC server reflection                   *)
(* (src/src/grpc/reflection.ts), as a function of how the server behaves.  *)
(* It shares no state with anything else: what the importer gets is a      *)
(* result or one reason for there being none.                              *)
(***************************************************************************)
EXTENDS DescriptorRegistry

CONSTANT Malformed    \* targets that are not host:port

(* What a reflection call can meet with, from its connection to its frames.*)
Replies ==
  {"connect_timeout", "refused", "late_body", "too_large", "broken_body",
   "http_error", "no_status", "unimplemented", "unavailable",
   "deadline_exceeded", "other_status", "bad_frames", "fine"}

(* Why callReflection() throws; "none" when it returns its frames.         *)
ReasonOf(reply) ==
  CASE reply \in {"connect_timeout", "late_body", "deadline_exceeded"} -> "timeout"
    [] reply \in {"refused", "broken_body", "unavailable"} -> "unavailable"
    [] reply = "too_large" -> "too_large"
    [] reply = "unimplemented" -> "unimplemented"
    [] reply \in {"http_error", "no_status", "other_status"} -> "rejected"
    [] reply = "bad_frames" -> "invalid"
    [] reply = "fine" -> "none"

Protocols == {"v1", "v1alpha"}

(* A server: what the calls of each protocol meet with (of several that    *)
(* differ, the first that is not fine decides), the services it lists      *)
(* (reflection, health and channelz aside), those it has files for, and    *)
(* whether these files refer to none it did not send.                      *)
Servers ==
  [reply : [Protocols -> Replies], listed : SUBSET Services,
   resolved : SUBSET Services, whole : BOOLEAN]

Failed(reason) == [reason |-> reason, services |-> {}, whole |-> FALSE]

(* fetchWithProtocol(): without explicit symbols the server is asked for a *)
(* list, and listed services it cannot resolve are skipped.                *)
WithProtocol(server, protocol, symbols) ==
  LET asked == IF symbols = {} THEN server.listed ELSE symbols
      missing == asked \ server.resolved
  IN  IF ReasonOf(server.reply[protocol]) # "none"
        THEN Failed(ReasonOf(server.reply[protocol]))
      ELSE IF asked = {} THEN Failed("no_services")
      ELSE IF missing = asked \/ symbols \cap missing # {} THEN Failed("not_found")
      ELSE [reason |-> "none", services |-> asked \ missing, whole |-> server.whole]

(* fetchDescriptorsViaReflection(): the next protocol is tried only when   *)
(* one is not implemented.                                                 *)
Fetched(server, symbols) ==
  LET first == WithProtocol(server, "v1", symbols)
  IN  IF first.reason = "unimplemented"
        THEN WithProtocol(server, "v1alpha", symbols)
        ELSE first

(* All fetches there may be: what is asked for, with what comes of it.     *)
Fetches ==
  {<<symbols, Fetched(server, symbols)>> : symbols \in SUBSET Services, server \in Servers}

ResultsFrom(target, symbols) ==
  IF target \in Malformed THEN {Failed("invalid_target")}
  ELSE {fetch[2] : fetch \in {f \in Fetches : f[1] = symbols}}
=============================================================================
