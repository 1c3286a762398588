-------------------------------- MODULE Matchers --------------------------------
(***************************************************************************)
(* Matchers and what they are evaluated against (src/src/rules/matcher.ts).*)
(* A pattern is the set of values it accepts.  A snapshot of a request or a*)
(* response is a function from what rules may look at to its values: none  *)
(* when the message lacks it, several when a header is repeated.  Names of *)
(* headers and trailers are of three kinds: those the log masks, those the *)
(* gRPC listener reserves (grpc-status, content-type, ...) and the others, *)
(* x.  "metadata.x" is the copy of header.x under request.grpc.metadata;   *)
(* only scripts see it, and the messages of a gRPC call as values.         *)
(***************************************************************************)
EXTENDS FiniteSetsExt, Integers, Sequences

CONSTANTS
  Malformed,  \* a part of the wrong shape
  Matchers,   \* what rules and drafts may have for matchers and conditions
  Depth       \* of each, how deep its conditions are nested

Composite == {"all", "any", "not"}

Conditions(m) == IF m # Malformed /\ m.type \in Composite THEN m.conditions ELSE <<>>

(* A matcher comes in a JSON document: it is a finite tree.                *)
ASSUME MatcherConstants ==
  /\ Depth \in [Matchers -> Nat]
  /\ \A m \in Matchers :
       /\ Conditions(m) \in Seq(Matchers)
       /\ \A i \in DOMAIN Conditions(m) : Depth[Conditions(m)[i]] < Depth[m]

(* A matcher, its conditions, theirs, and so on.                           *)
Parts[m \in Matchers] == {m} \cup UNION {Parts[Conditions(m)[i]] : i \in DOMAIN Conditions(m)}

BodyFields == {"body", "rawBodyBase64"}
HeaderFields == {"header.x", "header.masked", "header.reserved"}
TrailerFields == {"grpc.trailer.x", "grpc.trailer.masked", "grpc.trailer.reserved"}
MessageFields == {"grpc.messages", "grpc.message"}

RequestFields == BodyFields \cup HeaderFields \cup
  {"method", "host", "path", "query", "metadata.x", "grpc.service", "grpc.method", "grpc.messages"}
ResponseFields == BodyFields \cup HeaderFields \cup TrailerFields \cup MessageFields \cup
  {"status", "grpc.status"}

(* An accepted field of responses, but the name of no trailer.             *)
Nameless == "grpc.trailer."

NoResponse == [f \in ResponseFields |-> {}]

Candidates(snapshot, field) == IF field \in DOMAIN snapshot THEN snapshot[field] ELSE {}

ResolveField(field, stage, request, response) ==
  IF stage = "response" THEN Candidates(response, field)
  ELSE IF field = "header.x" /\ request["header.x"] = {} THEN request["metadata.x"]
  ELSE Candidates(request, field)

(* Where a script looks: at a field of the request or of the response.     *)
Sights == {"request", "response"} \X (RequestFields \cup ResponseFields)

ASSUME ScriptConstants == \A m \in Matchers : m # Malformed /\ m.type = "script" => m.sight \in Sights

SeenAt(sight, request, response) ==
  Candidates(IF sight[1] = "request" THEN request ELSE response, sight[2])

Verdicts == {"yes", "no", "throws"}

(* The first condition that is not `go` decides. *)
UpToFirst(verdicts, go) ==
  LET stops == {i \in DOMAIN verdicts : verdicts[i] # go}
  IN  IF stops = {} THEN go ELSE verdicts[Min(stops)]

(* The verdict of a matcher, from those of its conditions.  A script has   *)
(* one thing to look at, and fails when it is not there; in the response   *)
(* stage it still has the request.                                         *)
Judge(m, stage, request, response, inner) ==
  LET values == IF m.type = "script" THEN SeenAt(m.sight, request, response)
                ELSE ResolveField(m.field, stage, request, response)
      hit == IF values \cap m.accepts # {} THEN "yes" ELSE "no"
  IN  CASE m.type = "regex"  -> hit
        [] m.type = "script" -> IF values = {} THEN "throws" ELSE hit
        [] m.type = "all"    -> UpToFirst(inner, "yes")
        [] m.type = "any"    -> UpToFirst(inner, "no")
        [] OTHER (* not *)   -> CASE inner[1] = "yes" -> "no"
                                  [] inner[1] = "no"  -> "yes"
                                  [] OTHER            -> "throws"

EvalMatcher(m, stage, request, response) ==
  LET verdict[x \in Matchers] ==
        Judge(x, stage, request, response,
              [i \in DOMAIN Conditions(x) |-> verdict[Conditions(x)[i]]])
  IN  verdict[m]

MatcherFields(m) == {p.field : p \in {q \in Parts[m] : q.type = "regex"}}

MatcherUsesBody(m) == MatcherFields(m) \cap BodyFields # {}

MatcherHasScript(m) == \E p \in Parts[m] : p.type = "script"

TrailersHave == {"grpc.status", "status", Nameless} \cup TrailerFields

(* Mutant: what a script looks at is not thought of.                       *)
UsesTrailersByName(m) ==
  MatcherFields(m) \cap TrailersHave # {}

(* Whether a matcher waits for the final status and the trailers.          *)
MatcherUsesTrailers(m) ==
  \/ MatcherHasScript(m)
  \/ MatcherFields(m) \cap TrailersHave # {}
=============================================================================
