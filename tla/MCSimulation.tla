------------------------------ MODULE MCSimulation ------------------------------
(* Drafts that vary one part of a rule at a time, met by requests with and   *)
(* without bodies, headers and hosts the patterns accept.  A pattern on the  *)
(* encoded bytes is the one that a JSON text would match.                    *)
EXTENDS Simulation, TLC

MCMethodOf == ("a" :> "unary") @@ ("b" :> "streaming")

MCBase64(v) == "base64 " \o v
MCFramed(v) == "framed " \o v

Regex(field) ==
  [type |-> "regex", field |-> field,
   accepts |-> {IF field = "rawBodyBase64" THEN "base64 a" ELSE "a"}]
Script(of, field) == [type |-> "script", sight |-> <<of, field>>, accepts |-> {"a"}]
Combined(type, ms) == [type |-> type, conditions |-> ms]

Plain == Regex("header.x")

MatchersOf(fields) ==
  {Regex(f) : f \in fields} \cup {Script("request", f) : f \in {"body", "header.x"}} \cup
  {Combined("not", <<Regex("body")>>), Combined("not", <<Malformed>>),
   Combined("any", <<Plain, Regex("body")>>), Combined("any", <<>>),
   Combined("all", <<Plain, Combined("not", <<Script("request", "body")>>)>>), Malformed}

RequestMatchers ==
  MatchersOf(RequestFields \cup {"header.", "status", "grpc.trailer.x"}) \cup
  {Script("request", "grpc.messages"),
   Combined("all", <<Regex("grpc.service"), Regex("grpc.method")>>)}

ResponseMatchers ==
  MatchersOf(ResponseFields \cup {"host", Nameless}) \cup
  {Script("response", f) : f \in {"body", "header.x", "grpc.trailer.x"}} \cup
  {Combined("any", <<Plain, Regex("grpc.trailer.x")>>),
   [Regex("grpc.status") EXCEPT !.accepts = {"0"}]}

(* With the conditions of those that are nested.                             *)
MCMatchers == RequestMatchers \cup ResponseMatchers \cup 
  {Combined("not", <<Script("request", "body")>>)}

MCDepth[m \in MCMatchers] ==
  1 + Max({0} \cup {MCDepth[Conditions(m)[i]] : i \in DOMAIN Conditions(m)})

Fault(kind, status) == [type |-> "fault", fault |-> [kind |-> kind, status |-> status]]
Mock(keys, status, messages) ==
  [type |-> "mock_response", keys |-> keys, status |-> status, messages |-> messages]
Op(op) == [op |-> op, from |-> "a", value |-> "b"]
Rewrite(ops) == [type |-> "request_rewrite", operations |-> ops]
Replace(target) == [type |-> "response_replace", target |-> target, from |-> "a", value |-> "b"]
Manipulator(patch, needs) == [type |-> "script_manipulator", patch |-> patch, needs |-> needs]

FaultActions == {Fault("http_response", 503), Fault("http_response", 600),
                 Fault("grpc_status", 16), Fault("connection", 0), Malformed}

RequestActions == FaultActions \cup
  {Mock({"statusCode", "body"}, 200, "none"), Mock({"grpcStatus"}, 0, "none"),
   Mock({"grpcStatus", "messages"}, 0, "fit"), Mock({"grpcStatus", "messages"}, 0, "misfit"),
   Rewrite(<<>>), Rewrite(<<Malformed>>), Rewrite(<<Op("set_path"), Op("replace_body")>>)} \cup
  {Rewrite(<<Op(op)>>) : op \in Operations}

ResponseActions == FaultActions \cup
  {Replace("header.x"), Replace("header.reserved"), Replace("body"),
   Manipulator("statusCode" :> "200", {}),
   Manipulator("statusCode" :> "200", {<<"request", "body">>}),
   Manipulator("body" :> "b", {<<"response", "body">>}),
   Manipulator(("body" :> "b") @@ ("rawBodyBase64" :> "b"), {}),
   Manipulator("headers" :> ("header.x" :> Nil), {}), Manipulator("grpcStatus" :> "0", {}),
   Manipulator("grpcMessage" :> "a", {}), Manipulator("trailers" :> Malformed, {}),
   Manipulator("metadata" :> ("header.x" :> "b"), {<<"request", "grpc.messages">>})}

Rule(protocol, match, request, response) ==
  [wellFormed |-> TRUE, enabled |-> TRUE, protocol |-> protocol, match |-> match,
   request |-> request, response |-> response, times |-> Nil,
   capture |-> request = Nil /\ response = Nil]

Stage(action) == [delay |-> Nil, action |-> action]
Reply(match, action) == [match |-> match, delay |-> Nil, action |-> action]
Delayed(match) == [match |-> match, delay |-> "fixed", action |-> Nil]

MCDrafts ==
  UNION {
    {Rule(p, m, Nil, Nil) : m \in RequestMatchers} \cup
    {Rule(p, m, Stage(Rewrite(<<Op("set_header")>>)), Nil) : m \in RequestMatchers} \cup
    {Rule(p, m, Stage(a), Nil) : m \in {Plain, Regex("path")}, a \in RequestActions} \cup
    {Rule(p, Plain, Nil, Reply(m, Fault("connection", 0))) : m \in ResponseMatchers} \cup
    {Rule(p, Plain, Nil, Delayed(m)) : m \in ResponseMatchers} \cup
    {Rule(p, Plain, Nil, Reply(Nil, a)) : a \in ResponseActions} \cup
    {Rule(p, Plain, Stage(Rewrite(<<Op("set_header")>>)), Reply(Regex("body"), Replace("header.x"))),
     Rule(p, Plain, Stage(Mock({"grpcStatus"}, 0, "none")), Reply(Plain, Fault("connection", 0))),
     Rule(p, Plain, Stage(Fault("connection", 0)), Reply(Plain, Replace("header.x"))),
     Rule(p, Plain, [delay |-> "total", action |-> Nil], Nil),
     Rule(p, Plain, [delay |-> "fixed", action |-> Nil], Reply(Nil, Fault("grpc_status", 14))),
     [Rule(p, Plain, Nil, Nil) EXCEPT !.capture = FALSE],
     [Rule(p, Plain, Nil, Nil) EXCEPT !.times = 1],
     [Rule(p, Plain, Stage(Fault("connection", 0)), Nil) EXCEPT !.times = 1],
     [Rule(p, Plain, Nil, Nil) EXCEPT !.times = 0],
     [Rule(p, Plain, Stage(Malformed), Nil) EXCEPT !.enabled = FALSE]}
    : p \in Protocols}

(* The first rule captures, rewrites once, or is disabled.                   *)
MCInitialRules ==
  {<<Rule("http", Plain, Nil, Nil)>>, <<Rule("grpc", Plain, Nil, Nil)>>,
   <<[Rule("http", Regex("host"), Stage(Rewrite(<<Op("set_path")>>)), Nil) EXCEPT !.times = 1]>>,
   <<[Rule("grpc", Regex("body"), Stage(Fault("connection", 0)), Nil) EXCEPT !.enabled = FALSE]>>}

Headers(values) == [f \in HeaderFields |-> values]
Trailers(values) == [f \in TrailerFields |-> values]

Http == [protocol |-> "http", method |-> {"a"}, host |-> {"a"}, path |-> {"a"}, query |-> {"a"},
         header |-> Headers({"a"}), body |-> {"a"}, large |-> FALSE, unbuffered |-> FALSE,
         trailersOnly |-> FALSE, status |-> {"a"}, replyHeader |-> Headers({"a"}),
         replyBody |-> {"a"}, grpcStatus |-> {}, grpcMessage |-> {}, trailer |-> Trailers({})]

Grpc == [Http EXCEPT !.protocol = "grpc", !.method = {"POST"}, !.query = {""}, !.status = {"200"},
                     !.grpcStatus = {"a"}, !.grpcMessage = {"a"}, !.trailer = Trailers({"a"})]

MCTraffic ==
  {Http,
   [Http EXCEPT !.body = {}],
   [Http EXCEPT !.body = {"b"}, !.replyHeader = Headers({})],
   [Http EXCEPT !.large = TRUE],
   [Http EXCEPT !.unbuffered = TRUE],
   [Http EXCEPT !.header = Headers({"a", "b"}), !.host = {"b"}, !.replyBody = {"b"}],
   [Http EXCEPT !.header = Headers({}), !.path = {"b"}, !.status = {"200"}],
   Grpc,
   [Grpc EXCEPT !.large = TRUE],
   [Grpc EXCEPT !.host = {"b"}, !.body = {"b"}, !.grpcStatus = {"0"}, !.trailer = Trailers({})],
   [Grpc EXCEPT !.grpcStatus = {}],
   [Grpc EXCEPT !.path = {"b"}],
   [Grpc EXCEPT !.path = {"b"}, !.replyHeader = Headers({}), !.trailer = Trailers({"b"})],
   [Grpc EXCEPT !.path = {"b"}, !.trailersOnly = TRUE],
   [Grpc EXCEPT !.path = {"c"}, !.large = TRUE, !.grpcStatus = {"0"}]}

(* Simulations change nothing but `step`: what follows them also follows the *)
(* state before them, so their states are checked but not gone on from.      *)
GoesOn == step.kind \notin {"sample", "log"}
=============================================================================
