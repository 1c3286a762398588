# Specifications of morpheus-proxy

morpheus-proxy is a programmable HTTP/gRPC proxy for tests. Rules, loaded at
run time through an admin API, decide which exchanges are captured, mocked,
delayed, modified or answered with faults; "apply the first N times" rules
count their uses; scripts run in a subprocess; what happened is kept in a
traffic log. The proxy is one Node.js process: there are no threads, but every
`await` lets other requests, admin calls, timers and child-process events run.
These modules model that concurrency and the state it shares, check it with
TLC and prove part of it with TLAPS.

## 1. Inventory

| Component (`src/src/...`) | State | Operations | Talks to | What is hard | What makes it correct |
| --- | --- | --- | --- | --- | --- |
| Rule store (`rules/store.ts`) | rule map, revision, cached snapshot | create, update, delete, disableAll, importRules, snapshot | admin API, pipelines; `onRuleChanged` to the registry | readers keep snapshots while writers go on | a revision names one rule set; no lost update |
| Consume registry (`rules/consume.ts`) | counters per rule id | tryConsume, recordHit, view, remaining, stateOf, reset, clone | evaluation, admin API | keyed by id, shared by all versions of a rule in flight | budgets hold; no rule is refused before it is spent |
| Evaluation (`rules/evaluate.ts`) | position in the pinned snapshot | evaluateRequest, evaluateResponseMatch | registry, matcher, sandbox | awaits between reading and consuming a counter | first match wins, observation rules never stop it |
| Matcher, validation (`rules/matcher.ts`, `rules/validate.ts`, `grpc/rule-validation.ts`) | none | evalMatcher, validateRule | sandbox, descriptors | nesting, absent fields, what a matcher needs of a body or of trailers is asked before it is evaluated | rules that are accepted can take effect; nothing they look at is missing |
| HTTP pipeline (`proxy/pipeline.ts`) | one exchange | handleHttpExchange | evaluation, upstream, log | aborts, faults, limits and errors at any await | exactly one log entry, the right outcome, one response |
| HTTP/CONNECT listeners (`proxy/*-listener.ts`) | connections, tunnels | accept, sniff, upgrade, close | pipeline | admission limit, leaks, two sockets of a tunnel ending in any order, close with open tunnels | the limit holds, every connection is released |
| Upstream, body, patches (`proxy/upstream.ts`, `body.ts`, `patch.ts`, `actions.ts`, `headers.ts`) | one call or buffer | send, readBodyUpTo, apply | pipeline | timeout, error and answer race; partial patch | settles once; limit respected |
| gRPC listener (`grpc/grpc-listener.ts`) | one call | unary, streaming relay | evaluation, upstream, descriptors, log | three competing log guards, half-closed streams | exactly one log entry, the call ends |
| Descriptors, reflection (`grpc/descriptors.ts`, `reflection*.ts`) | registry, in-flight imports, two negative caches, observed targets, retry timers | add, remove, import, ensure, importObserved, close | gRPC listener, admin API | concurrent imports, replacement, retry, close | one import per target, upstreams not asked in vain again and again, silence after close |
| Simulation (`admin/simulate.ts`) | none of its own; a clone of the counters | simulate a sample or a log entry | rules, matcher, traffic log | evaluation, conditions and actions repeated in code of its own | it foretells what the exchange does |
| Traffic log (`logging/traffic-log.ts`, `retention.ts`) | entries, byte count, file queue, files | add, list, readBody, clear, retention sweep | pipelines, admin API | asynchronous files, eviction during reads and paging | caps, no orphaned body, complete pages |
| Script sandbox (`script/sandbox.ts`) | jobs, timers, worker, closed flag | run, close, child-process events | evaluation, manipulators | kill, restart and late answers | each run settles once with its own result |
| Admin server and APIs (`admin/*.ts`) | none of its own | routes | all of the above | none beyond the components called | - |
| Masking (modelled as far as entries show it), app log, metrics, config (`logging/mask.ts`, `app-log.ts`, `observability/`, `config/`) | names; output; counters; none | - | - | none: sequential | - |
| Main (`index.ts`) | ready, shutting down | start, shutdown | all | partial start-up, shutdown with connections open | shutdown ends, and only after everything is closed |
| Web UI (`ui/`), demo (`demo/`) | browser state; example services | - | admin API; the proxy | outside the proxy | - |

`PROJECT.json` lists every component with its status, and under `hazards` the
places in this code where something can go wrong that a test would hardly reach.

## 2. Modules

| Module | Models | Kind |
| --- | --- | --- |
| `RuleTypes` | the rule record and its constants | shared definitions |
| `RuleStore` | `store.ts`, with the admin clients and requests that hold snapshots | component and abstract specification |
| `ConsumeRegistry` | `consume.ts` and the clock | component, no specification of its own |
| `RuleEngine` | `evaluate.ts` over `RuleStore` and `ConsumeRegistry`, driven by requests, the rules API and time | composition; implements `StoreSpec` |
| `RuleEngineProofs` | theorems about the store and the engine | proofs |
| `ScriptSandbox` | `sandbox.ts` and the subprocess | component with fairness |
| `ScriptSandboxProofs` | theorems about it | proofs |
| `TrafficLog` | `traffic-log.ts`, the sweep of `retention.ts`, the calls of `logs-api.ts` | component |
| `TrafficLogProofs` | theorems about it | proofs |
| `ExchangeOutcome` | the outcome and the reason of a log entry (`decideOutcome`, `loggingReason`) | shared definitions |
| `ExchangeLog` | what any proxied exchange promises about its trace | abstract specification |
| `HttpExchange` | `pipeline.ts`, with the client's side of `http-listener.ts` and `readBodyUpTo` of `body.ts` | component with fairness; implements `ExchangeLog` |
| `HttpExchangeProofs` | theorems about it | proofs |
| `GrpcExchange` | what both paths of `grpc-listener.ts` share: the call's state, `respondGrpc`, `makeWriteLog`, the request stage, the upstream call | shared part of a component |
| `GrpcCall` | `handleUnary` and `handleStreaming` from the upstream's reply on, composed with it | component with fairness; implements `ExchangeLog` |
| `GrpcCallProofs` | theorems about it | proofs |
| `DescriptorRegistry` | `descriptors.ts` | component, no specification of its own |
| `ReflectionFetch` | `reflection.ts`: one import as a function of the server's answers | pure |
| `ReflectionImport` | `reflection-import.ts` over the two, driven by calls, the admin API, the configuration, shutdown and time | composition with fairness |
| `ReflectionImportProofs` | theorems about it | proofs |
| `Connections` | the connections of `http-listener.ts`, `connect-listener.ts` and `startGrpcListener()` | component with fairness |
| `ProxyProcess` | `index.ts`: start-up, signals, shutdown, over `Connections` | composition with fairness |
| `ProxyProcessProofs` | theorems about both | proofs |
| `Matchers` | `matcher.ts` | pure |
| `RuleDefinitions` | `validate.ts`, `rule-validation.ts` | pure |
| `Changes` | `actions.ts`, `patch.ts`: whether an action changes a message | pure |
| `TrafficMatching` | the parts of `pipeline.ts`, `body.ts` and `grpc-listener.ts` that decide what the rules see of an exchange and what comes of it | pure |
| `Simulation` | `simulate.ts`, with rules created and exchanges passing | composition of the four |
| `SimulationProofs` | theorems about the five | proofs |
| `MC*` | instances for TLC | |

### Rule store, consume registry, rule engine

One action per method. A method that throws changes nothing, so it is a
stuttering step. `createdAt` is a number: the code compares the strings, and a
call that sends none gets the time of the call, so a payload carries whichever
applies. The sorted array of a snapshot is modelled by the set of its rules
with the order `Ahead` (`compareRules`), which is total on distinct ids; the
evaluator takes the first rule left in that order. `Definitions` stands for the
rest of a rule: a record of the few fields the evaluator acts on, and an input
says which definitions' matchers accept it, reject it or throw.

An evaluation is cut at each `await evalMatcher`: `LookAtNext` covers the code
from one rule's outcome to the next rule's `await` (with `view()`, which may
reset an expired counter), the other actions the code after it. An action is
never longer than a synchronous stretch of the code; some stretches are two
actions, which allows more interleavings than the event loop does and is sound
for the safety properties checked. A counter absent from the map and a fresh
one cannot be told apart through the class, so `counters` is total. The clock
only advances. Body reading, request actions and the upstream call lie between
`Begin`, the evaluation and `RespondTo` and touch none of this state.

`uses` is a history variable: per rule id, how often the rule applied since its
counter was last reset by the API (`total`), under the definition stored at the
time (`current`), and in the current series of applications without a quiet
spell as long as some `resetAfterMs` (`run`), with the limit and time of the
last one.

### Script sandbox

The event callbacks and methods of the class are one action each. A call's
promise is settled at most once, as promises are. What Node does is chosen
freely: a spawn may fail ('error', never 'exit'), a worker may die at any time,
its exit, its last messages and the closing of its channel may be reported in
any order, sent jobs may be lost, scripts may answer in any order or not at
all, timers may fire at any time.

Fairness: armed timers fire, and the exit of a process that has ended is
reported. Both are what Node's event loop guarantees. Nothing is assumed of
scripts, of message delivery or of the send callback. With it TLC checks that
each `run()` settles, that a dead worker has a successor and that `close()`
completes. `CloseCompletes` excludes one case the code does not survive: if the
current worker is one whose spawn failed, it stays in `this.worker`, `run()`
refuses for ever, and `close()` waits for an exit event that cannot come.

### Traffic log

`entries` is the array, oldest added first; `pending` is the promise chain of
file operations, executed one at a time; `readBody()` remembers how many
operations were queued when it was called. Writing, creating the directory and
deleting may fail; `failed` records the bodies this happened to, so that the
properties can say "unless its file operation failed". A failed write is
modelled as leaving no file. One client pages through the log with
`nextCursor`; `owed` holds the entries it must still be shown.

### HTTP exchange

`HttpExchange` is one call of `handleHttpExchange` from the moment the rules are
pinned. Exchanges share only the rule store, the counters and the log, which the
modules above describe, so one exchange is enough; what the evaluator finds is a
choice (`MayFind` keeps the part of it that depends on the body). `pc` names what
the handler awaits, or the next piece of synchronous code; the other variables
are the handler's locals (`rule`, `flags`, `drafts`, `changed`), the listener's
exchange object (`conn`, `response`) and the upstream's reply. `Hangup` is
`destroy()`, `Respond` is `respond()` and `respondStream()`, which do nothing on a
connection that is gone and destroy it when the headers are refused. Both
listeners' exchange objects are covered; where HTTP/1.1 and HTTP/2 differ
(`Piped`) either may happen. `ClientLeaves` may occur between any two actions,
also inside a synchronous stretch that is cut into several actions: this only
adds behaviours.

A rule is a record of what the handler branches on: does its matcher read the
body, is there a delay, which action in each stage, is there a response
condition. Rewrites may change nothing, change something or throw, and a script
may patch, leave alone or fail. Headers and bodies are left out: a request body
is streamed, buffered, empty, short of its declared length or aborted. Of a reply
above the limit (`"overflowed"`) only a prefix is read; what the client is sent is a
stream of the proxy's own, behind which the upstream's is `"spliced"`: a client that
leaves has the one destroyed and not the other.

`ExchangeLog` is the promise in the comment above the main `try`: an exchange is
refused unseen (413), or counted once and, in the same step, logged at most once.
`HttpExchange` implements it with `rejected <- Refused`.

Fairness (`WF_vars(HandlerStep)`): the event loop runs what is due, timers fire,
a script run settles (`ScriptSandbox`, `EveryRunSettles`), the upstream's headers
arrive or their timeout strikes (`upstream.ts`), and a client whose body is being
read and that has left is noticed. Nothing is assumed of peers that go on sending:
neither body has a timeout in the code, and `EndsUnlessBodyStalls` says just this.

### gRPC call

`GrpcExchange` and `GrpcCall` are one call of `grpcStreamHandler`: buffered if the
descriptors know its method to be unary, relayed otherwise (`unary`). The variables
are those of `HttpExchange`, with the client's HTTP/2 stream for the connection and
`ending` for the trailers, which in a relayed call are sent long after the headers.
The request stage and the response stage are shared where the two paths do the
same; where they differ (mocks, faults of the response stage, what a patch may
change), the actions are guarded by `unary`.

A relayed call has no last line: after `StartRelay` its handler has returned, and the
end of the reply (`ReplyEnds`, with awaits of its own), an error of it
(`ReplyErrors`) and the client's departure (`ClientLeaves`) race to write the entry.
`Logged` is the flag that decides. `destroy()` of a stream and its `'close'` event are
one step, since Node emits the event before an awaited promise goes on. Three things
an HTTP/2 stream may do are choices: a reset that looks like an end (`"cut"`), an
end reported after the proxy destroyed the stream, and an error after the end.
A reply that breaks while the response stage awaits finds no listener (`"lost"`).
One whose status cannot be decoded has no trailers to send on: the client's stream is
destroyed (`"garbled"`).

What an outcome in the log may stand for is `AnswerFits`. Two of its clauses are about who
ended the call. `client_aborted` means that the client left, or that the proxy destroyed
the stream before anything went out on it (a request that broke off, an answer that
`stream.respond()` refused): once an answer has begun, the relay must tell its own
`destroy()` from the client's. And the outcomes of an applied or passed-through answer
ask for its trailers, unless the upstream's were garbled.

Fairness is that of the HTTP exchange. `CallEnds` leaves out peers that stall, `hang`
faults and lost replies.

### Reflection import

The registry is a set of descriptors, each the set of services it defines and where
it came from. `Fetched` is a whole import as a function of a server: what its calls
meet with (every way `callReflection()` can fail, with the reason it is given), what
it lists, what it has files for, and whether these are complete. It shares no state,
so the importer sees only its result.

In `ReflectionImport` a fetch takes any time; the rest of the importer is
synchronous, and the continuations of a promise that has settled are microtasks,
which run before anything else: the end of a fetch is one action with all that
follows for whoever awaits it. `ImportSucceeds` and `ImportFails` are `run()`;
`ImportIsRefused` is the case in which the fetch succeeds and the registry throws.
`inFlight` holds for each target the symbols asked for and who waits: a call for a
service, reflect-all, an admin request, a start-up attempt. A call that joins an
import is a waiter like the one that started it (`ensure()` awaits what `import()`
returns). `entryFor()` evicts the target seen least recently; when calls came is not
kept, so `Kept` lets it be any. `fetches` and `askedAt` are history variables: how many
fetches run, and when a call last asked in vain.

Fairness: a fetch ends (each of its calls has a timeout), timers fire, and
reflect-all answers when all its imports have. Nothing makes calls or
administrators do anything.

### Connections and the process

A connection goes through the stages of its listener: the head of a CONNECT
request, the first bytes that tell HTTP/2 from HTTP/1.1, a server, perhaps a tunnel
to the upstream. `counted` are the connections that hold a slot. Whatever ends a
connection makes its stage `destroyed`; the slot is given back by the `'close'` event,
`SocketCloses`, later, except that the gRPC listener also gives it back on the error of
a session. The two sockets of a tunnel are one record, whose ends (`left`, `upstream`)
change independently. A stalled upstream takes no more bytes, and then `pipe()` reads
no more from the client. `end()` closes a socket only when the bytes written before have
been taken: until then it is `"ending"`, on either side of a tunnel, and `EndIsOver` and
`UpstreamEndIsOver` need not happen. What is done in an exchange is in the exchange modules; here
a server may drop a connection at any time.

`ProxyProcess` binds the listeners in order and then the admin server. A port that
cannot be bound ends `main()`, which only sets the exit code: the process goes on as
`stranded`, with the earlier listeners serving. A signal closes everything when the
process is ready, and kills it before that, since no handler is installed yet. A
server is closed when its last connection is (`ServerCloses`), the logs are flushed
when every server and the sandbox are closed.

Fairness: Node reports the end or the closing of a socket, connecting to an upstream
succeeds or fails at the latest by the system's timeout, and the callbacks of
`close()` are called. Nothing makes a client leave or an upstream answer, and nobody is
made to take bytes. `ConnectionsEnd` therefore excludes connections that are again and
again stuck with bytes that are not taken: answered 405 before their request was
read, ending, or tunnelled to an upstream that stalls or has ended (`Stuck`); and of
tunnels whose upstream has ended only those in which it never takes what it was sent.
`MCProxyHalfOpen` (below) shows that such tunnels exist.
`ShutdownCompletes` excludes the sandbox whose subprocess could not be spawned (see
above).

### Rule definitions, matching, simulation

A pattern is the set of values it accepts and a message is a function from the fields a
matcher may name to their values, none if the message lacks the field, several for a
repeated header. Patterns are taken as anchored where validation reads a literal from one:
`literalFromPattern()` also accepts unanchored ones and a dot left unescaped.
`EvalMatcher` goes through `all` and `any` in order, so that a script that throws decides
only if it is reached. A script looks at one place (`sight`), in the request or in the
response: a script of the response stage has both. Names of headers and trailers are of
three kinds, those the log masks, those the gRPC listener reserves and the others.
`Nameless` is the field `grpc.trailer.` that validation accepts and no reply has.
`RuleIsValid` follows `validateRule()` part by part. `Changes` says whether an action or a
patch changes a message, which decides the outcome of an exchange.

`TrafficMatching` has what the two pipelines make of it: which bodies are read
(`BodyHandling`: streamed, read, or refused with 413), the snapshots, a reply judged by
its headers or after its trailers. `rawBodyBase64` is the encoding of the bytes that came,
which for a gRPC message are not its JSON text: `Base64` and `Framed` are constant
operators, and the theorems hold whatever they are. `Outgoing` is what is sent on of a
gRPC reply, without the headers that the listener writes itself; scripts see the reply as
it came, patches and replacements change this. `EvaluateRequest` has in `Walk` the closed
form of what `RuleEngine` does step by step; it is right because `FirstMatchWins` holds
there and verdicts do not depend on each other. `Live` is what an exchange does,
`Simulated` what `simulate.ts` says it would do, written from that file's own code. In
`Simulation` rules are created, exchanges pass and are logged, and simulations are made of
samples and of the newest entry; the history variable `step` holds the last step and its
result. An entry (`EntryOf`) holds the request and the reply masked, with bodies only if
they are kept, and of a gRPC reply what was sent on. Delays, the differences shown for
bodies and simulations of a draft are left out.

The properties say what they leave out. `SampleForetells` (`Foreseeable`): bodies that are
absent, streamed or too large where a rule looks at them; of gRPC, relayed calls, calls
without a status, rules that look at the bytes or at decoded messages, mocks that do not
encode, manipulators and replacements of reserved headers. `PlainLogForetells`: rules that
look at anything an entry does not have as the listener saw it (`InTheLog`,
`ReplyInTheLog`), replies that rules made or changed, and mocks that were passed over on a
streaming call. `BodyIsReadWhenItMatters`: what the response stage makes of a rule whose
response stage looks at the request's body (`ScriptsHaveTheBody` below).
`AcceptedRulesCanWork`: the nameless trailer (`NamedFieldsExist`).

A matcher is a tree. What the code does by recursion on it (`evalMatcher`,
`collectMatcherFields`) is a recursive function on the constant `Matchers`, the matchers
and conditions there are, and `Depth` tells how deep each is nested, so that a theorem
covers every nesting (`MatcherConstants`). `SimulationConstants` says that presets are
valid, which `main()` sees to; that a draft has the types of `types.ts`, or `Malformed` in
their place; and that for each protocol some exchange lacks nothing, since otherwise no
rule could be said to work.

## 3. Runs

| Run | Instance | Shows |
| --- | --- | --- |
| `rule_store` | 2 ids, 2 priorities, 2 ages, one client that sends revisions and one that does not, 3 mutations | `RevisionNamesRuleSet`; `NoLostUpdate` |
| `rule_engine` | 3 ids (two preset), 3 interchangeable requests, 3 mutations or resets after the presets, 3 instants | `BudgetRespected`; `FirstMatchWins`; `ExhaustedOnlyWhenSpent` |
| `script_sandbox` | 2 calls, 2 crashes, up to 5 workers | all sandbox properties, with liveness |
| `traffic_log` | 4 adds of 3 sizes into room for 3 entries and 3 units, pages of 1, one concurrent body read, 3 instants | all log properties |
| `http_exchange` | every action of each stage, with and without delays, a response condition and a rewrite before, and a rule that reads the body | all exchange properties, with liveness and the refinement of `ExchangeLog` |
| `held_reply` | the same | `ReplyIsReleased` is violated (finding 2) |
| `grpc_call` | unary or not, every action of each stage, with and without delays, response conditions of each kind and a rewrite before | all call properties, with liveness and the refinement of `ExchangeLog` |
| `reflection_import` | 2 services, 3 targets (one configured, one called, one malformed), 3 descriptors, a wait of 2, 2 attempts, room for 1 observed target, 2 calls or requests, 4 instants | `OneImportPerTarget`, `VainQueriesAreSpaced`, `QuietAfterClose`, `ImportsSettle` |
| `reflection_replace` | the same | `FailedImportKeepsDescriptors` is violated (finding 1) |
| `proxy_process` | a listener of each kind, 2 clients, a limit of 1 | `LimitHolds`, `ExitIsOrderly`, `ConnectionsEnd`, `ShutdownCompletes` |
| `rule_matching` | drafts that vary one part of a rule at a time, valid or not, of both protocols, after one of four first rules; 15 exchanges of which one passes; 2 rules | `AcceptedRulesCanWork`, `BodyIsReadWhenItMatters`, `TrailersAreAwaited`, `SampleForetells`, `PlainLogForetells` |
| `simulated_log` | the same | `LogForetells` is violated (finding 3) |

Every module with variables has a type invariant (`TypeOK`, `StoreTypeOK`). The runs leave them
to the proofs where there is one and keep to one question each; any of them can be
added to its configuration.

Deadlock checking is off: every model has bounded counters, and requests, calls
and logged exchanges are finite in number, so all of them stop; `ProxyProcess` stops
when the process ends.

Why the bounds are enough for what can go wrong. Store: a stale revision needs one read,
one intervening write and one more write; ties on each criterion of `compareRules` occur.
Engine: to overrun a budget of two, three requests must hold it at once; presets leave one
mutation (`MaxRevision = 4`) besides any number of counter resets, so that a request can
hold the old definition while others hold the new; `resetAfterMs` is 2 and the clock
reaches 2, so both sides of the boundary occur. Sandbox: an answer can meet a foreign job
only if one call is sent before and one after a restart, which two calls and one death
give; the second death leaves room for the replacement to die too. Log: an entry too large
for the cap alone, eviction by count, by bytes and by age behind a younger entry, and a
cursor whose entry is evicted, all occur with four adds. Exchange and call: nothing is
bounded; the instances hold a rule for each combination of what the handler tells apart,
except that a delay of the request is not combined with a response action, which it cannot
influence. Importer: an import shared by a call and a start-up attempt, a second failure
while the first is remembered, an eviction, and a `close()` during an attempt and during a
wait all need one or two requests; the wait of 2 ends within the 4 instants. Process: one
client holds the slot of a listener while the other asks for it, and they may be on
different listeners. Matching: the rules of a set meet only in the walk, in the need for
bodies and in their counters, which two rules show; the draft is a rule of its own and the
second of a pair; a count of 1 is spent by the one exchange. Simulations change nothing
but `step`, so their states are checked and not gone on from (`GoesOn`). Symmetry is used
only for the interchangeable requests of the engine, whose runs check no liveness.

### Findings

1. The comment of `import()` says that a successful import replaces the descriptors
   of its target (`reflection-import.ts:174`). `run()` removes them before the registry has
   accepted the new ones, and the registry refuses a set with unresolved references: the
   import fails and the target is left without descriptors
   (`FailedImportKeepsDescriptors`).
2. The comment in `h2Exchange` (`http-listener.ts:82`) leaves the cleanup after a
   client's reset to the `'close'` handlers. They are installed together with the
   response, so a client that is gone before leaves the upstream's reply with a
   body that nobody reads or destroys (`ReplyIsReleased`).
3. `docs/spec.md:316` says a simulation of a saved log entry returns what the current
   rules make of it. The request is rebuilt without its host and, for gRPC, without
   service, method and metadata (`simulate.ts:69`), so rules that match on one of these are not
   found (`LogForetells`).

Further disagreements, each with a configuration to run by hand
(`tlc -config <file>.cfg <module>`). TLC stops at the first counterexample; where a
configuration lists several properties, `tlc -continue` goes on to those of the others:

| Configuration, module | Property | What it shows |
| --- | --- | --- |
| `MCRuleEngineUpdate`, `MCRuleEngine` | `UpdateStartsAfresh` | `docs/spec.md:308` says updating or deleting a rule initialises its consume counter. A request in flight keeps the definition it pinned and counts against the counter after its reset, so the updated rule may be exhausted before it was applied as often as it allows. |
| `MCTrafficLogSweep`, `MCTrafficLog` | `SweepDropsAllExpired` | `applyRetention()` "Drops entries older than retentionMs" but stops at the first young entry, and entries are ordered by the end of their exchange while age goes by its start. |
| `MCHttpDisagreements`, `MCHttpExchange` | `FailedPatchPassesThrough` | `docs/spec.md:1354` defines `rule_error` as a rule that could not be applied and a response passed through. A patch is applied field by field: one refused for its body has changed the headers by then. `LogTellsWhatClientGot` and `ChangesAreTraceable` leave this case out (`changed = "halfway"`). |
| `MCGrpcDisagreements`, `MCGrpcCall` | `UpstreamAnswerIsReturned` | `docs/spec.md:162` says an upstream's response is returned as it is. `grpcStatusOf()` throws at a `grpc-message` with a stray percent sign; a unary call then ends with the proxy's INTERNAL, without any rule. |
| `MCGrpcDisagreements`, `MCGrpcCall` | `ModifiedIsDelivered` | `docs/spec.md:1167` says patches of trailers and status are applied to the trailers of a relayed call. Without a response condition on trailers the script runs before them and this part of its patch is dropped, while the entry says `modified`. |
| `MCGrpcDisagreements`, `MCGrpcCall` | `RuleErrorIsPassedThrough` | `docs/spec.md:1354` again. At the end of a relayed reply such a `grpc-message` makes `grpcStatusOf()` throw (`grpc-listener.ts:136`): the call is logged as `rule_error`, without any rule, and its client gets no trailers. |
| `MCGrpcDisagreements`, `MCGrpcCall` | `AbortIsTheClients` | `docs/spec.md:1355` defines `client_aborted` as a client that broke off. When `stream.respond()` refuses the headers a patch made, the proxy destroys the stream, and `writeLog()` takes a destroyed stream for the client's departure. |
| `MCHttpDisagreements`, `MCHttpExchange` | `SentReplyIsReleased` | The comment of finding 2 also fails when the handlers are there and the body is above the limit: the stream they destroy is the one `concatStream()` (`body.ts:6`) joins prefix and rest in; the upstream's, piped into it, stays open, unread. |
| `MCProxyHalfOpen`, `MCProxyProcess` | `NoHalfOpenTunnels` | "No half-open tunnels", says `http-listener.ts:192`. An upstream that ends its side and does not take what was written to it keeps the answering `end()` from being sent; the tunnel stays, and keeps its slot. |
| `MCSimulationDisagreements`, `MCSimulation` | `ScriptsHaveTheBody` | `body.ts:16` says the body is needed whenever a script needs its content. `ruleNeedsRequestBody()` looks at the request matcher only; a response script on the request's body fails when that was streamed. |
| `MCSimulationDisagreements`, `MCSimulation` | `NamedFieldsExist` | `docs/spec.md:634` gives trailers a name in matchers. Validation refuses `header.` without one (`validate.ts:191`) and accepts `grpc.trailer.` (`:197`), which no reply has. |
| `MCSimulationDisagreements`, `MCSimulation` | `TerminalActionsEnd` | `validate.ts:793` warns that the response stage of a rule that mocks never runs. On a streaming call the mock is passed over and the stage runs (`grpc-listener.ts:990`). |
| `MCProxyIdle`, `MCProxyProcess` | `IdleConnectionsEnd` | `docs/spec.md:1453` lists an idle timeout and a maximum of active streams among the limits. `limits.idleTimeoutMs` and `limits.maxActiveStreams` are read (`config/load.ts:376`, `:384`) and used nowhere. |

Worth knowing, though no text contradicts it:

- A reset of a relayed reply that looks like its end is passed on as an end with
  status 0; a reply that breaks while the response stage awaits leaves the client
  waiting; an encode failure of patched messages takes `modified` back even if the request
  was rewritten.
- An exchange that no rule matched is not logged when its client leaves while the body
  is buffered, and is logged as `client_aborted` when the client leaves while the body
  is streamed, because the upstream call then fails.
- An HTTP request with an empty body counts as streamed: every rule whose matcher names the
  body is passed over, under `any` and `not` as well (`pipeline.ts:273`).
- A simulation applies patches of gRPC replies by the rules for HTTP ones
  (`simulate.ts:329`), and judges a log entry by the reply the client got, with what rules
  changed or masked in it.
- A body above the limit whose sender breaks off while a delay is awaited destroys the
  stream of `concatStream()` with an error nobody listens for (`body.ts:9`); whether there
  is an error depends on the kind of stream. The model ends such a body when its reader
  comes.
- Relayed gRPC calls pass over connection and timeout faults of the response stage.
- When a port cannot be bound, the listeners bound before it go on serving, without
  signal handlers. Exchanges that are in flight at the shutdown may still be logged
  after the flush.
- A tunnel whose upstream stalls does not notice that its client has left. The servers
  that sniffed and CONNECT connections are handed to never listen themselves, so that
  Node's checks for slow requests do not run for them.

## 4. Proofs

All theorems hold for every value of the constants that satisfies the named assumptions
(`RuleConstants`, `StoreConstants`, `EngineConstants`, `ExchangeConstants`,
`CallConstants`, `LogConstants`, `ImportConstants`, `ConnectionConstants`,
`ProcessConstants`, `SandboxConstants`, `MatcherConstants`, `SimulationConstants` and the
like: payloads, batches, drafts and presets are well typed, rule ids, clients and kinds of
bodies are finitely many, limits and periods are naturals, `Nil` is none of the values it
stands beside). TLC evaluates the assumptions on the instances.

`RuleEngineProofs`, the rule store. `StoreInv` is `StoreTypeOK /\ RevisionNamesRuleSet`. The type
of `revision` and of the snapshots is needed: a mutation keeps the invariant
because every revision held is at most the current one and `revision + 1`
exceeds them all, and the cache is dropped (`BumpPreserves`, shared by all
mutations); `Read` keeps it because the snapshot it hands out, cached or fresh,
is the stored set (`SnapshotCurrent`). `NoUpdateIsLost` follows at once.

`RuleEngineProofs`, the engine. First, every step of the engine is a step of the store or
leaves it alone (`EngineImplementsStore`, with the identity mapping), which
brings `StoreInv` over. Then `CountersTrackUses`: a counter never exceeds the
applications since its reset, never falls short of the current run unless a
quiet spell has passed, and `lastConsumedAt` is the time of the last
application. The last part is what makes it inductive: it shows that an
automatic reset can only happen after a quiet spell (`ResetMeansQuiet`).
`BudgetHolds` and `SpentOnlyByUse` are corollaries. There is a lemma for each
action of a request, one for the admin calls and one for the clock. Last,
`FirstMatchIsChosen`. `FirstMatchWins` speaks of evaluations that are over; `Walk` says
it of one under way: the rules of the pinned snapshot divide into those taken up, the
one at hand and those to come (`ToCome`), a rule the evaluation looked at and left
behind is ahead of all to come in the order of evaluation, and if it fits it is an
observation rule that was captured or a consumable one. Each of the ways an
evaluation moves (`WalkTakesUp`, `WalkGoesOn`, `WalkSelects`, `WalkRunsOut`) keeps that,
which uses that `Ahead` is asymmetric and that no two rules share an id; rules edited
meanwhile do not matter because the snapshot is pinned.

`HttpExchangeProofs`. For every set of rules (`ExchangeConstants`,
`NilConstant`). `LogTellsWhatClientGot` and `NobodyLeftWaiting` are not inductive:
that an outcome fits depends on which flags can be set before an exit. `ExchangeInv`
adds that until an exit is taken there is no record, no answer and no flag but
`modified` and `delayed` (`NothingYet`), what each stage knows of the rule, the
body and the upstream (`StageFacts`), and that after it there is one record and at
most one entry (`Decided`). Steps before an exit share the lemma `GoingOn`, exits
`Leaving`, refined for exits with an answer, faults and the catch block; the steps
of the client and of a streamed reply change none of it. `ExchangeRecordedOnce`,
`AppliedRulesAreLogged`, `LogIsTruthful`, `ClientIsServed` are corollaries. So is
`ExchangeImplementsTrace`: by `NothingYet` and `Decided` a step that leaves the
running stages is one of the abstract actions, every other one a stutter.
`TellInv` takes the entry's contents on: while the exchange runs, a flag `modified` has
its source in a changed message or a forwarded draft (`Sources`), and each exit hands
`writeLog` flags, drafts and an error that are sound (`EntryIsSound`). Hence
`LogGivesTheReason` and `ChangesLeaveTraces`. `OnlyWholeBodiesPass` needs
`BodyIsSettled`: with a body that is not whole the exchange is at its abort or over.

`GrpcCallProofs`. `CallInv` is built like `ExchangeInv`: `NothingYet` before an exit or
the relay, `StageFacts`, and `Decided` from the one entry on. What is different is that a
call goes on after it is logged: a streaming reply is relayed while its `close` handler
may have written the entry already. `RelayFacts` says what each of the three log guards
relies on: until the entry is written the stream is open and nothing but `modified`,
`delayed` and `fault` is flagged; once it is written the stream is gone and the outcome is
one of the two a close can have, so that no later trailer or error changes what it says.
That a `client_aborted` call whose answer had begun was left by the client rests on it
too: of the ends of a relay only `ClientLeaves` writes this outcome, and the entry is
there before the proxy's own `destroy()`. `ChangeIsFlagged` ties the changed reply to its
flag. `AppliedRulesLeaveEntries`, `LogMatchesAnswer`, `UnaryChangesLeaveTraces` and the
refinement `CallImplementsTrace` follow.

`TrafficLogProofs`. `LogInv` has a part for each promise. `CleansUp`: a body on disk, or
whose write is queued, belongs to an entry, or failed, or its deletion is queued
*behind* that write. `KeepsBodies` and `ReadersWait`: no deletion is queued for a stored
body, and one a reader is about to read is on disk or its write is among the operations
it waits for; this rests on ids growing, so that an operation in the queue never names
an entry added later. `WalkStands`: what a page walk was shown is not behind its cursor,
what it is owed is, and if the cursor's entry is gone so is everything behind it,
because removal takes the oldest. Entries are stored by `WritesQueued` and removed by
`OldestRemoved`, for `add()`, the sweep and `clear()` alike. `LogKeepsItsCaps` needs that
the bytes of a log are those of what is removed and of what is left
(`BytesOfParts`), and the queue that `OnBodies()` holds one operation for each body
(`OnBodiesElements`). Both are about recursive functions and are proved by the least
counterexample (`FirstOf`), the library's induction theorems being out of the provers'
reach.

`ScriptSandboxProofs`. For any number of calls and crashes (`SandboxConstants`). That an
answer is a call's own is not inductive: it depends on the answers under way. `JobInv`
adds that ids are handed out in order and suffice for the calls to come, that each
pending call has exactly one job and each armed timer is that of a job
(`TimersHaveJobs`), and that what is under way to or from any worker, dead or alive,
carries the call of its id's job or an id without one (`MessagesBelong`). An action
starts a job (`OneJobStarts`), ends one (`OneJobEnds`: answer, timeout, send failure) or
all (`AllJobsEnd`), or leaves them alone. `AnswersAreOwn`, `KillsAreForWaiters` and
`PendingCallsAreRegistered` are corollaries.

`ReflectionImportProofs`. Three invariants, one for each theorem. `ShareInv`: fetches are
counted by `inFlight`, because every import is started by `ImportFor`, which joins what
runs (`ImportForShares`), and ended by `FetchOver`; and a target has one reflected
descriptor, because a success adds one after all others are removed. `QuietInv`: when the
importer is closed no attempt waits. `VainInv` is the one worth reading: of a target that
is not being asked, for each service, the wait since a call asked in vain is over, or the
failure or the absence is remembered until it is (`Remembered`). It is kept because
a success that clears the failure of the target leaves behind, for each service, that
asking was of use or that the service is absent (`SuccessIsRemembered`), and a failure
covers all services (`FailureStep`). `QueriesInVainAreSpaced` follows from the guards of
`ensure()`. Malformed targets are apart: their failures are not remembered, and calls never name
one; that no other fetch fails that way is the lemma `ReasonsOfFetches`.

`ProxyProcessProofs`. `ConnInv`: a connection that is served holds a slot, no listener has
more slots taken than the limit, and of a closed connection only the other end of its
tunnel is left, so that nothing the upstream does can bring it back to life. A connection
that is ending is one that is served, and closing it later changes nothing of this. Most
actions move one connection on (`OneConnectionGoesOn`) or give its slot back
(`OneConnectionEnds`). `LimitIsKept` follows with `FS_Subset`. `ProcessInv` adds that a
closed server has no connection: none arrives at it, and none of its connections reopens
(`NoneOpens`). Hence `ShutdownIsOrderly`.

`SimulationProofs`. First, what the recursive functions on matchers compute: their
equations (`PartsOfMatcher`, `VerdictOfMatcher`) hold because `Depth` makes the nesting
well founded, and induction on matchers is replaced by a counterexample of least depth
(`LeastMatcher`). `SameVerdict` is the lemma the rest stands on: two pairs of messages
that every regex and script in a matcher sees alike get the same verdict from it, errors
included, however `all`, `any` and `not` cut the walk short. `VerdictOnSights` says it of
the places looked at, in the request and in the response. From them come `SameEvaluation`,
for whole rule sets, and what leaving out a body or trailers can change
(`VerdictWithoutBody`, `VerdictWithoutTrailers`). `SimulationInv` is about the past: the
stored rules are valid ones, `step` is what the evaluation of its exchange or simulation
came to (`ExchangeIsReal`, `SampleIsReal`, `LogIsReal`), and the entry tells of some
exchange, with some counters, under the rules it holds (`EntryIsReal`). TLC checks it on
the instance of `rule_matching` with the counters bounded. That it is kept
(`StepsAreReal`) is short; each property then follows from it and facts about operators:
`BodiesAreRead` because a body is left unread only if no active rule needs it
(`BodyIsReadOrUseless`), `TrailersAreRead` by `VerdictWithoutTrailers`, `SamplesForetell`
by following `Live` and `Simulated` side by side (`SampleEvaluation`,
`SampleResponseStage`), `PlainLogsForetell` because what an entry holds unmasked has the
values it had (`RequestInLog`, `ReplyInLog`), so that the same rules apply
(`LogEvaluation`, which needs that rules do not count), the reply is asked about
(`LogAsks`) and judged alike (`LogVerdict`), and `AcceptedRulesWork` from validation field
by field.

Only model-checked: every liveness property (sandbox, exchange, call, importer,
connections, process), because liveness under fairness is out of the prover's reach, and
the violations, which are counterexamples. Every other invariant and action property a
passing run checks is stated by a theorem.

## 5. Not modelled

Components with status `not_modelled` in `PROJECT.json`, each with its reason:
the application log, metrics and configuration are sequential and keep no state the
properties are about, gRPC frames are a conversion of bytes, the web UI and the demo
services are outside the proxy. Inside modelled components:

- `lastMatchedAt` of the registry, previews, event subscribers, the SSE stream and the
  export of the log, the contents of scripts and messages.
- A failed body write that leaves a truncated file is not distinguished from one that
  leaves none.
- The timers and events inside `upstream.ts` and `readBodyUpTo()`: the exchange modules have
  their outcomes.
- `planDelay()`, the filtering of hop-by-hop headers, the masking of JSON texts.
- Scripts that look at more than one place, or at `ruleState` and the ids of an exchange;
  gRPC messages that cannot be decoded; the `content-length` of gRPC replies.
- Of the importer what is only shown: status reports, `lastSeen`, warnings.
- Of a simulation: rule drafts, differences of bodies, delays.
- The runtime a CONNECT listener builds for each authority, the parsing of request
  heads, the routing and authentication of the admin server.
- A matcher script's own `timeoutMs`, which validation does not cap: in `ScriptSandbox` a
  timer may fire at any time.
- Restart: everything but body files is lost, and nothing in the code looks at those
  left over.

## 6. Plan

What an extension would add, the most useful first:

1. `upstream.ts` and `readBodyUpTo()` event by event, shown to implement what the exchange
   modules assume of them (settling once, the limit, no timer left armed).
2. Exchanges in the composition of `ProxyProcess`, to follow what is logged after the
   flush.
3. The simulation of rule drafts and `rule_store` merged into `rule_engine`, whose
   specification includes its actions.
