------------------------------ MODULE Connections ------------------------------
(***************************************************************************)
(* The client connections of the proxy's listeners: http-listener.ts,      *)
(* connect-listener.ts and startGrpcListener().  A connection is admitted  *)
(* against limits.maxConcurrentConnections, its first bytes decide what    *)
(* serves it, and its slot is given back by its 'close' event, which comes *)
(* some time after whatever closes it.  What happens inside an exchange is *)
(* in the exchange modules.                                                *)
(***************************************************************************)
EXTENDS Integers, FiniteSets

CONSTANTS
  Listeners,
  KindOf,         \* of each listener: its protocol, and its mode if "connect"
  Clients,        \* identities of connections, reused when they are closed
  Limit,          \* limits.maxConcurrentConnections
  Nil

Kinds == {"http", "grpc", "connect_http", "connect_grpc"}

ASSUME ConnectionConstants ==
  /\ KindOf \in [Listeners -> Kinds]
  /\ IsFiniteSet(Clients)
  /\ Limit \in Nat \ {0}

VARIABLES
  conn,       \* of each client: Nil, or its connection
  counted     \* of each listener: `connections`, or `sessions`

connVars == <<conn, counted>>

Stages ==
  {"head",          \* CONNECT listener: the request head is awaited
   "first_bytes",   \* the bytes that tell HTTP/2 from HTTP/1.1 are awaited
   "h1", "h2",      \* a server has the socket
   "upgraded",      \* it is tunnelled to the upstream
   "refused",       \* it was answered 405 and ended
   "refused_unread",\* likewise, with bytes on it that nobody reads
   "ending",        \* end() was called, with bytes on it the client does not take
   "destroyed",     \* its 'close' event is due
   "closed"}        \* it is closed; the other end of its tunnel is not yet

(* `left`: the client has closed or reset its side.  `upstream`: the other *)
(* socket of a tunnel; a stalled one takes no more bytes, and pipe() reads *)
(* no more from the client; when it is "ending", end() was called on it    *)
(* with bytes it does not take.                                            *)
Connection ==
  [at : Listeners, stage : Stages, left : BOOLEAN,
   upstream : {Nil, "connecting", "piped", "stalled", "ending", "destroyed"}]

ConnInit ==
  /\ conn = [c \in Clients |-> Nil]
  /\ counted = [l \in Listeners |-> {}]

Is(c, stages) == conn[c] # Nil /\ conn[c].stage \in stages

Goes(c, stage) == conn' = [conn EXCEPT ![c].stage = stage]

----------------------------------------------------------------------------
(* Admission and dispatch                                                  *)

FirstStage(l) ==
  CASE KindOf[l] = "http" -> "first_bytes"
    [] KindOf[l] = "grpc" -> "h2"
    [] OTHER -> "head"

NewConnection(l, stage) ==
  [at |-> l, stage |-> stage, left |-> FALSE, upstream |-> Nil]

(* Mutant: the limit itself is still let in.                               *)
AcceptOneTooMany(c, l) ==
  /\ conn[c] = Nil
  /\ IF Cardinality(counted[l]) > Limit
       THEN /\ conn' = [conn EXCEPT ![c] = NewConnection(l, "destroyed")]
            /\ UNCHANGED counted
       ELSE /\ conn' = [conn EXCEPT ![c] = NewConnection(l, FirstStage(l))]
            /\ counted' = [counted EXCEPT ![l] = @ \cup {c}]

Accept(c, l) ==
  /\ conn[c] = Nil
  /\ IF Cardinality(counted[l]) >= Limit
       THEN /\ conn' = [conn EXCEPT ![c] = NewConnection(l, "destroyed")]
            /\ UNCHANGED counted
       ELSE /\ conn' = [conn EXCEPT ![c] = NewConnection(l, FirstStage(l))]
            /\ counted' = [counted EXCEPT ![l] = @ \cup {c}]

(* The head of a CONNECT request ends, names no authority, or is too long. *)
ReadHead(c) ==
  /\ Is(c, {"head"})
  /\ \/ Goes(c, IF KindOf[conn[c].at] = "connect_grpc" THEN "h2" ELSE "first_bytes")
     \/ Goes(c, "refused") \/ Goes(c, "refused_unread")
     \/ Goes(c, "destroyed")
  /\ UNCHANGED counted

Sniff(c) ==
  /\ Is(c, {"first_bytes"})
  /\ Goes(c, "h1") \/ Goes(c, "h2")
  /\ UNCHANGED counted

(* Upgrade requests are handled by http listeners; the servers of CONNECT  *)
(* tunnels have no 'upgrade' handler, and their requests stay with the     *)
(* pipeline.                                                               *)
Upgrade(c) ==
  /\ Is(c, {"h1"}) /\ KindOf[conn[c].at] = "http"
  /\ conn' = [conn EXCEPT ![c].stage = "upgraded", ![c].upstream = "connecting"]
  /\ UNCHANGED counted

----------------------------------------------------------------------------
(* Ends                                                                    *)

ClientLeaves(c) ==
  /\ conn[c] # Nil /\ ~conn[c].left
  /\ conn' = [conn EXCEPT ![c].left = TRUE]
  /\ UNCHANGED counted

(* end(): the socket closes when the client has taken what was written.    *)
Finishes(c) == Goes(c, "destroyed") \/ Goes(c, "ending")

(* The end of the client's side is read and answered with an end.  In a    *)
(* tunnel nothing is read before the upstream is connected.                *)
EndIsRead(c) ==
  /\ conn[c] # Nil /\ conn[c].left
  /\ \/ Is(c, {"head", "first_bytes", "h1", "h2", "refused"})
     \/ Is(c, {"upgraded"}) /\ conn[c].upstream = "piped"
  /\ Finishes(c)
  /\ UNCHANGED counted

(* The client takes the rest, resets the connection, or is sent more by the*)
(* other side of its tunnel, which is an error after end().                *)
EndIsOver(c) ==
  /\ Is(c, {"ending"})
  /\ Goes(c, "destroyed")
  /\ UNCHANGED counted

(* The end is behind bytes nobody reads; a reset may still be reported.    *)
ResetIsReported(c) ==
  /\ Is(c, {"refused_unread", "upgraded"}) /\ conn[c].left
  /\ Goes(c, "destroyed")
  /\ UNCHANGED counted

(* A server gives the connection up: an exchange breaks it, keep-alive ends.*)
ServerDrops(c) ==
  /\ Is(c, {"h1", "h2"})
  /\ Finishes(c)
  /\ UNCHANGED counted

(* The 'error' of a session of the gRPC listener gives its slot back at once.*)
SessionFails(c) ==
  /\ Is(c, {"h2"}) /\ KindOf[conn[c].at] = "grpc"
  /\ Goes(c, "destroyed")
  /\ counted' = [counted EXCEPT ![conn[c].at] = @ \ {c}]

(* Mutant: the tunnel's other socket does not hear of the 'close'.         *)
SocketClosesAlone(c) ==
  /\ Is(c, {"destroyed"})
  /\ counted' = [counted EXCEPT ![conn[c].at] = @ \ {c}]
  /\ conn' = [conn EXCEPT ![c] =
       IF @.upstream = Nil THEN Nil ELSE [@ EXCEPT !.stage = "closed"]]

(* The socket's 'close' event.                                             *)
SocketCloses(c) ==
  /\ Is(c, {"destroyed"})
  /\ counted' = [counted EXCEPT ![conn[c].at] = @ \ {c}]
  /\ conn' = [conn EXCEPT ![c] =
       IF @.upstream = Nil THEN Nil
       ELSE [@ EXCEPT !.stage = "closed", !.upstream = "destroyed"]]

----------------------------------------------------------------------------
(* The upstream's end of a tunnel                                          *)

UpstreamConnects(c) ==
  /\ conn[c] # Nil /\ conn[c].upstream = "connecting"
  /\ conn' = [conn EXCEPT ![c].upstream = "piped"]
  /\ UNCHANGED counted

(* Bytes are written faster than the upstream takes them, or it catches up.*)
UpstreamStalls(c) ==
  /\ conn[c] # Nil
  /\ \/ /\ conn[c].upstream = "piped"
        /\ conn' = [conn EXCEPT ![c].upstream = "stalled"]
     \/ /\ conn[c].upstream = "stalled"
        /\ conn' = [conn EXCEPT ![c].upstream = "piped"]
  /\ UNCHANGED counted

(* 'error': the client's socket is destroyed with it.                      *)
UpstreamFails(c) ==
  /\ conn[c] # Nil /\ conn[c].upstream \in {"connecting", "piped", "stalled", "ending"}
  /\ conn' = [conn EXCEPT ![c].upstream = "destroyed", ![c].stage = "destroyed"]
  /\ UNCHANGED counted

(* The connection attempt has a result.                                    *)
UpstreamIsReached(c) ==
  /\ conn[c] # Nil /\ conn[c].upstream = "connecting"
  /\ UpstreamConnects(c) \/ UpstreamFails(c)

(* 'end': answered with an end, which closes the upstream's socket once the*)
(* upstream has taken what was written to it.                              *)
UpstreamEnds(c) ==
  /\ conn[c] # Nil
  /\ \/ /\ conn[c].upstream \in {"piped", "stalled"}
        /\ conn' = [conn EXCEPT ![c].upstream = "ending"]
     \/ /\ conn[c].upstream = "piped"
        /\ conn' = [conn EXCEPT ![c].upstream = "destroyed"]
  /\ UNCHANGED counted

(* It takes the rest, or is sent more by the client, an error after end(). *)
UpstreamEndIsOver(c) ==
  /\ conn[c] # Nil /\ conn[c].upstream = "ending"
  /\ conn' = [conn EXCEPT ![c].upstream = "destroyed"]
  /\ UNCHANGED counted

(* 'close': the client's socket is destroyed, if it was not yet.           *)
UpstreamCloses(c) ==
  /\ conn[c] # Nil /\ conn[c].upstream = "destroyed"
  /\ conn' = [conn EXCEPT ![c] =
       IF @.stage = "closed" THEN Nil
       ELSE [@ EXCEPT !.upstream = Nil, !.stage = "destroyed"]]
  /\ UNCHANGED counted

----------------------------------------------------------------------------
(* Mutant: close() that lets connections end by themselves.                *)
CloseAllGracefully == UNCHANGED connVars

(* close(): all counted connections are destroyed.                         *)
CloseAll ==
  /\ conn' = [c \in Clients |->
       IF conn[c] # Nil /\ c \in counted[conn[c].at] /\ ~Is(c, {"closed"})
         THEN [conn[c] EXCEPT !.stage = "destroyed"] ELSE conn[c]]
  /\ UNCHANGED counted

(* Connections a listener's TCP server still waits for when it is closed.  *)
OpenAt(l) == {c \in Clients : conn[c] # Nil /\ conn[c].at = l /\ ~Is(c, {"closed"})}

ConnNext ==
  \E c \in Clients :
    \/ ReadHead(c) \/ Sniff(c) \/ Upgrade(c)
    \/ ClientLeaves(c) \/ EndIsRead(c) \/ EndIsOver(c) \/ ResetIsReported(c)
    \/ ServerDrops(c) \/ SessionFails(c) \/ SocketCloses(c)
    \/ UpstreamConnects(c) \/ UpstreamStalls(c) \/ UpstreamFails(c)
    \/ UpstreamEnds(c) \/ UpstreamEndIsOver(c) \/ UpstreamCloses(c)

(* Node reports what has happened to a socket, and a connection attempt to *)
(* an upstream succeeds or fails, at the latest by the system's timeout.   *)
(* Nothing makes clients or upstreams do anything, take bytes included.    *)
ConnFairness ==
  \A c \in Clients :
    /\ WF_connVars(EndIsRead(c))
    /\ WF_connVars(SocketCloses(c))
    /\ WF_connVars(UpstreamIsReached(c))
    /\ WF_connVars(UpstreamCloses(c))

----------------------------------------------------------------------------
(* At most Limit connections are served at a time, and each of them is     *)
(* counted (admission in all three listeners).                             *)
LimitHolds ==
  \A l \in Listeners :
    LET served == {c \in OpenAt(l) : ~Is(c, {"destroyed"})}
    IN  Cardinality(served) <= Limit /\ served \subseteq counted[l]

(* A peer does not take the bytes on the way to it, or nobody reads those  *)
(* before its end: a connection answered with 405; one that is ending; a   *)
(* tunnel whose upstream stalls or has ended without reading on.           *)
Stuck(c) ==
  \/ Is(c, {"refused_unread", "ending"})
  \/ Is(c, {"upgraded"}) /\ conn[c].upstream \in {"stalled", "ending"}

UpstreamStuck(c) == conn[c] # Nil /\ conn[c].upstream = "ending"

(* When its client has left, a connection ends with both ends of its tunnel*)
(* and its slot is free again, whatever stage it was in, unless it is stuck*)
(* again and again; and so it does when the upstream of its tunnel has     *)
(* ended or is gone, unless that never takes what was written to it.       *)
ConnectionsEnd ==
  \A c \in Clients :
    /\ (conn[c] # Nil /\ conn[c].left) ~> (conn[c] = Nil \/ []<>Stuck(c))
    /\ (conn[c] # Nil /\ conn[c].upstream \in {"ending", "destroyed"})
         ~> (conn[c] = Nil \/ []UpstreamStuck(c))

(* "No half-open tunnels: answer a peer FIN with our own so both sides     *)
(* close" (http-listener.ts:192): a tunnel whose upstream has sent its end *)
(* is closed some day.                                                     *)
NoHalfOpenTunnels ==
  \A c \in Clients : UpstreamStuck(c) ~> conn[c] = Nil

(* A connection on which nothing arrives is closed some day: spec.md 4.11  *)
(* lists the idle timeout among the limits (limits.idleTimeoutMs).         *)
IdleConnectionsEnd ==
  \A c \in Clients : Is(c, {"head", "first_bytes"}) ~> ~Is(c, {"head", "first_bytes"})
=============================================================================
