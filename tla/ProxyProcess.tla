------------------------------ MODULE ProxyProcess ------------------------------
(***************************************************************************)
(* The life of the process (src/src/index.ts): listeners and the admin     *)
(* server are bound one after the other, then it is ready; a signal closes *)
(* everything, and it exits.  Connections come and go meanwhile.           *)
(***************************************************************************)
EXTENDS Connections, Sequences

CONSTANT Order      \* config.listeners

ASSUME ProcessConstants ==
  /\ Order \in Seq(Listeners)
  /\ {Order[i] : i \in DOMAIN Order} = Listeners
  /\ "admin" \notin Listeners

Servers == Listeners \cup {"admin"}

VARIABLES
  phase,      \* of main() and shutdown()
  server,     \* of each server: whether it accepts connections
  sandbox     \* the script sandbox's subprocess

processVars == <<phase, server, sandbox>>
vars == <<connVars, processVars>>

(* When a port cannot be bound main() rejects, which only sets the exit code:*)
(* "stranded" is a process that goes on like that.                         *)
Phases == {"starting", "stranded", "ready", "closing", "flushing", "exited", "killed"}

(* A subprocess that could not be spawned never emits 'exit'.              *)
Init ==
  /\ ConnInit
  /\ phase = "starting"
  /\ server = [s \in Servers |-> "unbound"]
  /\ sandbox \in {"running", "unspawned"}

Running == phase \notin {"exited", "killed"}

(* Listeners in their order, the admin server last.                        *)
NextToBind ==
  LET unbound == {i \in DOMAIN Order : server[Order[i]] = "unbound"}
  IN  IF unbound = {} THEN "admin"
      ELSE Order[CHOOSE i \in unbound : \A j \in unbound : i <= j]

Bind ==
  /\ phase = "starting"
  /\ server' = [server EXCEPT ![NextToBind] = "open"]
  /\ phase' = IF NextToBind = "admin" THEN "ready" ELSE phase
  /\ UNCHANGED <<connVars, sandbox>>

(* A process that ends takes its sockets along.                            *)
SocketsAreGone ==
  /\ conn' = [c \in Clients |-> Nil]
  /\ counted' = [l \in Listeners |-> {}]

BindFails ==
  /\ phase = "starting"
  /\ phase' = "stranded"
  /\ UNCHANGED <<connVars, server, sandbox>>

(* shutdown(): the signal's handlers are installed when main() ends, and a *)
(* second signal is ignored; without a handler a signal kills.             *)
Signal ==
  \/ /\ phase = "ready"
     /\ phase' = "closing"
     /\ server' = [s \in Servers |-> "closing"]
     /\ sandbox' = IF sandbox = "running" THEN "closing" ELSE sandbox
     /\ CloseAll
  \/ /\ phase \in {"starting", "stranded"}
     /\ phase' = "killed"
     /\ SocketsAreGone
     /\ UNCHANGED <<server, sandbox>>

(* The callback of a server's close(): all its connections are closed.  Those*)
(* of the admin server are closed with it.                                 *)
ServerCloses(s) ==
  /\ Running /\ server[s] = "closing"
  /\ s \in Listeners => OpenAt(s) = {}
  /\ server' = [server EXCEPT ![s] = "closed"]
  /\ UNCHANGED <<connVars, phase, sandbox>>

SandboxCloses ==
  /\ sandbox = "closing"
  /\ sandbox' = "closed"
  /\ UNCHANGED <<connVars, phase, server>>

(* Mutant: the log is flushed when the listeners are closed, the sandbox or*)
(* not.                                                                    *)
EverythingClosedButSandbox ==
  /\ phase = "closing"
  /\ \A s \in Servers : server[s] = "closed"
  /\ phase' = "flushing"
  /\ UNCHANGED <<connVars, server, sandbox>>

(* Promise.all of the closes.                                              *)
EverythingClosed ==
  /\ phase = "closing"
  /\ \A s \in Servers : server[s] = "closed"
  /\ sandbox = "closed"
  /\ phase' = "flushing"
  /\ UNCHANGED <<connVars, server, sandbox>>

(* The traffic log and the application log are flushed.                    *)
Exit ==
  /\ phase = "flushing"
  /\ phase' = "exited"
  /\ SocketsAreGone
  /\ UNCHANGED <<server, sandbox>>

ConnectionArrives ==
  /\ Running
  /\ \E c \in Clients, l \in Listeners : server[l] = "open" /\ Accept(c, l)
  /\ UNCHANGED processVars

ConnectionsGoOn == Running /\ ConnNext /\ UNCHANGED processVars

Next ==
  \/ Bind \/ BindFails \/ Signal
  \/ \E s \in Servers : ServerCloses(s)
  \/ SandboxCloses \/ EverythingClosed \/ Exit
  \/ ConnectionArrives \/ ConnectionsGoOn

(* Callbacks are called; ScriptSandbox has why a sandbox that runs closes. *)
(* Signals and the binding of ports are up to the environment.             *)
ProcessFairness ==
  /\ \A s \in Servers : WF_vars(ServerCloses(s))
  /\ WF_vars(SandboxCloses)
  /\ WF_vars(EverythingClosed)
  /\ WF_vars(Exit)

Fairness == ConnFairness /\ ProcessFairness

Spec == Init /\ [][Next]_vars /\ Fairness
----------------------------------------------------------------------------
TypeOK ==
  /\ conn \in [Clients -> Connection \cup {Nil}]
  /\ counted \in [Listeners -> SUBSET Clients]
  /\ phase \in Phases
  /\ server \in [Servers -> {"unbound", "open", "closing", "closed"}]
  /\ sandbox \in {"running", "unspawned", "closing", "closed"}

(* A process that exits after a signal has closed its servers, with every  *)
(* connection, and its sandbox before the logs are flushed (shutdown()).   *)
ExitIsOrderly ==
  phase \in {"flushing", "exited"} =>
    /\ \A s \in Servers : server[s] = "closed"
    /\ \A l \in Listeners : OpenAt(l) = {}
    /\ sandbox = "closed"

(* A signal to a process that is ready ends it, whatever its connections   *)
(* do, unless the sandbox's subprocess could not be spawned (shutdown();   *)
(* ScriptSandbox.close() waits for an 'exit' then).                        *)
ShutdownCompletes == (phase = "closing" /\ sandbox # "unspawned") ~> (phase = "exited")
=============================================================================
