-------------------------- MODULE ProxyProcessProofs --------------------------
(***************************************************************************)
(* Proofs about the process and its connections, for any listeners in any  *)
(* order, any limit and any number of clients: types, the connection limit *)
(* and the order of the shutdown.                                          *)
(***************************************************************************)
EXTENDS ProxyProcess, FiniteSetTheorems, TLAPS

(* What is known of every connection: one that is served has its slot, and *)
(* of one that is closed only the other end of its tunnel is left.         *)
SlotsAreKept ==
  \A c \in Clients : conn[c] # Nil =>
    /\ conn[c].stage \notin {"destroyed", "closed"} => c \in counted[conn[c].at]
    /\ conn[c].stage = "closed" => conn[c].upstream = "destroyed"

SlotsAreFew == \A l \in Listeners : Cardinality(counted[l]) <= Limit

ConnTypes ==
  /\ conn \in [Clients -> Connection \cup {Nil}]
  /\ counted \in [Listeners -> SUBSET Clients]

ConnInv == ConnTypes /\ SlotsAreKept /\ SlotsAreFew

(* Once a server is closed nothing opens a connection of it again.         *)
NoneOpens == \A l \in Listeners : OpenAt(l)' \subseteq OpenAt(l)

(* A server that is closed has no connection, also long before the others  *)
(* are.                                                                    *)
ClosedIsEmpty == \A l \in Listeners : server[l] = "closed" => OpenAt(l) = {}

ProcessTypes ==
  /\ phase \in Phases
  /\ server \in [Servers -> {"unbound", "open", "closing", "closed"}]
  /\ sandbox \in {"running", "unspawned", "closing", "closed"}

LastPhases ==
  phase \in {"flushing", "exited"} =>
    (\A s \in Servers : server[s] = "closed") /\ sandbox = "closed"

ProcessInv == ProcessTypes /\ ClosedIsEmpty /\ LastPhases

----------------------------------------------------------------------------
(* Connections                                                             *)

(* Counted sets are finite, so their cardinalities can be compared.        *)
LEMMA CountedIsFinite ==
  ASSUME ConnTypes, NEW l \in Listeners
  PROVE  IsFiniteSet(counted[l])
  BY ConnectionConstants, FS_Subset DEF ConnTypes

(* Removing a connection from the slots of a listener leaves them few.     *)
LEMMA FewerSlots ==
  ASSUME ConnTypes, SlotsAreFew, NEW l \in Listeners, NEW T \in SUBSET counted[l]
  PROVE  Cardinality(T) <= Limit
  <1>1. IsFiniteSet(counted[l])
    BY CountedIsFinite
  <1>2. /\ Cardinality(T) <= Cardinality(counted[l])
        /\ Cardinality(T) \in Nat /\ Cardinality(counted[l]) \in Nat
    BY <1>1, FS_Subset, FS_CardinalityType
  <1> QED
    BY <1>2, ConnectionConstants DEF SlotsAreFew

(* Admission keeps the limit: a slot is only taken below it.               *)
LEMMA AcceptKeepsSlots ==
  ASSUME ConnInv, NEW c \in Clients, NEW l \in Listeners, Accept(c, l)
  PROVE  ConnInv'
  <1>0. ConnTypes /\ SlotsAreKept /\ SlotsAreFew
    BY DEF ConnInv
  <1>1. /\ NewConnection(l, FirstStage(l)) \in Connection
        /\ NewConnection(l, "destroyed") \in Connection
        /\ FirstStage(l) \notin {"destroyed", "closed"}
    BY DEF NewConnection, FirstStage, Connection, Stages
  <1>2. CASE Cardinality(counted[l]) >= Limit
    <2>1. /\ conn' = [conn EXCEPT ![c] = NewConnection(l, "destroyed")]
          /\ counted' = counted
      BY <1>2 DEF Accept
    <2>2. ConnTypes'
      BY <1>0, <1>1, <2>1 DEF ConnTypes
    <2>3. SlotsAreKept'
      BY <1>0, <2>1 DEF SlotsAreKept, ConnTypes, NewConnection
    <2> QED
      BY <1>0, <2>1, <2>2, <2>3 DEF ConnInv, SlotsAreFew
  <1>3. CASE ~(Cardinality(counted[l]) >= Limit)
    <2>1. /\ conn' = [conn EXCEPT ![c] = NewConnection(l, FirstStage(l))]
          /\ counted' = [counted EXCEPT ![l] = @ \cup {c}]
      BY <1>3 DEF Accept
    <2>2. ConnTypes'
      BY <1>0, <1>1, <2>1 DEF ConnTypes
    <2>3. SlotsAreKept'
      <3> SUFFICES ASSUME NEW d \in Clients, conn'[d] # Nil
                   PROVE  /\ conn'[d].stage \notin {"destroyed", "closed"}
                               => d \in counted'[conn'[d].at]
                          /\ conn'[d].stage = "closed" => conn'[d].upstream = "destroyed"
        BY DEF SlotsAreKept
      <3>1. CASE d = c
        BY <3>1, <1>0, <1>1, <2>1 DEF ConnTypes, NewConnection
      <3>2. CASE d # c
        <4>1. conn'[d] = conn[d] /\ conn[d] \in Connection
          BY <3>2, <1>0, <2>1 DEF ConnTypes
        <4>2. conn[d].at \in Listeners /\ counted[conn[d].at] \subseteq counted'[conn[d].at]
          BY <4>1, <1>0, <2>1 DEF ConnTypes, Connection
        <4> QED
          BY <4>1, <4>2, <1>0 DEF SlotsAreKept
      <3> QED
        BY <3>1, <3>2
    <2>4. Cardinality(counted[l] \cup {c}) <= Limit
      <3>1. IsFiniteSet(counted[l])
        BY <1>0, CountedIsFinite
      <3>2. /\ Cardinality(counted[l]) \in Nat
            /\ \/ Cardinality(counted[l] \cup {c}) = Cardinality(counted[l])
               \/ Cardinality(counted[l] \cup {c}) = Cardinality(counted[l]) + 1
        BY <3>1, FS_CardinalityType, FS_AddElement
      <3> QED
        BY <3>2, <1>3, ConnectionConstants
    <2>5. SlotsAreFew'
      BY <1>0, <2>1, <2>4 DEF SlotsAreFew, ConnTypes
    <2> QED
      BY <2>2, <2>3, <2>5 DEF ConnInv
  <1> QED
    BY <1>2, <1>3

(* What an action may do to one connection without touching the slots: move*)
(* it on among the stages that keep their slot, or give it up.             *)
LEMMA OneConnectionGoesOn ==
  ASSUME ConnInv, NEW c \in Clients, conn[c] # Nil,
         NEW new \in Connection \cup {Nil},
         conn' = [conn EXCEPT ![c] = new], counted' = counted,
         new # Nil =>
           /\ new.at = conn[c].at
           /\ new.stage \notin {"destroyed", "closed"}
                => conn[c].stage \notin {"destroyed", "closed"}
           /\ new.stage = "closed" => new.upstream = "destroyed"
           /\ new.stage # "closed" => conn[c].stage # "closed"
  PROVE  ConnInv' /\ NoneOpens
  <1>1. ConnTypes'
    BY DEF ConnInv, ConnTypes
  <1>2. SlotsAreKept'
    BY DEF ConnInv, SlotsAreKept, ConnTypes
  <1>3. NoneOpens
    BY DEF NoneOpens, OpenAt, Is, ConnInv, ConnTypes
  <1> QED
    BY <1>1, <1>2, <1>3 DEF ConnInv, SlotsAreFew

(* The same, with the connection's slot given back.                        *)
LEMMA OneConnectionEnds ==
  ASSUME ConnInv, NEW c \in Clients, conn[c] # Nil,
         NEW new \in Connection \cup {Nil},
         conn' = [conn EXCEPT ![c] = new],
         counted' = [counted EXCEPT ![conn[c].at] = @ \ {c}],
         new # Nil =>
           /\ new.at = conn[c].at
           /\ new.stage \in {"destroyed", "closed"}
           /\ new.stage = "closed" => new.upstream = "destroyed"
           /\ new.stage # "closed" => conn[c].stage # "closed"
  PROVE  ConnInv' /\ NoneOpens
  <1>0. ConnTypes /\ SlotsAreKept /\ SlotsAreFew
    BY DEF ConnInv
  <1>1. conn[c].at \in Listeners
    BY <1>0 DEF ConnTypes, Connection
  <1>2. ConnTypes'
    BY <1>0, <1>1 DEF ConnTypes
  <1>3. SlotsAreKept'
    <2> SUFFICES ASSUME NEW d \in Clients, conn'[d] # Nil
                 PROVE  /\ conn'[d].stage \notin {"destroyed", "closed"}
                             => d \in counted'[conn'[d].at]
                        /\ conn'[d].stage = "closed" => conn'[d].upstream = "destroyed"
      BY DEF SlotsAreKept
    <2>1. CASE d = c
      BY <2>1, <1>0 DEF ConnTypes
    <2>2. CASE d # c
      <3>1. conn'[d] = conn[d] /\ conn[d] \in Connection
        BY <2>2, <1>0 DEF ConnTypes
      <3>2. conn[d].at \in Listeners /\ counted[conn[d].at] \ {c} \subseteq counted'[conn[d].at]
        BY <3>1, <1>0 DEF ConnTypes, Connection
      <3> QED
        BY <3>1, <3>2, <2>2, <1>0 DEF SlotsAreKept
    <2> QED
      BY <2>1, <2>2
  <1>4. SlotsAreFew'
    <2> SUFFICES ASSUME NEW l \in Listeners PROVE Cardinality(counted'[l]) <= Limit
      BY DEF SlotsAreFew
    <2>1. counted'[l] \subseteq counted[l]
      BY <1>0, <1>1 DEF ConnTypes
    <2> QED
      BY <2>1, <1>0, FewerSlots
  <1>5. NoneOpens
    BY <1>0 DEF NoneOpens, OpenAt, Is, ConnTypes
  <1> QED
    BY <1>2, <1>3, <1>4, <1>5 DEF ConnInv

(* Most actions only move a connection to another stage.                   *)
LEMMA StageMoves ==
  ASSUME ConnInv, NEW c \in Clients, conn[c] # Nil,
         NEW stage \in Stages \ {"closed"},
         conn[c].stage # "closed", stage # "destroyed" => conn[c].stage # "destroyed",
         Goes(c, stage), UNCHANGED counted
  PROVE  ConnInv' /\ NoneOpens
  <1> DEFINE new == [conn[c] EXCEPT !.stage = stage]
  <1>1. conn[c] \in Connection
    BY DEF ConnInv, ConnTypes
  <1>2. /\ new \in Connection
        /\ new.at = conn[c].at /\ new.stage = stage
    BY <1>1 DEF Connection
  <1>3. conn' = [conn EXCEPT ![c] = new]
    BY DEF Goes, ConnInv, ConnTypes
  <1> HIDE DEF new
  <1> QED
    BY <1>1, <1>2, <1>3, OneConnectionGoesOn

(* A step of one connection: the two ends it may come to, one step for each*)
(* action.                                                                 *)
LEMMA ConnectionStep ==
  ASSUME ConnInv, ConnNext
  PROVE  ConnInv' /\ NoneOpens
  <1> PICK c \in Clients :
        \/ ReadHead(c) \/ Sniff(c) \/ Upgrade(c)
        \/ ClientLeaves(c) \/ EndIsRead(c) \/ EndIsOver(c) \/ ResetIsReported(c)
        \/ ServerDrops(c) \/ SessionFails(c) \/ SocketCloses(c)
        \/ UpstreamConnects(c) \/ UpstreamStalls(c) \/ UpstreamFails(c)
        \/ UpstreamEnds(c) \/ UpstreamEndIsOver(c) \/ UpstreamCloses(c)
    BY DEF ConnNext
  <1>0. /\ conn \in [Clients -> Connection \cup {Nil}]
        /\ conn[c] # Nil => conn[c] \in Connection
        /\ conn[c] # Nil /\ conn[c].stage = "closed" => conn[c].upstream = "destroyed"
    BY DEF ConnInv, ConnTypes, SlotsAreKept
  <1>1. CASE ReadHead(c)
    <2>1. PICK stage \in {"h2", "first_bytes", "refused", "refused_unread", "destroyed"} :
            Goes(c, stage)
      BY <1>1 DEF ReadHead
    <2> QED
      BY <1>1, <2>1, StageMoves DEF ReadHead, Is, Stages
  <1>2. CASE Sniff(c)
    BY <1>2, StageMoves DEF Sniff, Is, Stages
  <1>3. CASE Upgrade(c)
    <2> DEFINE new == [conn[c] EXCEPT !.stage = "upgraded", !.upstream = "connecting"]
    <2>1. /\ new \in Connection /\ new.at = conn[c].at /\ new.stage = "upgraded"
          /\ conn[c] # Nil /\ conn[c].stage = "h1"
      BY <1>0, <1>3 DEF Upgrade, Is, Connection, Stages
    <2>2. conn' = [conn EXCEPT ![c] = new] /\ counted' = counted
      BY <1>0, <1>3 DEF Upgrade
    <2> HIDE DEF new
    <2> QED
      BY <2>1, <2>2, OneConnectionGoesOn
  <1>4. CASE ClientLeaves(c)
    <2> DEFINE new == [conn[c] EXCEPT !.left = TRUE]
    <2>1. /\ new \in Connection /\ conn[c] # Nil
          /\ new.at = conn[c].at /\ new.stage = conn[c].stage /\ new.upstream = conn[c].upstream
      BY <1>0, <1>4 DEF ClientLeaves, Connection
    <2>2. conn' = [conn EXCEPT ![c] = new] /\ counted' = counted
      BY <1>0, <1>4 DEF ClientLeaves
    <2> HIDE DEF new
    <2> QED
      BY <1>0, <2>1, <2>2, OneConnectionGoesOn
  <1>5. CASE EndIsRead(c)
    BY <1>5, StageMoves DEF EndIsRead, Finishes, Is, Stages
  <1>6. CASE ResetIsReported(c)
    BY <1>6, StageMoves DEF ResetIsReported, Is, Stages
  <1>7. CASE ServerDrops(c)
    BY <1>7, StageMoves DEF ServerDrops, Finishes, Is, Stages
  <1>8. CASE SessionFails(c)
    <2> DEFINE new == [conn[c] EXCEPT !.stage = "destroyed"]
    <2>1. /\ new \in Connection /\ new.at = conn[c].at /\ new.stage = "destroyed"
          /\ conn[c] # Nil /\ conn[c].stage = "h2"
      BY <1>0, <1>8 DEF SessionFails, Is, Connection, Stages
    <2>2. /\ conn' = [conn EXCEPT ![c] = new]
          /\ counted' = [counted EXCEPT ![conn[c].at] = @ \ {c}]
      BY <1>0, <1>8 DEF SessionFails, Goes
    <2> HIDE DEF new
    <2> QED
      BY <2>1, <2>2, OneConnectionEnds
  <1>9. CASE SocketCloses(c)
    <2> DEFINE new == [conn[c] EXCEPT !.stage = "closed", !.upstream = "destroyed"]
    <2>1. /\ new \in Connection /\ new.at = conn[c].at
          /\ new.stage = "closed" /\ new.upstream = "destroyed"
          /\ conn[c] # Nil
      BY <1>0, <1>9 DEF SocketCloses, Is, Connection, Stages
    <2>2. /\ conn' = [conn EXCEPT ![c] = IF conn[c].upstream = Nil THEN Nil ELSE new]
          /\ counted' = [counted EXCEPT ![conn[c].at] = @ \ {c}]
      BY <1>0, <1>9 DEF SocketCloses
    <2> HIDE DEF new
    <2>3. CASE conn[c].upstream = Nil
      BY <2>1, <2>2, <2>3, OneConnectionEnds
    <2>4. CASE conn[c].upstream # Nil
      BY <2>1, <2>2, <2>4, OneConnectionEnds
    <2> QED
      BY <2>3, <2>4
  <1>10. ASSUME NEW upstream \in {"piped", "stalled", "ending", "destroyed"},
                conn[c] # Nil,
                conn[c].upstream \in {"connecting", "piped", "stalled", "ending"},
                conn' = [conn EXCEPT ![c].upstream = upstream], counted' = counted
         PROVE  ConnInv' /\ NoneOpens
    <2> DEFINE new == [conn[c] EXCEPT !.upstream = upstream]
    <2>1. /\ new \in Connection /\ new.at = conn[c].at /\ new.stage = conn[c].stage
          /\ conn[c].stage # "closed"
      BY <1>0, <1>10 DEF Connection
    <2>2. conn' = [conn EXCEPT ![c] = new]
      BY <1>0, <1>10
    <2> HIDE DEF new
    <2> QED
      BY <1>10, <2>1, <2>2, OneConnectionGoesOn
  <1>11. CASE UpstreamConnects(c)
    BY <1>10, <1>11 DEF UpstreamConnects
  <1>12. CASE UpstreamStalls(c)
    BY <1>10, <1>12 DEF UpstreamStalls
  <1>13. CASE UpstreamEnds(c)
    BY <1>10, <1>13 DEF UpstreamEnds
  <1>14. CASE UpstreamFails(c)
    <2> DEFINE new == [conn[c] EXCEPT !.upstream = "destroyed", !.stage = "destroyed"]
    <2>1. /\ new \in Connection /\ new.at = conn[c].at /\ new.stage = "destroyed"
          /\ conn[c] # Nil /\ conn[c].stage # "closed"
      BY <1>0, <1>14 DEF UpstreamFails, Connection, Stages
    <2>2. conn' = [conn EXCEPT ![c] = new] /\ counted' = counted
      BY <1>0, <1>14 DEF UpstreamFails
    <2> HIDE DEF new
    <2> QED
      BY <2>1, <2>2, OneConnectionGoesOn
  <1>15. CASE UpstreamCloses(c)
    <2> DEFINE new == [conn[c] EXCEPT !.upstream = Nil, !.stage = "destroyed"]
    <2>1. /\ new \in Connection /\ new.at = conn[c].at /\ new.stage = "destroyed"
          /\ conn[c] # Nil
      BY <1>0, <1>15 DEF UpstreamCloses, Connection, Stages
    <2>2. /\ conn' = [conn EXCEPT ![c] = IF conn[c].stage = "closed" THEN Nil ELSE new]
          /\ counted' = counted
      BY <1>0, <1>15 DEF UpstreamCloses
    <2> HIDE DEF new
    <2>3. CASE conn[c].stage = "closed"
      BY <2>1, <2>2, <2>3, OneConnectionGoesOn
    <2>4. CASE conn[c].stage # "closed"
      BY <2>1, <2>2, <2>4, OneConnectionGoesOn
    <2> QED
      BY <2>3, <2>4
  <1>16. CASE EndIsOver(c)
    BY <1>16, StageMoves DEF EndIsOver, Is, Stages
  <1>17. CASE UpstreamEndIsOver(c)
    BY <1>10, <1>17 DEF UpstreamEndIsOver
  <1> QED
    BY <1>1, <1>2, <1>3, <1>4, <1>5, <1>6, <1>7, <1>8, <1>9, <1>11, <1>12, <1>13,
       <1>14, <1>15, <1>16, <1>17

(* close() of the listeners destroys connections and opens none.           *)
LEMMA CloseAllStep ==
  ASSUME ConnInv, CloseAll
  PROVE  ConnInv'
  <1>0. ConnTypes /\ SlotsAreKept /\ SlotsAreFew
    BY DEF ConnInv
  <1>1. ASSUME NEW c \in Clients
        PROVE  \/ conn'[c] = conn[c]
               \/ /\ conn[c] # Nil /\ conn'[c] = [conn[c] EXCEPT !.stage = "destroyed"]
                  /\ conn'[c] \in Connection /\ conn'[c].stage = "destroyed"
    <2>1. CASE conn[c] # Nil /\ c \in counted[conn[c].at] /\ ~Is(c, {"closed"})
      <3>1. conn[c] \in Connection
        BY <1>0, <2>1 DEF ConnTypes
      <3>2. conn'[c] = [conn[c] EXCEPT !.stage = "destroyed"]
        BY <2>1 DEF CloseAll
      <3> QED
        BY <2>1, <3>1, <3>2 DEF Connection, Stages
    <2>2. CASE ~(conn[c] # Nil /\ c \in counted[conn[c].at] /\ ~Is(c, {"closed"}))
      BY <2>2 DEF CloseAll
    <2> QED
      BY <2>1, <2>2
  <1>2. counted' = counted /\ DOMAIN conn' = Clients
        /\ conn' = [c \in Clients |-> conn'[c]]
    BY DEF CloseAll
  <1>3. ConnTypes'
    <2>1. \A c \in Clients : conn'[c] \in Connection \cup {Nil}
      BY <1>0, <1>1 DEF ConnTypes
    <2>2. conn' \in [Clients -> Connection \cup {Nil}]
      BY <1>2, <2>1
    <2> QED
      BY <1>0, <1>2, <2>2 DEF ConnTypes
  <1>4. SlotsAreKept'
    BY <1>0, <1>1, <1>2 DEF SlotsAreKept
  <1> QED
    BY <1>0, <1>2, <1>3, <1>4 DEF ConnInv, SlotsAreFew

(* Without sockets there is nothing to count.                              *)
LEMMA NoSockets ==
  ASSUME SocketsAreGone
  PROVE  ConnInv' /\ \A l \in Listeners : OpenAt(l)' = {}
  <1>1. /\ conn' = [c \in Clients |-> Nil]
        /\ counted' = [l \in Listeners |-> {}]
    BY DEF SocketsAreGone
  <1>2. \A l \in Listeners : Cardinality(counted'[l]) <= Limit
    BY <1>1, FS_EmptySet, ConnectionConstants
  <1> QED
    BY <1>1, <1>2 DEF ConnInv, ConnTypes, SlotsAreKept, SlotsAreFew, OpenAt

(* No slot is taken and none is lost, whatever the process does.           *)
LEMMA ConnInvIsKept == Spec => []ConnInv
  <1>1. Init => ConnInv
    <2> SUFFICES ASSUME Init PROVE ConnInv
      OBVIOUS
    <2>1. \A l \in Listeners : Cardinality(counted[l]) <= Limit
      BY FS_EmptySet, ConnectionConstants DEF Init, ConnInit
    <2> QED
      BY <2>1 DEF Init, ConnInit, ConnInv, ConnTypes, SlotsAreKept, SlotsAreFew
  <1>2. ConnInv /\ [Next]_vars => ConnInv'
    <2> SUFFICES ASSUME ConnInv, [Next]_vars PROVE ConnInv'
      OBVIOUS
    <2>1. CASE UNCHANGED connVars
      BY <2>1 DEF connVars, ConnInv, ConnTypes, SlotsAreKept, SlotsAreFew
    <2>2. CASE Signal
      BY <2>2, CloseAllStep, NoSockets DEF Signal
    <2>3. CASE Exit
      BY <2>3, NoSockets DEF Exit
    <2>4. CASE ConnectionArrives
      BY <2>4, AcceptKeepsSlots DEF ConnectionArrives
    <2>5. CASE ConnectionsGoOn
      BY <2>5, ConnectionStep DEF ConnectionsGoOn
    <2> QED
      BY <2>1, <2>2, <2>3, <2>4, <2>5
      DEF Next, vars, Bind, BindFails, ServerCloses, SandboxCloses, EverythingClosed
  <1> QED
    BY <1>1, <1>2, PTL DEF Spec

----------------------------------------------------------------------------
(* The process                                                             *)

(* A connection arrives at a server that is open, so one that is closed has*)
(* none, and the phases after that leave it at that.                       *)
LEMMA ProcessInvIsKept == Spec => []ProcessInv
  <1>1. Init => ProcessInv
    BY DEF Init, ProcessInv, ProcessTypes, Phases, ClosedIsEmpty, LastPhases, Servers
  <1>2. ConnInv /\ ProcessInv /\ [Next]_vars => ProcessInv'
    <2> SUFFICES ASSUME ConnInv, ProcessInv, [Next]_vars PROVE ProcessInv'
      OBVIOUS
    <2>0. ProcessTypes /\ ClosedIsEmpty /\ LastPhases
      BY DEF ProcessInv
    <2>1. CASE Bind
      <3>1. \A s \in Servers : server'[s] = server[s] \/ server'[s] = "open"
        BY <2>0, <2>1 DEF Bind, ProcessTypes
      <3>2. ProcessTypes' /\ phase' \in {"starting", "ready"} /\ conn' = conn
        BY <2>0, <2>1 DEF Bind, ProcessTypes, Phases, connVars
      <3> QED
        BY <2>0, <3>1, <3>2
        DEF ProcessInv, ClosedIsEmpty, LastPhases, OpenAt, Is, Servers
    <2>2. CASE BindFails
      BY <2>0, <2>2
      DEF BindFails, ProcessInv, ProcessTypes, Phases, ClosedIsEmpty, LastPhases, OpenAt,
          Is, connVars
    <2>3. CASE Signal
      <3>1. ProcessTypes' /\ phase' \in {"closing", "killed"}
        BY <2>0, <2>3 DEF Signal, ProcessTypes, Phases
      <3>2. ClosedIsEmpty'
        BY <2>3, NoSockets DEF Signal, ClosedIsEmpty, Servers
      <3> QED
        BY <3>1, <3>2 DEF ProcessInv, LastPhases
    <2>4. ASSUME NEW s \in Servers, ServerCloses(s) PROVE ProcessInv'
      <3>1. ProcessTypes' /\ LastPhases'
        BY <2>0, <2>4 DEF ServerCloses, ProcessTypes, LastPhases, Running
      <3>2. \A l \in Listeners : OpenAt(l)' = OpenAt(l)
        BY <2>4 DEF ServerCloses, connVars, OpenAt, Is
      <3>3. ClosedIsEmpty'
        BY <2>0, <2>4, <3>2 DEF ServerCloses, ClosedIsEmpty, ProcessTypes, Servers
      <3> QED
        BY <3>1, <3>3 DEF ProcessInv
    <2>5. CASE SandboxCloses
      BY <2>0, <2>5
      DEF SandboxCloses, ProcessInv, ProcessTypes, ClosedIsEmpty, LastPhases, OpenAt, Is,
          connVars
    <2>6. CASE EverythingClosed
      BY <2>0, <2>6
      DEF EverythingClosed, ProcessInv, ProcessTypes, Phases, ClosedIsEmpty, LastPhases,
          OpenAt, Is, connVars
    <2>7. CASE Exit
      <3>1. ProcessTypes' /\ LastPhases'
        BY <2>0, <2>7 DEF Exit, ProcessTypes, Phases, LastPhases
      <3>2. ClosedIsEmpty'
        BY <2>7, NoSockets DEF Exit, ClosedIsEmpty
      <3> QED
        BY <3>1, <3>2 DEF ProcessInv
    <2>8. CASE ConnectionArrives
      <3>1. PICK c \in Clients, l \in Listeners : server[l] = "open" /\ Accept(c, l)
        BY <2>8 DEF ConnectionArrives
      <3>2. UNCHANGED processVars
        BY <2>8 DEF ConnectionArrives
      <3>3. \A k \in Listeners : server[k] = "closed" => OpenAt(k)' \subseteq OpenAt(k)
        <4> SUFFICES ASSUME NEW k \in Listeners, server[k] = "closed",
                            NEW d \in OpenAt(k)'
                     PROVE  d \in OpenAt(k)
          OBVIOUS
        <4>1. d # c
          <5>1. conn'[c] = NewConnection(l, "destroyed") \/ conn'[c] = NewConnection(l, FirstStage(l))
            BY <3>1 DEF Accept, ConnInv, ConnTypes
          <5>2. conn'[c].at = l
            BY <5>1 DEF NewConnection
          <5> QED
            BY <3>1, <5>2 DEF OpenAt
        <4>2. conn'[d] = conn[d]
          BY <3>1, <4>1 DEF Accept, ConnInv, ConnTypes, OpenAt
        <4> QED
          BY <4>2 DEF OpenAt, Is
      <3>4. ClosedIsEmpty'
        BY <2>0, <3>2, <3>3 DEF processVars, ClosedIsEmpty
      <3> QED
        BY <2>0, <3>2, <3>4 DEF processVars, ProcessInv, ProcessTypes, LastPhases
    <2>9. CASE ConnectionsGoOn
      <3>1. NoneOpens /\ UNCHANGED processVars
        BY <2>9, ConnectionStep DEF ConnectionsGoOn
      <3>2. ClosedIsEmpty'
        BY <2>0, <3>1 DEF processVars, ClosedIsEmpty, NoneOpens
      <3> QED
        BY <2>0, <3>1, <3>2 DEF processVars, ProcessInv, ProcessTypes, LastPhases
    <2>10. CASE UNCHANGED vars
      BY <2>0, <2>10
      DEF vars, connVars, processVars, ProcessInv, ProcessTypes, ClosedIsEmpty, LastPhases,
          OpenAt, Is
    <2> QED
      BY <2>1, <2>2, <2>3, <2>4, <2>5, <2>6, <2>7, <2>8, <2>9, <2>10 DEF Next
  <1> QED
    BY <1>1, <1>2, ConnInvIsKept, PTL DEF Spec

----------------------------------------------------------------------------
(* Theorems                                                                *)

(* The variables keep their types, connections come and go as they like    *)
(* (index.ts, the listeners' admission).                                   *)
THEOREM ProcessTypesCorrect == Spec => []TypeOK
  <1>1. ConnInv /\ ProcessInv => TypeOK
    BY DEF ConnInv, ConnTypes, ProcessInv, ProcessTypes, TypeOK
  <1> QED
    BY <1>1, ConnInvIsKept, ProcessInvIsKept, PTL

(* limits.maxConcurrentConnections bounds the connections each listener    *)
(* serves, for any limit and any number of clients: a slot is given back   *)
(* only when its connection is not served any more (http-listener.ts,      *)
(* connect-listener.ts, startGrpcListener()).                              *)
THEOREM LimitIsKept == Spec => []LimitHolds
  <1>1. ConnInv => LimitHolds
    <2> SUFFICES ASSUME ConnInv, NEW l \in Listeners
                 PROVE  LET served == {c \in OpenAt(l) : ~Is(c, {"destroyed"})}
                        IN  Cardinality(served) <= Limit /\ served \subseteq counted[l]
      BY DEF LimitHolds
    <2> DEFINE served == {c \in OpenAt(l) : ~Is(c, {"destroyed"})}
    <2>1. served \subseteq counted[l]
      <3> SUFFICES ASSUME NEW c \in served PROVE c \in counted[l]
        OBVIOUS
      <3>1. c \in Clients /\ conn[c] # Nil /\ conn[c].at = l
        BY DEF OpenAt
      <3>2. conn[c].stage \notin {"destroyed", "closed"}
        BY <3>1 DEF OpenAt, Is
      <3> QED
        BY <3>1, <3>2 DEF ConnInv, SlotsAreKept
    <2> HIDE DEF served
    <2>2. Cardinality(served) <= Limit
      BY <2>1, FewerSlots DEF ConnInv
    <2> QED
      BY <2>1, <2>2 DEF served
  <1> QED
    BY <1>1, ConnInvIsKept, PTL

(* shutdown() flushes the logs and exits only after every server, each of  *)
(* their connections and the sandbox are closed, in whatever order they    *)
(* close and although connections arrive until the signal (index.ts).      *)
THEOREM ShutdownIsOrderly == Spec => []ExitIsOrderly
  <1>1. ProcessInv => ExitIsOrderly
    BY DEF ProcessInv, LastPhases, ClosedIsEmpty, ExitIsOrderly, Servers
  <1> QED
    BY <1>1, ProcessInvIsKept, PTL
=============================================================================
