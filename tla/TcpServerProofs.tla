--------------------------- MODULE TcpServerProofs ---------------------------
(* The safety of TcpServer.tla for any finite set of connections.  Regions    *)
(* ties the mutex to the program points that hold it and the connection in    *)
(* the accept thread's hands to the points where it holds one; with it the    *)
(* thread count, the release of the object and the ownership of sockets are   *)
(* inductive together.                                                        *)
EXTENDS TcpServer, FiniteSetTheorems, TLAPS

AfterDestroy == {"checking", "waiting", "notified", "gone"}

Regions ==
  /\ mutex = "owner" <=> owner \in {"starting", "checking"}
  /\ mutex = "acceptor" <=> pc[Acceptor] = "spawning"
  /\ accepting = NoConn <=> pc[Acceptor] \notin {"spawn", "spawning"}
  /\ pc[Acceptor] # "none" => started
  /\ owner = "starting" => started /\ pc[Acceptor] = "none"
  /\ stop_event <=> owner \in AfterDestroy
  /\ \A c \in Conns : socket[c] \in {"unused", "backlog"} => pc[c] = "none"

Inv == TypeOK /\ Regions /\ CountIsExact /\ NoThreadOutlivesServer /\ SocketHasOneOwner

-----------------------------------------------------------------------------
(* How one move of one thread changes the set of live threads.                *)

\* There are finitely many live threads, so they can be counted.
LEMMA LiveFinite == IsFiniteSet(Live) /\ Cardinality(Live) \in Nat
  <1>1. IsFiniteSet(Threads)
    BY ConnsFinite, FS_AddElement DEF Threads
  <1>2. Live \in SUBSET Threads
    BY DEF Live
  <1>. QED
    BY <1>1, <1>2, FS_Subset, FS_CardinalityType

\* A move between two running states, or two others, leaves the live set alone.
LEMMA MoveKeepsLive ==
  ASSUME TypeOK, NEW t \in Threads, NEW s, Goto(t, s), Running(pc[t]) <=> Running(s)
  PROVE  Live' = Live
  <1>1. \A u \in Threads : Running(pc'[u]) <=> Running(pc[u])
    BY DEF TypeOK, Goto, Running
  <1>. QED
    BY <1>1 DEF Live

\* A thread that begins is one more.
LEMMA MoveBegins ==
  ASSUME TypeOK, NEW t \in Threads, NEW s, Goto(t, s), ~Running(pc[t]), Running(s)
  PROVE  /\ t \notin Live
         /\ Live' = Live \cup {t}
         /\ Cardinality(Live') = Cardinality(Live) + 1
  <1>1. \A u \in Threads : Running(pc'[u]) <=> (Running(pc[u]) \/ u = t)
    BY DEF TypeOK, Goto, Running
  <1>2. t \notin Live /\ Live' = Live \cup {t}
    BY <1>1 DEF Live
  <1>. QED
    BY <1>2, LiveFinite, FS_AddElement

\* A thread that ends is one less.
LEMMA MoveEnds ==
  ASSUME TypeOK, NEW t \in Threads, NEW s, Goto(t, s), Running(pc[t]), ~Running(s)
  PROVE  /\ t \in Live
         /\ Live' = Live \ {t}
         /\ Cardinality(Live') = Cardinality(Live) - 1
  <1>1. \A u \in Threads : Running(pc'[u]) <=> (Running(pc[u]) /\ u # t)
    BY DEF TypeOK, Goto, Running
  <1>2. t \in Live /\ Live' = Live \ {t}
    BY <1>1 DEF Live
  <1>. QED
    BY <1>2, LiveFinite, FS_RemoveElement

-----------------------------------------------------------------------------
(* The invariant holds at the start and every step keeps it.                  *)

\* Init establishes the invariant.
LEMMA InvHoldsInitially == Init => Inv
  <1>. SUFFICES ASSUME Init PROVE Inv
    OBVIOUS
  <1>1. TypeOK
    BY NamesDistinct DEF Init, TypeOK, Threads, OwnerStates, AcceptorStates, PeerStates
  <1>2. Live = {} /\ Starting = 0
    BY DEF Init, Live, Running, Starting, Threads
  <1>3. Regions /\ SocketHasOneOwner
    BY NamesDistinct DEF Init, Regions, SocketHasOneOwner, AfterDestroy, Threads
  <1>4. CountIsExact /\ NoThreadOutlivesServer
    BY <1>2, FS_EmptySet DEF Init, CountIsExact, NoThreadOutlivesServer
  <1>. QED
    BY <1>1, <1>3, <1>4 DEF Inv

\* A move of the accept thread between running points outside "spawn" and
\* "spawning" that touches no connection but those in the backlog.
LEMMA AcceptorMoveKeepsInv ==
  ASSUME Inv, NEW from \in AcceptorStates, NEW to \in AcceptorStates,
         AcceptorMoves(from, to), Running(from), Running(to),
         {from, to} \cap {"spawn", "spawning"} = {},
         UNCHANGED accepting,
         listener' \in {"none", "open", "listening", "closed"},
         accept_event' \in {"none", "armed", "recorded", "posted"},
         socket' \in {socket, CloseListener}
  PROVE  Inv'
  <1>. USE NamesDistinct DEF Inv
  <1>1. Goto(Acceptor, to) /\ pc[Acceptor] = from /\ Acceptor \in Threads
    BY DEF AcceptorMoves, Threads
  <1>2. pc' = [pc EXCEPT ![Acceptor] = to] /\ pc'[Acceptor] = to
        /\ \A c \in Conns : pc'[c] = pc[c]
    BY <1>1 DEF Goto, TypeOK, Threads
  <1>3. UNCHANGED <<mutex, owner, started, stop_event, thread_count>>
    BY DEF AcceptorMoves, ownerVars
  <1>4. /\ socket' \in [Conns -> {"unused", "backlog", "open", "closed"}]
        /\ \A c \in Conns : \/ socket'[c] = socket[c]
                            \/ socket[c] = "backlog" /\ socket'[c] = "closed"
    BY DEF CloseListener, Backlog, TypeOK
  <1>5. TypeOK'
    BY <1>2, <1>3, <1>4 DEF TypeOK, Threads
  <1>6. Live' = Live /\ Starting' = Starting
    BY <1>1, <1>2, <1>3, MoveKeepsLive DEF Starting
  <1>7. Regions'
    BY <1>1, <1>2, <1>3, <1>4 DEF Regions, AfterDestroy, Running
  <1>8. CountIsExact' /\ NoThreadOutlivesServer'
    BY <1>3, <1>6 DEF CountIsExact, NoThreadOutlivesServer
  <1>9. SocketHasOneOwner'
    BY <1>2, <1>4 DEF SocketHasOneOwner
  <1>. QED
    BY <1>5, <1>7, <1>8, <1>9

\* A move of a peer thread between points where it holds its socket.
LEMMA PeerMoveKeepsInv ==
  ASSUME Inv, NEW c \in Conns, NEW from, NEW to, PeerMoves(c, from, to),
         from \in PeerStates \ {"none", "ending", "ended"},
         to \in PeerStates \ {"none", "ending", "ended"}
  PROVE  Inv'
  <1>. USE NamesDistinct DEF Inv
  <1>1. Goto(c, to) /\ pc[c] = from /\ c \in Threads /\ c # Acceptor
    BY DEF PeerMoves, Threads
  <1>2. pc' = [pc EXCEPT ![c] = to] /\ pc'[Acceptor] = pc[Acceptor] /\ pc'[c] = to
        /\ \A d \in Conns \ {c} : pc'[d] = pc[d]
    BY <1>1 DEF Goto, TypeOK, Threads
  <1>3. UNCHANGED <<mutex, owner, started, stop_event, thread_count, accepting,
                    listener, accept_event, socket>>
    BY DEF PeerMoves, ownerVars, acceptVars
  <1>5. TypeOK'
    BY <1>2, <1>3 DEF TypeOK, Threads
  <1>6. Live' = Live /\ Starting' = Starting
    BY <1>1, <1>2, <1>3, MoveKeepsLive DEF Starting, Running
  <1>7. Regions'
    BY <1>1, <1>2, <1>3 DEF Regions, AfterDestroy
  <1>8. CountIsExact' /\ NoThreadOutlivesServer'
    BY <1>3, <1>6 DEF CountIsExact, NoThreadOutlivesServer
  <1>9. SocketHasOneOwner'
    BY <1>1, <1>2, <1>3 DEF SocketHasOneOwner
  <1>. QED
    BY <1>5, <1>7, <1>8, <1>9

\* A step that moves no thread, neither starts nor counts one and leaves the
\* sockets' owners alone: only the owner's side and the clients' need a look.
LEMMA QuietStepKeepsInv ==
  ASSUME Inv, UNCHANGED <<pc, thread_count, accepting, listener>>,
         TypeOK', Regions', Starting' = Starting,
         owner' = "gone" => owner = "gone" \/ thread_count = 0,
         \A c \in Conns : socket'[c] = "open" <=> socket[c] = "open"
  PROVE  Inv'
  <1>. USE DEF Inv
  <1>1. Live' = Live
    BY DEF Live
  <1>2. CountIsExact'
    BY <1>1 DEF CountIsExact
  <1>3. NoThreadOutlivesServer'
    <2>1. CASE owner = "gone"
      BY <1>1, <2>1 DEF NoThreadOutlivesServer
    <2>2. CASE thread_count = 0
      <3>1. Cardinality(Live) = 0 /\ Starting = 0
        BY <2>2, LiveFinite DEF CountIsExact, Starting
      <3>. QED
        BY <1>1, <3>1, LiveFinite, FS_EmptySet DEF NoThreadOutlivesServer
    <2>. QED
      BY <2>1, <2>2 DEF NoThreadOutlivesServer
  <1>4. SocketHasOneOwner'
    BY DEF SocketHasOneOwner
  <1>. QED
    BY <1>2, <1>3, <1>4

\* The owner's steps, and the waking of its condition variable.
LEMMA OwnerKeepsInv ==
  ASSUME Inv, Start \/ Destroy \/ SpuriousWakeUp \/ OwnerStep
  PROVE  Inv'
  <1>. USE NamesDistinct DEF Inv, ownerVars, acceptVars
  <1>1. CASE Start
    <2>1. Live' = Live
      BY <1>1 DEF Start, Live
    <2>2. TypeOK' /\ Regions' /\ SocketHasOneOwner'
      BY <1>1 DEF Start, Counted, TypeOK, OwnerStates, Regions, AfterDestroy, SocketHasOneOwner
    <2>3. Starting = 0 /\ Starting' = 1
      BY <1>1 DEF Start, Starting, Regions
    <2>. QED
      BY <1>1, <2>1, <2>2, <2>3, LiveFinite
      DEF Start, Counted, CountIsExact, NoThreadOutlivesServer
  <1>2. CASE Destroy
    <2>1. TypeOK' /\ Regions'
      BY <1>2 DEF Destroy, TypeOK, OwnerStates, Regions, AfterDestroy
    <2>. QED
      BY <1>2, <2>1, QuietStepKeepsInv DEF Destroy, Starting
  <1>3. CASE SpuriousWakeUp
    <2>1. TypeOK' /\ Regions'
      BY <1>3 DEF SpuriousWakeUp, TypeOK, OwnerStates, Regions, AfterDestroy
    <2>. QED
      BY <1>3, <2>1, QuietStepKeepsInv DEF SpuriousWakeUp, Starting
  <1>4. CASE StartSucceeds
    <2>1. Acceptor \in Threads /\ Goto(Acceptor, "setup") /\ ~Running(pc[Acceptor])
      BY <1>4 DEF StartSucceeds, Threads, Regions, Running
    <2>2. Cardinality(Live') = Cardinality(Live) + 1
      BY <2>1, MoveBegins DEF Running
    <2>3. pc' = [pc EXCEPT ![Acceptor] = "setup"] /\ \A c \in Conns : pc'[c] = pc[c]
      BY <2>1 DEF Goto, TypeOK, Threads
    <2>4. TypeOK'
      BY <1>4, <2>3 DEF StartSucceeds, TypeOK, Threads, OwnerStates, AcceptorStates
    <2>5. Regions' /\ SocketHasOneOwner'
      BY <1>4, <2>3, <2>1
      DEF StartSucceeds, TypeOK, Regions, AfterDestroy, SocketHasOneOwner
    <2>6. Starting = 1 /\ Starting' = 0
      BY <1>4, <2>3, <2>1 DEF StartSucceeds, Starting, TypeOK
    <2>. QED
      BY <1>4, <2>2, <2>4, <2>5, <2>6, LiveFinite
      DEF StartSucceeds, CountIsExact, NoThreadOutlivesServer, TypeOK
  <1>5. CASE StartFails
    <2>1. Live' = Live
      BY <1>5 DEF StartFails, Live
    <2>2. Starting = 1 /\ Starting' = 0
      BY <1>5 DEF StartFails, Starting, Regions
    <2>3. thread_count - 1 = Cardinality(Live)
      BY <2>2, LiveFinite DEF CountIsExact
    <2>4. TypeOK'
      BY <1>5, <2>3, LiveFinite DEF StartFails, Uncounted, TypeOK, OwnerStates
    <2>5. Regions' /\ SocketHasOneOwner'
      BY <1>5 DEF StartFails, Regions, AfterDestroy, SocketHasOneOwner
    <2>. QED
      BY <1>5, <2>1, <2>2, <2>3, <2>4, <2>5, LiveFinite
      DEF StartFails, Uncounted, CountIsExact, NoThreadOutlivesServer
  <1>6. CASE CheckThreads
    <2>1. owner' \in {"waiting", "gone"} /\ (owner' = "gone" => thread_count = 0)
      BY <1>6 DEF CheckThreads, AfterCheck, TypeOK
    <2>2. TypeOK' /\ Regions'
      BY <1>6, <2>1 DEF CheckThreads, TypeOK, OwnerStates, Regions, AfterDestroy
    <2>. QED
      BY <1>6, <2>1, <2>2, QuietStepKeepsInv DEF CheckThreads, Starting
  <1>7. CASE WakeUp
    <2>1. TypeOK' /\ Regions'
      BY <1>7 DEF WakeUp, TypeOK, OwnerStates, Regions, AfterDestroy
    <2>. QED
      BY <1>7, <2>1, QuietStepKeepsInv DEF WakeUp, Starting
  <1>. QED
    BY <1>1, <1>2, <1>3, <1>4, <1>5, <1>6, <1>7 DEF OwnerStep

\* The last step of any thread.
LEMMA EndThreadKeepsInv ==
  ASSUME Inv, NEW t \in Threads, EndThread(t)
  PROVE  Inv'
  <1>. USE NamesDistinct DEF Inv, ownerVars, acceptVars
  <1>1. Goto(t, "ended") /\ pc[t] = "ending" /\ mutex = "free"
    BY DEF EndThread
  <1>2. pc' = [pc EXCEPT ![t] = "ended"] /\ pc'[t] = "ended"
        /\ \A u \in Threads \ {t} : pc'[u] = pc[u]
    BY <1>1 DEF Goto, TypeOK
  <1>3. Cardinality(Live') = Cardinality(Live) - 1 /\ t \in Live
    BY <1>1, MoveEnds DEF Running
  <1>4. Starting = 0 /\ Starting' = 0
    BY <1>1, <1>2 DEF EndThread, NotifyAll, Starting, Regions, Threads
  <1>5. owner # "gone" /\ owner' # "gone"
    BY <1>3 DEF EndThread, NotifyAll, NoThreadOutlivesServer
  <1>6. thread_count = Cardinality(Live) /\ thread_count' = Cardinality(Live')
    BY <1>3, <1>4, LiveFinite DEF CountIsExact, EndThread
  <1>7. thread_count' \in Nat
    <2>1. Cardinality(Live) # 0
      BY <1>3, LiveFinite, FS_EmptySet
    <2>. QED
      BY <1>3, <1>6, <2>1, LiveFinite
  <1>8. TypeOK'
    BY <1>2, <1>7 DEF EndThread, NotifyAll, TypeOK, OwnerStates, Threads, AcceptorStates, PeerStates
  <1>9. Regions'
    BY <1>1, <1>2 DEF EndThread, NotifyAll, Regions, AfterDestroy, Threads
  <1>10. SocketHasOneOwner'
    BY <1>1, <1>2 DEF EndThread, SocketHasOneOwner, Threads
  <1>. QED
    BY <1>4, <1>5, <1>6, <1>7, <1>8, <1>9, <1>10
    DEF CountIsExact, NoThreadOutlivesServer

\* The accept thread's steps while a connection is in its hands.
LEMMA HandOverKeepsInv ==
  ASSUME Inv, AcceptConnection \/ SpawnPeer \/ SpawnSucceeds \/ SpawnFails
  PROVE  Inv'
  <1>. USE NamesDistinct DEF Inv, ownerVars, acceptVars
  <1>0. Acceptor \in Threads
    BY DEF Threads
  <1>1. CASE AcceptConnection
    <2>1. PICK c \in Backlog : /\ accepting' = c
                               /\ socket' = [socket EXCEPT ![c] = "open"]
                               /\ accept_event' = FdAccept(Backlog \ {c})
      BY <1>1 DEF AcceptConnection
    <2>2. c \in Conns /\ pc[c] = "none" /\ c # NoConn /\ c # Acceptor
      BY <2>1 DEF Backlog, Regions
    <2>3. /\ Goto(Acceptor, "spawn") /\ pc[Acceptor] = "accept"
          /\ UNCHANGED <<mutex, owner, started, stop_event, thread_count, listener>>
      BY <1>1 DEF AcceptConnection, AcceptorMoves
    <2>4. pc' = [pc EXCEPT ![Acceptor] = "spawn"] /\ pc'[Acceptor] = "spawn"
          /\ \A d \in Conns : pc'[d] = pc[d]
      BY <2>3 DEF Goto, TypeOK, Threads
    <2>5. TypeOK'
      BY <2>1, <2>2, <2>3, <2>4 DEF TypeOK, Threads, FdAccept, AcceptorStates
    <2>6. Regions'
      BY <2>1, <2>2, <2>3, <2>4 DEF Regions, AfterDestroy, TypeOK
    <2>7. Live' = Live /\ Starting' = Starting
      BY <1>0, <2>3, <2>4, MoveKeepsLive DEF Starting, Running
    <2>8. CountIsExact' /\ NoThreadOutlivesServer'
      BY <2>3, <2>7 DEF CountIsExact, NoThreadOutlivesServer
    <2>9. SocketHasOneOwner'
      <3>1. accepting = NoConn
        BY <2>3 DEF Regions
      <3>. QED
        BY <2>1, <2>2, <2>4, <3>1 DEF SocketHasOneOwner, TypeOK
    <2>. QED
      BY <2>5, <2>6, <2>8, <2>9
  <1>2. CASE SpawnPeer
    <2>1. /\ Goto(Acceptor, "spawning") /\ pc[Acceptor] = "spawn" /\ mutex = "free"
          /\ mutex' = "acceptor" /\ thread_count' = thread_count + 1
          /\ UNCHANGED <<owner, started, stop_event, accepting, listener, accept_event, socket>>
      BY <1>2 DEF SpawnPeer, Counted
    <2>2. pc' = [pc EXCEPT ![Acceptor] = "spawning"] /\ pc'[Acceptor] = "spawning"
          /\ \A d \in Conns : pc'[d] = pc[d]
      BY <2>1 DEF Goto, TypeOK, Threads
    <2>3. TypeOK' /\ Regions' /\ SocketHasOneOwner'
      BY <2>1, <2>2 DEF TypeOK, Threads, AcceptorStates, Regions, AfterDestroy, SocketHasOneOwner
    <2>4. Live' = Live
      BY <1>0, <2>1, MoveKeepsLive DEF Running
    <2>5. Starting = 0 /\ Starting' = 1 /\ owner # "gone"
      <3>1. Acceptor \in Live
        BY <2>1 DEF Live, Threads, Running
      <3>. QED
        BY <2>1, <2>2, <3>1 DEF Starting, Regions, NoThreadOutlivesServer
    <2>. QED
      BY <2>1, <2>3, <2>4, <2>5, LiveFinite DEF CountIsExact, NoThreadOutlivesServer
  <1>3. CASE SpawnSucceeds \/ SpawnFails
    <2>1. PICK c \in Conns : accepting = c /\ pc[c] = "none" /\ socket[c] = "open"
      BY <1>3 DEF SpawnSucceeds, SpawnFails, Regions, TypeOK, SocketHasOneOwner
    <2>2. c # NoConn /\ c # Acceptor /\ c \in Threads
      BY DEF Threads
    <2>3. /\ pc[Acceptor] = "spawning" /\ mutex' = "free" /\ accepting' = NoConn
          /\ UNCHANGED <<owner, started, stop_event, listener, accept_event>>
      BY <1>3 DEF SpawnSucceeds, SpawnFails
    <2>4. Starting = 1 /\ mutex = "acceptor" /\ owner \notin {"starting", "checking", "gone"}
      BY <2>3 DEF Starting, Regions, NoThreadOutlivesServer
    <2>5. CASE SpawnSucceeds
      <3>1. pc' = [pc EXCEPT ![Acceptor] = "wait", ![c] = "configure"] /\ UNCHANGED socket
            /\ thread_count' = thread_count
        BY <2>1, <2>5 DEF SpawnSucceeds
      <3>2. pc'[Acceptor] = "wait" /\ pc'[c] = "configure"
            /\ \A d \in Conns \ {c} : pc'[d] = pc[d]
        BY <2>2, <3>1 DEF TypeOK, Threads
      <3>3. TypeOK'
        BY <2>2, <2>3, <3>1, <3>2 DEF TypeOK, Threads, AcceptorStates, PeerStates
      <3>4. Regions' /\ SocketHasOneOwner'
        BY <2>1, <2>2, <2>3, <2>4, <3>1, <3>2 DEF Regions, AfterDestroy, SocketHasOneOwner
      <3>5. Starting' = 0
        BY <2>3, <2>4, <3>2 DEF Starting
      <3>6. Live' = Live \cup {c} /\ c \notin Live
        BY <2>1, <2>2, <2>3, <3>2 DEF Live, Threads, Running
      <3>7. Cardinality(Live') = Cardinality(Live) + 1
        BY <3>6, LiveFinite, FS_AddElement
      <3>. QED
        BY <2>3, <2>4, <3>1, <3>3, <3>4, <3>5, <3>7, LiveFinite
        DEF CountIsExact, NoThreadOutlivesServer
    <2>6. CASE SpawnFails
      <3>1. /\ Goto(Acceptor, "wait") /\ socket' = [socket EXCEPT ![c] = "closed"]
            /\ thread_count' = thread_count - 1
        BY <2>1, <2>6 DEF SpawnFails, Uncounted, ClosePeer
      <3>2. pc' = [pc EXCEPT ![Acceptor] = "wait"] /\ pc'[Acceptor] = "wait"
            /\ \A d \in Conns : pc'[d] = pc[d]
        BY <3>1 DEF Goto, TypeOK, Threads
      <3>3. thread_count - 1 = Cardinality(Live) /\ Starting' = 0
        BY <2>3, <2>4, <3>2, LiveFinite DEF CountIsExact, Starting
      <3>4. TypeOK'
        BY <2>3, <3>1, <3>2, <3>3, LiveFinite DEF TypeOK, Threads, AcceptorStates
      <3>5. Regions' /\ SocketHasOneOwner'
        BY <2>1, <2>2, <2>3, <2>4, <3>1, <3>2
        DEF TypeOK, Regions, AfterDestroy, SocketHasOneOwner
      <3>6. Live' = Live
        BY <1>0, <2>3, <3>1, MoveKeepsLive DEF Running
      <3>. QED
        BY <2>3, <2>4, <3>1, <3>3, <3>4, <3>5, <3>6, LiveFinite
        DEF CountIsExact, NoThreadOutlivesServer
    <2>. QED
      BY <1>3, <2>5, <2>6
  <1>. QED
    BY <1>1, <1>2, <1>3

\* The accept thread's other steps.
LEMMA AcceptorKeepsInv ==
  ASSUME Inv, \/ CreateListenSocket \/ Listen \/ SelectAccept \/ AcceptWait \/ EnumAccept
              \/ AcceptNothing \/ AcceptAborts \/ LeaveAccept
  PROVE  Inv'
  <1>. USE DEF Inv, acceptVars, Running, AcceptorStates, TypeOK
  <1>1. CASE CreateListenSocket
    BY <1>1, AcceptorMoveKeepsInv DEF CreateListenSocket
  <1>2. CASE Listen
    BY <1>2, AcceptorMoveKeepsInv DEF Listen
  <1>3. CASE SelectAccept
    BY <1>3, AcceptorMoveKeepsInv DEF SelectAccept, FdAccept
  <1>4. CASE AcceptWait
    BY <1>4, AcceptorMoveKeepsInv DEF AcceptWait, FirstSignalled
  <1>5. CASE EnumAccept
    BY <1>5, AcceptorMoveKeepsInv DEF EnumAccept
  <1>6. CASE AcceptNothing
    BY <1>6, AcceptorMoveKeepsInv DEF AcceptNothing, FdAccept
  <1>7. CASE AcceptAborts
    BY <1>7, AcceptorMoveKeepsInv DEF AcceptAborts
  <1>8. CASE LeaveAccept
    BY <1>8, AcceptorMoveKeepsInv DEF LeaveAccept
  <1>. QED
    BY <1>1, <1>2, <1>3, <1>4, <1>5, <1>6, <1>7, <1>8

\* What a peer thread and its client do, up to the thread's last step.
LEMMA PeerKeepsInv ==
  ASSUME Inv, NEW c \in Conns,
         \/ PeerConfigures(c) \/ PeerReceives(c) \/ PeerSends(c) \/ PeerBlocks(c)
         \/ PeerSocketFails(c) \/ PeerSeesStop(c) \/ PeerWakes(c) \/ PeerAborts(c)
         \/ LeavePeer(c) \/ Connect(c) \/ Abandon(c)
  PROVE  Inv'
  <1>. USE NamesDistinct DEF Inv, ownerVars, acceptVars
  <1>1. CASE \/ PeerConfigures(c) \/ PeerReceives(c) \/ PeerSends(c) \/ PeerBlocks(c)
             \/ PeerSocketFails(c) \/ PeerSeesStop(c) \/ PeerWakes(c) \/ PeerAborts(c)
    <2>1. PICK from, to \in PeerStates \ {"none", "ending", "ended"} : PeerMoves(c, from, to)
      BY <1>1 DEF PeerConfigures, PeerReceives, PeerSends, PeerBlocks, PeerSocketFails,
                  PeerSeesStop, PeerWakes, PeerAborts, PeerStates
    <2>. QED
      BY <2>1, PeerMoveKeepsInv
  <1>2. CASE LeavePeer(c)
    <2>1. /\ Goto(c, "ending") /\ pc[c] = "leaving" /\ c \in Threads /\ c # Acceptor
          /\ socket' = [socket EXCEPT ![c] = "closed"]
          /\ UNCHANGED <<mutex, owner, started, stop_event, thread_count, accepting,
                         listener, accept_event>>
      BY <1>2 DEF LeavePeer, Threads
    <2>2. pc' = [pc EXCEPT ![c] = "ending"] /\ pc'[Acceptor] = pc[Acceptor]
          /\ pc'[c] = "ending" /\ \A d \in Conns \ {c} : pc'[d] = pc[d]
      BY <2>1 DEF Goto, TypeOK, Threads
    <2>3. TypeOK' /\ Regions' /\ SocketHasOneOwner'
      BY <2>1, <2>2
      DEF TypeOK, Threads, PeerStates, Regions, AfterDestroy, SocketHasOneOwner
    <2>4. Live' = Live /\ Starting' = Starting
      BY <2>1, <2>2, MoveKeepsLive DEF Running, Starting
    <2>. QED
      BY <2>1, <2>3, <2>4 DEF CountIsExact, NoThreadOutlivesServer
  <1>3. CASE Connect(c) \/ Abandon(c)
    <2>1. /\ UNCHANGED <<mutex, owner, started, stop_event, thread_count, pc, accepting, listener>>
          /\ accept_event' \in {"none", "armed", "recorded", "posted"}
          /\ \/ socket[c] = "unused" /\ socket' = [socket EXCEPT ![c] = "backlog"]
             \/ socket[c] = "backlog" /\ socket' = [socket EXCEPT ![c] = "closed"]
      BY <1>3 DEF Connect, Abandon, TypeOK
    <2>2. TypeOK' /\ Regions' /\ Starting' = Starting
      BY <2>1 DEF TypeOK, Regions, AfterDestroy, Starting
    <2>3. \A d \in Conns : socket'[d] = "open" <=> socket[d] = "open"
      BY <2>1 DEF TypeOK
    <2>4. owner' = "gone" => owner = "gone"
      BY <2>1
    <2>5. pc' = pc /\ thread_count' = thread_count /\ accepting' = accepting /\ listener' = listener
      BY <2>1
    <2>. QED
      BY <2>2, <2>3, <2>4, <2>5, QuietStepKeepsInv
  <1>. QED
    BY <1>1, <1>2, <1>3

\* Every step of the specification keeps the invariant.
LEMMA NextKeepsInv == Inv /\ [Next]_vars => Inv'
  <1>. SUFFICES ASSUME Inv, [Next]_vars PROVE Inv'
    OBVIOUS
  <1>1. CASE Start \/ Destroy \/ SpuriousWakeUp \/ OwnerStep
    BY <1>1, OwnerKeepsInv
  <1>2. CASE \E t \in Threads : EndThread(t)
    BY <1>2, EndThreadKeepsInv
  <1>3. CASE AcceptConnection \/ SpawnPeer \/ SpawnSucceeds \/ SpawnFails
    BY <1>3, HandOverKeepsInv
  <1>4. CASE \/ CreateListenSocket \/ Listen \/ SelectAccept \/ AcceptWait \/ EnumAccept
             \/ AcceptNothing \/ AcceptAborts \/ LeaveAccept
    BY <1>4, AcceptorKeepsInv
  <1>5. CASE \E c \in Conns :
               \/ PeerConfigures(c) \/ PeerReceives(c) \/ PeerSends(c) \/ PeerBlocks(c)
               \/ PeerSocketFails(c) \/ PeerSeesStop(c) \/ PeerWakes(c) \/ PeerAborts(c)
               \/ LeavePeer(c) \/ Connect(c) \/ Abandon(c)
    BY <1>5, PeerKeepsInv
  <1>6. CASE UNCHANGED vars
    BY <1>6 DEF vars, ownerVars, acceptVars, Inv, TypeOK, Regions, AfterDestroy, CountIsExact,
                NoThreadOutlivesServer, SocketHasOneOwner, Live, Running, Starting, Threads,
                OwnerStates, AcceptorStates, PeerStates
  <1>. QED
    BY <1>1, <1>2, <1>3, <1>4, <1>5, <1>6
    DEF Next, AcceptorStep, PeerStep, Environment, Terminated, Threads

-----------------------------------------------------------------------------
(* The theorems.                                                              *)

\* The strengthened invariant holds in every reachable state.
THEOREM Invariance == Spec => []Inv
  <1>. QED
    BY InvHoldsInitially, NextKeepsInv, PTL DEF Spec

\* Every variable keeps its range; thread_count never goes below zero.
THEOREM TypeCorrect == Spec => []TypeOK
  <1>1. Inv => TypeOK
    BY DEF Inv
  <1>. QED
    BY <1>1, Invariance, PTL

\* thread_count is the number of threads alive or being started, for any number
\* of connections, failed thread starts and early returns.
THEOREM CountCorrect == Spec => []CountIsExact
  <1>1. Inv => CountIsExact
    BY DEF Inv
  <1>. QED
    BY <1>1, Invariance, PTL

\* The destructor returns only when no thread can touch the object any more.
THEOREM LifetimeSafe == Spec => []NoThreadOutlivesServer
  <1>1. Inv => NoThreadOutlivesServer
    BY DEF Inv
  <1>. QED
    BY <1>1, Invariance, PTL

\* Every accepted socket is closed by exactly one of the two threads.
THEOREM SocketsOwned == Spec => []SocketHasOneOwner
  <1>1. Inv => SocketHasOneOwner
    BY DEF Inv
  <1>. QED
    BY <1>1, Invariance, PTL

\* After the stop event the accept thread takes no further connection.
THEOREM StopHonoured == Spec => NoAcceptAfterStop
  <1>1. Inv /\ [Next]_vars =>
          [stop_event /\ pc[Acceptor] \notin Busy => pc'[Acceptor] \notin Busy]_vars
    <2>. SUFFICES ASSUME Inv, Next, stop_event, pc[Acceptor] \notin Busy
                  PROVE  pc'[Acceptor] \notin Busy
      OBVIOUS
    <2>. USE NamesDistinct DEF Inv, TypeOK, Threads, Busy
    <2>1. CASE OwnerStep \/ Environment \/ Terminated
      BY <2>1 DEF OwnerStep, StartSucceeds, StartFails, CheckThreads, WakeUp, Environment, Start,
                  Destroy, SpuriousWakeUp, AcceptAborts, AcceptorMoves, Connect, Abandon,
                  PeerWakes, PeerAborts, PeerMoves, Goto, Terminated, vars
    <2>2. CASE AcceptorStep
      BY <2>2 DEF AcceptorStep, CreateListenSocket, Listen, SelectAccept, AcceptWait,
                  FirstSignalled, EnumAccept, AcceptConnection, AcceptNothing, SpawnPeer,
                  SpawnSucceeds, SpawnFails, LeaveAccept, EndThread, AcceptorMoves, Goto
    <2>3. CASE \E c \in Conns : PeerStep(c)
      BY <2>3 DEF PeerStep, PeerConfigures, PeerReceives, PeerSends, PeerBlocks,
                  PeerSocketFails, PeerSeesStop, LeavePeer, EndThread, PeerMoves, Goto
    <2>. QED
      BY <2>1, <2>2, <2>3 DEF Next
  <1>. QED
    BY <1>1, Invariance, PTL DEF Spec, NoAcceptAfterStop

-----------------------------------------------------------------------------
(* The refinement.                                                            *)

Phase == IF owner = "gone" THEN "gone" ELSE IF stop_event THEN "closing" ELSE "open"

\* The owner's steps close and release the object, or begin the accept thread.
LEMMA OwnerStepsMap ==
  ASSUME Inv, Start \/ Destroy \/ SpuriousWakeUp \/ OwnerStep
  PROVE  [Lifetime!Next]_<<Phase, Live>>
  <1>. USE DEF Inv, Lifetime!Next, Lifetime!Close, Lifetime!Release, Lifetime!Begin, Phase
  <1>1. CASE Start \/ SpuriousWakeUp \/ StartFails \/ WakeUp
    BY <1>1 DEF Start, SpuriousWakeUp, StartFails, WakeUp, Live
  <1>2. CASE Destroy
    BY <1>2 DEF Destroy, Live, Regions, AfterDestroy
  <1>3. CASE StartSucceeds
    <2>1. Acceptor \in Threads /\ Goto(Acceptor, "setup") /\ ~Running(pc[Acceptor])
      BY <1>3 DEF StartSucceeds, Threads, Regions, Running
    <2>2. Acceptor \notin Live /\ Live' = Live \cup {Acceptor}
      BY <2>1, MoveBegins DEF Running
    <2>3. Phase = "open" /\ Phase' = "open"
      BY <1>3 DEF StartSucceeds, Regions, AfterDestroy
    <2>. QED
      BY <2>1, <2>2, <2>3
  <1>4. CASE CheckThreads
    <2>1. Live' = Live /\ Phase = "closing"
      BY <1>4 DEF CheckThreads, Live, Regions, AfterDestroy
    <2>2. CASE thread_count > 0
      BY <1>4, <2>1, <2>2 DEF CheckThreads, AfterCheck, Regions, AfterDestroy
    <2>3. CASE ~(thread_count > 0)
      <3>1. Cardinality(Live) = 0
        BY <2>3, LiveFinite DEF TypeOK, CountIsExact, Starting
      <3>2. Live = {} /\ owner' = "gone"
        BY <1>4, <2>3, <3>1, LiveFinite, FS_EmptySet DEF CheckThreads, AfterCheck
      <3>. QED
        BY <2>1, <3>2
    <2>. QED
      BY <2>2, <2>3
  <1>. QED
    BY <1>1, <1>2, <1>3, <1>4 DEF OwnerStep

\* The threads' steps begin a peer thread, end a thread or change nothing.
LEMMA ThreadStepsMap ==
  ASSUME Inv, AcceptorStep \/ AcceptAborts \/ \E c \in Conns :
              PeerStep(c) \/ PeerWakes(c) \/ PeerAborts(c) \/ Connect(c) \/ Abandon(c)
  PROVE  [Lifetime!Next]_<<Phase, Live>>
  <1>. USE NamesDistinct DEF Inv, Lifetime!Next, Lifetime!Begin, Lifetime!End, Phase, Threads
  <1>1. CASE \E t \in Threads : EndThread(t)
    <2>1. PICK t \in Threads : EndThread(t)
      BY <1>1
    <2>2. t \in Live /\ Live' = Live \ {t}
      BY <2>1, MoveEnds DEF EndThread, Running
    <2>3. UNCHANGED Phase
      BY <2>1, <2>2 DEF EndThread, NotifyAll
    <2>. QED
      BY <2>2, <2>3
  <1>2. CASE SpawnSucceeds
    <2>1. PICK c \in Conns : accepting = c /\ pc[c] = "none"
      BY <1>2 DEF SpawnSucceeds, Regions, TypeOK, SocketHasOneOwner
    <2>2. pc[Acceptor] = "spawning" /\ pc' = [pc EXCEPT ![Acceptor] = "wait", ![c] = "configure"]
          /\ UNCHANGED Phase
      BY <1>2, <2>1 DEF SpawnSucceeds, ownerVars
    <2>3. /\ pc'[c] = "configure" /\ pc'[Acceptor] = "wait"
          /\ \A t \in Threads \ {c, Acceptor} : pc'[t] = pc[t]
      BY <2>2 DEF TypeOK
    <2>4. c \notin Live /\ Acceptor \in Live
      BY <2>1, <2>2 DEF Live, Running
    <2>5. ASSUME NEW t \in Threads PROVE Running(pc'[t]) <=> (Running(pc[t]) \/ t = c)
      BY <2>2, <2>3 DEF Running
    <2>6. Live' = Live \cup {c}
      BY <2>5 DEF Live
    <2>. QED
      BY <2>2, <2>4, <2>6
  <1>3. CASE \/ CreateListenSocket \/ Listen \/ SelectAccept \/ AcceptWait \/ EnumAccept
             \/ AcceptConnection \/ AcceptNothing \/ SpawnPeer \/ SpawnFails \/ AcceptAborts
             \/ LeaveAccept
    <2>1. PICK s : Goto(Acceptor, s) /\ Running(s) /\ Running(pc[Acceptor])
      BY <1>3 DEF CreateListenSocket, Listen, SelectAccept, AcceptWait, FirstSignalled,
                  EnumAccept, AcceptConnection, AcceptNothing, SpawnPeer, SpawnFails,
                  AcceptAborts, LeaveAccept, AcceptorMoves, Running
    <2>2. UNCHANGED Phase
      BY <1>3 DEF CreateListenSocket, Listen, SelectAccept, AcceptWait, EnumAccept,
                  AcceptConnection, AcceptNothing, SpawnPeer, SpawnFails, AcceptAborts,
                  LeaveAccept, AcceptorMoves, ownerVars
    <2>. QED
      BY <2>1, <2>2, MoveKeepsLive
  <1>4. CASE \E c \in Conns :
               \/ PeerConfigures(c) \/ PeerReceives(c) \/ PeerSends(c) \/ PeerBlocks(c)
               \/ PeerSocketFails(c) \/ PeerSeesStop(c) \/ PeerWakes(c) \/ PeerAborts(c)
               \/ LeavePeer(c)
    <2>1. PICK c \in Conns : \E s : Goto(c, s) /\ Running(s) /\ Running(pc[c])
      BY <1>4 DEF PeerConfigures, PeerReceives, PeerSends, PeerBlocks, PeerSocketFails,
                  PeerSeesStop, PeerWakes, PeerAborts, LeavePeer, PeerMoves, Running
    <2>2. PICK s : Goto(c, s) /\ Running(s) /\ Running(pc[c])
      BY <2>1
    <2>3. UNCHANGED Phase
      BY <1>4 DEF PeerConfigures, PeerReceives, PeerSends, PeerBlocks, PeerSocketFails,
                  PeerSeesStop, PeerWakes, PeerAborts, LeavePeer, PeerMoves, ownerVars
    <2>. QED
      BY <2>2, <2>3, MoveKeepsLive
  <1>5. CASE \E c \in Conns : Connect(c) \/ Abandon(c)
    BY <1>5 DEF Connect, Abandon, Live, ownerVars
  <1>. QED
    BY <1>1, <1>2, <1>3, <1>4, <1>5 DEF AcceptorStep, PeerStep

\* The server implements the lifetime its users rely on: no step of any thread
\* starts a thread on, or releases, an object the abstract server would not.
THEOREM Refinement == Spec => ImplementsLifetime
  <1>1. Init => Lifetime!Init
    BY DEF Init, Lifetime!Init, Live, Running, Threads
  <1>2. Inv /\ [Next]_vars => [Lifetime!Next]_(Lifetime!lifetimeVars)
    <2>. SUFFICES ASSUME Inv, [Next]_vars PROVE [Lifetime!Next]_<<Phase, Live>>
      BY DEF Lifetime!lifetimeVars, Phase
    <2>1. CASE UNCHANGED vars
      BY <2>1 DEF vars, ownerVars, Phase, Live
    <2>. QED
      BY <2>1, OwnerStepsMap, ThreadStepsMap DEF Next, Environment, Terminated
  <1>. QED
    BY <1>1, <1>2, Invariance, PTL DEF Spec, ImplementsLifetime, Lifetime!Spec
=============================================================================
