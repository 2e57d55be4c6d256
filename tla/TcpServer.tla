------------------------------ MODULE TcpServer ------------------------------
(* The threads and the lifetime of ActualTcpServer (server/tcp_server.cpp):   *)
(* the owner that starts and destroys it, the accept thread, one detached     *)
(* thread per accepted connection, and the mutex, condition variable, thread  *)
(* counter and manual-reset stop event they share.  What a peer thread says   *)
(* on its socket is left to PeerConnection.tla: here a receive or a send only *)
(* completes, blocks or fails.                                                *)
EXTENDS Naturals, FiniteSets

CONSTANTS
  Conns,      \* the connections clients open; each names its peer thread too
  Acceptor,   \* the accept thread
  NoConn      \* "no connection in the accept thread's hands"

ASSUME ConnsFinite   == IsFiniteSet(Conns)
ASSUME NamesDistinct == Acceptor \notin Conns /\ NoConn \notin Conns

Threads == Conns \cup {Acceptor}

VARIABLES
  mutex,          \* "free", or the holder: "owner" or "acceptor"
  owner,          \* where the owner's call stands
  started, thread_count, stop_event,
  pc,             \* program point of each thread
  accepting,      \* `peer` of accept_handler: accepted, not yet handed over
  listener,       \* the listen socket
  accept_event,   \* FD_ACCEPT of the listen socket, see the Winsock part below
  socket          \* each connection's socket

ownerVars  == <<owner, started, stop_event>>
acceptVars == <<accepting, listener, accept_event>>
vars == <<mutex, ownerVars, thread_count, pc, acceptVars, socket>>

OwnerStates    == {"idle", "starting", "checking", "waiting", "notified", "gone"}
AcceptorStates == {"none", "setup", "configure", "select", "wait", "enum",
                   "accept", "spawn", "spawning", "leaving", "ending", "ended"}
PeerStates     == {"none", "configure", "recv", "recv_wait", "send", "send_wait",
                   "spin", "leaving", "ending", "ended"}

Running(state) == state \notin {"none", "ended"}
Live == {t \in Threads : Running(pc[t])}

\* The connections the listen socket has queued.
Backlog == {c \in Conns : socket[c] = "backlog"}

Init ==   \* after the constructor, which only creates the stop event
  /\ mutex = "free"
  /\ owner = "idle"
  /\ started = FALSE
  /\ thread_count = 0
  /\ stop_event = FALSE
  /\ pc = [t \in Threads |-> "none"]
  /\ accepting = NoConn
  /\ listener = "none"
  /\ accept_event = "none"
  /\ socket = [c \in Conns |-> "unused"]

Goto(t, state) == pc' = [pc EXCEPT ![t] = state]

\* try_start_thread counts a thread before it creates it ...
Forgotten == thread_count   \* mutant: the line is missing
Counted   == thread_count + 1
\* ... and takes it back when std::thread throws.
Uncounted == thread_count - 1

-----------------------------------------------------------------------------
(* The owner: start() and the destructor.  Both hold the mutex, which         *)
(* condition.wait gives up while the destructor waits.  A second start() only *)
(* logs.                                                                      *)

Start ==   \* start() up to thread_count++ in try_start_thread
  /\ owner = "idle" /\ mutex = "free"
  /\ ~started
  /\ started' = TRUE
  /\ thread_count' = Counted
  /\ owner' = "starting" /\ mutex' = "owner"
  /\ UNCHANGED <<stop_event, pc, acceptVars, socket>>

StartSucceeds ==
  /\ owner = "starting"
  /\ Goto(Acceptor, "setup")
  /\ owner' = "idle" /\ mutex' = "free"
  /\ UNCHANGED <<started, stop_event, thread_count, acceptVars, socket>>

StartFails ==   \* std::system_error; `started` stays set
  /\ owner = "starting"
  /\ thread_count' = Uncounted
  /\ owner' = "idle" /\ mutex' = "free"
  /\ UNCHANGED <<started, stop_event, pc, acceptVars, socket>>

Destroy ==
  /\ owner = "idle" /\ mutex = "free"
  /\ stop_event' = TRUE
  /\ owner' = "checking" /\ mutex' = "owner"
  /\ UNCHANGED <<started, thread_count, pc, acceptVars, socket>>

\* while (thread_count > 0) condition.wait(guard)
OffByOne   == IF thread_count > 1 THEN "waiting" ELSE "gone"   \* mutant
AfterCheck == IF thread_count > 0 THEN "waiting" ELSE "gone"

CheckThreads ==
  /\ owner = "checking"
  /\ owner' = AfterCheck
  /\ mutex' = "free"
  /\ UNCHANGED <<started, stop_event, thread_count, pc, acceptVars, socket>>

WakeUp ==   \* notified, and the mutex re-acquired
  /\ owner = "notified" /\ mutex = "free"
  /\ owner' = "checking" /\ mutex' = "owner"
  /\ UNCHANGED <<started, stop_event, thread_count, pc, acceptVars, socket>>

SpuriousWakeUp ==   \* condition variables may wake without a notification
  /\ owner = "waiting"
  /\ owner' = "notified"
  /\ UNCHANGED <<mutex, started, stop_event, thread_count, pc, acceptVars, socket>>

\* condition.notify_all()
NoNotify == owner                                                 \* mutant
NoRecheck == IF owner = "waiting" THEN "gone" ELSE owner          \* mutant: if for while
NotifyAll == IF owner = "waiting" THEN "notified" ELSE owner

EndThread(t) ==   \* end_thread()
  /\ pc[t] = "ending" /\ mutex = "free"
  /\ thread_count' = thread_count - 1
  /\ owner' = NotifyAll
  /\ Goto(t, "ended")
  /\ UNCHANGED <<mutex, started, stop_event, acceptVars, socket>>

-----------------------------------------------------------------------------
(* Winsock's FD_ACCEPT: "armed" (nothing recorded), "recorded" (the event is  *)
(* signalled), "posted" (enumerated; nothing is recorded again before the     *)
(* next WSAAccept).                                                           *)

FdAccept(queued) == IF queued # {} THEN "recorded" ELSE "armed"

Connect(c) ==
  /\ listener = "listening"
  /\ socket[c] = "unused"
  /\ socket' = [socket EXCEPT ![c] = "backlog"]
  /\ accept_event' = IF accept_event = "armed" THEN "recorded" ELSE accept_event
  /\ UNCHANGED <<mutex, ownerVars, thread_count, pc, accepting, listener>>

Abandon(c) ==   \* the client gives up before it is accepted
  /\ socket[c] = "backlog"
  /\ socket' = [socket EXCEPT ![c] = "closed"]
  /\ UNCHANGED <<mutex, ownerVars, thread_count, pc, acceptVars>>

-----------------------------------------------------------------------------
(* accept_handler.                                                            *)

AcceptorMoves(from, to) ==
  /\ pc[Acceptor] = from
  /\ Goto(Acceptor, to)
  /\ UNCHANGED <<mutex, ownerVars, thread_count>>

CreateListenSocket ==
  /\ AcceptorMoves("setup", "configure")
  /\ listener' = "open"
  /\ UNCHANGED <<accepting, accept_event, socket>>

Listen ==   \* socket_configure, bind, listen
  /\ AcceptorMoves("configure", "select")
  /\ listener' = "listening"
  /\ UNCHANGED <<accepting, accept_event, socket>>

SelectAccept ==   \* WSACreateEvent, WSAEventSelect
  /\ AcceptorMoves("select", "wait")
  /\ accept_event' = FdAccept(Backlog)
  /\ UNCHANGED <<accepting, listener, socket>>

\* WSAWaitForMultipleEvents reports the lowest signalled index of
\* events = {stop_event, accept_event}; a timeout only logs.
AcceptFirst ==   \* mutant: the events swapped
  IF accept_event = "recorded" THEN "enum" ELSE IF stop_event THEN "leaving" ELSE "wait"
FirstSignalled ==
  IF stop_event THEN "leaving" ELSE IF accept_event = "recorded" THEN "enum" ELSE "wait"

AcceptWait ==
  /\ FirstSignalled # "wait"
  /\ AcceptorMoves("wait", FirstSignalled)
  /\ UNCHANGED <<acceptVars, socket>>

EnumAccept ==
  /\ AcceptorMoves("enum", "accept")
  /\ accept_event' = "posted"
  /\ UNCHANGED <<accepting, listener, socket>>

AcceptConnection ==
  /\ AcceptorMoves("accept", "spawn")
  /\ \E c \in Backlog :
       /\ accepting' = c
       /\ socket' = [socket EXCEPT ![c] = "open"]
       /\ accept_event' = FdAccept(Backlog \ {c})
  /\ UNCHANGED listener

AcceptNothing ==   \* WSAAccept fails; the call re-enables FD_ACCEPT all the same
  /\ AcceptorMoves("accept", "wait")
  /\ accept_event' = FdAccept(Backlog)
  /\ UNCHANGED <<accepting, listener, socket>>

SpawnPeer ==   \* try_start_thread_lock up to thread_count++
  /\ pc[Acceptor] = "spawn" /\ mutex = "free"
  /\ thread_count' = Counted
  /\ mutex' = "acceptor"
  /\ Goto(Acceptor, "spawning")
  /\ UNCHANGED <<ownerVars, acceptVars, socket>>

SpawnSucceeds ==
  /\ pc[Acceptor] = "spawning"
  /\ pc' = [pc EXCEPT ![Acceptor] = "wait", ![accepting] = "configure"]
  /\ accepting' = NoConn
  /\ mutex' = "free"
  /\ UNCHANGED <<ownerVars, thread_count, listener, accept_event, socket>>

LeakPeer  == socket   \* mutant: closesocket(peer) missing
ClosePeer == [socket EXCEPT ![accepting] = "closed"]

SpawnFails ==   \* std::system_error, then closesocket(peer)
  /\ pc[Acceptor] = "spawning"
  /\ thread_count' = Uncounted
  /\ socket' = ClosePeer
  /\ accepting' = NoConn
  /\ mutex' = "free"
  /\ Goto(Acceptor, "wait")
  /\ UNCHANGED <<ownerVars, listener, accept_event>>

AcceptAborts ==   \* every early return after a failed call
  /\ \E from \in {"setup", "configure", "select", "wait", "enum"} :
       AcceptorMoves(from, "leaving")
  /\ UNCHANGED <<acceptVars, socket>>

\* Closing the listen socket resets the connections it has queued.
LeakListener  == socket   \* mutant: closesocket(handle) missing
CloseListener == [c \in Conns |-> IF c \in Backlog THEN "closed" ELSE socket[c]]

LeaveAccept ==   \* OnLeave of accept_handler, up to end_thread
  /\ AcceptorMoves("leaving", "ending")
  /\ listener' = IF listener = "none" THEN "none" ELSE "closed"
  /\ accept_event' = "none"
  /\ socket' = CloseListener
  /\ UNCHANGED accepting

-----------------------------------------------------------------------------
(* peer_handler of connection c.                                              *)

PeerMoves(c, from, to) ==
  /\ pc[c] = from
  /\ Goto(c, to)
  /\ UNCHANGED <<mutex, ownerVars, thread_count, acceptVars, socket>>

PeerConfigures(c) == PeerMoves(c, "configure", "recv")

PeerReceives(c) == PeerMoves(c, "recv", "send")   \* a whole request; its handler answers
PeerSends(c)    == PeerMoves(c, "send", "recv")

PeerBlocks(c) == PeerMoves(c, "recv", "recv_wait") \/ PeerMoves(c, "send", "send_wait")

\* recv or send fails with an error other than WSAEWOULDBLOCK: peer_read and
\* peer_write call it again at once, without looking at the stop event.
PeerSocketFails(c) == PeerMoves(c, "recv", "spin") \/ PeerMoves(c, "send", "spin")

PeerSeesStop(c) ==   \* network_wait: index 0 is the stop event
  /\ stop_event
  /\ PeerMoves(c, "recv_wait", "leaving") \/ PeerMoves(c, "send_wait", "leaving")

PeerWakes(c) ==   \* network_wait: FD_READ or FD_WRITE
  /\ ~stop_event
  /\ PeerMoves(c, "recv_wait", "recv") \/ PeerMoves(c, "send_wait", "send")

\* socket_configure failed, recv returned 0, the length was too high, or
\* network_wait failed or met FD_CLOSE.
PeerAborts(c) ==
  \E from \in {"configure", "recv", "recv_wait", "send_wait"} : PeerMoves(c, from, "leaving")

LeavePeer(c) ==   \* OnLeave of peer_handler, up to end_thread
  /\ pc[c] = "leaving"
  /\ socket' = [socket EXCEPT ![c] = "closed"]
  /\ Goto(c, "ending")
  /\ UNCHANGED <<mutex, ownerVars, thread_count, acceptVars>>

-----------------------------------------------------------------------------

OwnerStep == StartSucceeds \/ StartFails \/ CheckThreads \/ WakeUp

AcceptorStep ==
  \/ CreateListenSocket \/ Listen \/ SelectAccept
  \/ AcceptWait \/ EnumAccept \/ AcceptConnection \/ AcceptNothing
  \/ SpawnPeer \/ SpawnSucceeds \/ SpawnFails
  \/ LeaveAccept \/ EndThread(Acceptor)

PeerStep(c) ==
  \/ PeerConfigures(c) \/ PeerReceives(c) \/ PeerSends(c) \/ PeerBlocks(c)
  \/ PeerSocketFails(c) \/ PeerSeesStop(c)
  \/ LeavePeer(c) \/ EndThread(c)

\* What the owner, the clients and the system may do but need not.
Environment ==
  \/ Start \/ Destroy \/ SpuriousWakeUp \/ AcceptAborts
  \/ \E c \in Conns : Connect(c) \/ Abandon(c) \/ PeerWakes(c) \/ PeerAborts(c)

Terminated == owner = "gone" /\ UNCHANGED vars

Next ==
  \/ OwnerStep
  \/ AcceptorStep
  \/ \E c \in Conns : PeerStep(c)
  \/ Environment
  \/ Terminated

\* Every thread is scheduled, and one that asks for the mutex gets it in the end,
\* however often the destructor wakes up in between.  WSAAccept does not fail for
\* ever while clients are queued, and no client keeps its peer thread's receive
\* buffer filled for ever: only a receive that would block looks at the stop event.
Fairness ==
  /\ WF_vars(OwnerStep)
  /\ WF_vars(AcceptorStep)
  /\ SF_vars(AcceptConnection) /\ SF_vars(SpawnPeer)
  /\ \A t \in Threads : SF_vars(EndThread(t))
  /\ \A c \in Conns : WF_vars(PeerStep(c)) /\ SF_vars(PeerBlocks(c))

Spec == Init /\ [][Next]_vars /\ Fairness

-----------------------------------------------------------------------------
(* Properties.                                                                *)

\* Every variable keeps the values the code can give it.
TypeOK ==
  /\ mutex \in {"free", "owner", "acceptor"}
  /\ owner \in OwnerStates
  /\ started \in BOOLEAN
  /\ thread_count \in Nat
  /\ stop_event \in BOOLEAN
  /\ pc \in [Threads -> AcceptorStates \cup PeerStates]
  /\ pc[Acceptor] \in AcceptorStates
  /\ \A c \in Conns : pc[c] \in PeerStates
  /\ accepting \in Conns \cup {NoConn}
  /\ listener \in {"none", "open", "listening", "closed"}
  /\ accept_event \in {"none", "armed", "recorded", "posted"}
  /\ socket \in [Conns -> {"unused", "backlog", "open", "closed"}]

\* A thread that is being started is counted before it exists.
Starting == IF owner = "starting" \/ pc[Acceptor] = "spawning" THEN 1 ELSE 0

\* thread_count, which the destructor trusts, is exactly the number of threads
\* that may still touch the object plus the one being started: no early return
\* of a thread, failed start or shutdown loses or double-counts one.
CountIsExact == thread_count = Cardinality(Live) + Starting

\* When the destructor has returned, no thread that was given `this` is running
\* or can come to run, so none touches freed memory.
NoThreadOutlivesServer == owner = "gone" => Live = {} /\ Starting = 0

\* A connection's socket is open exactly while someone is bound to close it: the
\* accept thread that has just accepted it, or its peer thread until its OnLeave.
SocketHasOneOwner ==
  \A c \in Conns :
    /\ socket[c] = "open" <=> (accepting = c \/ pc[c] \notin {"none", "ending", "ended"})
    /\ accepting = c => pc[c] = "none"

Busy == {"enum", "accept", "spawn", "spawning"}

\* Once the stop event is set, the accept thread finishes the connection it is
\* busy with, if any, and never turns to another, however many are queued.
NoAcceptAfterStop ==
  [][stop_event /\ pc[Acceptor] \notin Busy => pc'[Acceptor] \notin Busy]_vars

\* The destructor returns, unless the socket of some connection has failed with
\* an error that its peer thread retries for ever.
DestructorReturns ==
  stop_event ~> (owner = "gone" \/ \E c \in Conns : pc[c] = "spin")

\* No queued connection is forgotten: it is accepted, or refused because the
\* accept thread has ended or its client has left.
BacklogDrains == \A c \in Conns : socket[c] = "backlog" ~> socket[c] # "backlog"

\* The threads, the counter and the mutex together keep the promise of
\* ServerLifetime: the object is released only with no thread alive, and none is
\* started once the last one has ended under a closing server.
Lifetime == INSTANCE ServerLifetime WITH
  phase <- IF owner = "gone" THEN "gone" ELSE IF stop_event THEN "closing" ELSE "open",
  live  <- Live

ImplementsLifetime == Lifetime!Spec
=============================================================================
