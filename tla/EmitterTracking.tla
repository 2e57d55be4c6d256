--------------------------- MODULE EmitterTracking ---------------------------
(* The two tables of emitters.cpp and the lock around them.  Game threads     *)
(* enter the four hooks, each called by a wrapper that then jumps to the      *)
(* engine's own function; peer threads run the handlers of messages 5 (list)  *)
(* and 7 (details).  Objects are addresses, which the engine uses again.      *)
EXTENDS FiniteSets

CONSTANTS
  Games, Peers,        \* the engine's threads and the server's peer threads
  Emitters, Renders,   \* addresses of WParticleEmitter and WRenderParticleEmitter
  Files,               \* file indexes
  Nobody, None,        \* no holder of the lock; no file, object or answer
  Absent, Data, Failed \* what a details request is answered

ASSUME NamesDistinct ==
  /\ Nobody \notin Games \cup Peers /\ Games \cap Peers = {}
  /\ None \notin Emitters \cup Renders \cup Files
  /\ None \notin {Absent, Data, Failed}
  /\ \A listing \in SUBSET (Renders \X Files) : None # listing
  /\ {"nothing", "list", "malformed"} \cap Renders = {}

VARIABLES
  emitter_lock,
  tracked_emitters, tracked_render_emitters,   \* functions with a growing domain
  emitter, render,     \* engine: what lives at each address
  file_of, source,     \* engine: the file each emitter was last parsed from with
                       \* both objects still there, and that of the emitter each
                       \* render emitter was set up from
  pc,                  \* program point of every thread
  call,                \* the hook a game thread is in, and its arguments
  request, answer      \* of each peer: what is asked, and the response so far

tables == <<tracked_emitters, tracked_render_emitters>>
engine == <<emitter, render, file_of, source>>
peerVars == <<request, answer>>
vars == <<emitter_lock, tables, engine, pc, call, peerVars>>

Threads == Games \cup Peers
NoCall  == [hook |-> "none", e |-> None, r |-> None, f |-> None]

Init ==
  /\ emitter_lock = Nobody
  /\ tracked_emitters = <<>> /\ tracked_render_emitters = <<>>
  /\ emitter = [e \in Emitters |-> "free"] /\ file_of = [e \in Emitters |-> None]
  /\ render = [r \in Renders |-> "free"] /\ source = [r \in Renders |-> None]
  /\ pc = [t \in Threads |-> "idle"]
  /\ call = [g \in Games |-> NoCall]
  /\ request = [p \in Peers |-> "nothing"] /\ answer = [p \in Peers |-> None]

Goto(t, state) == pc' = [pc EXCEPT ![t] = state]

Insert(map, key, value) == [k \in DOMAIN map \cup {key} |-> IF k = key THEN value ELSE map[k]]
Erase(map, key)         == [k \in DOMAIN map \ {key} |-> map[k]]

\* std::lock_guard<std::mutex> guard(emitter_lock)
Unguarded == TRUE                     \* mutant: the guard is missing
CanLock   == emitter_lock = Nobody

-----------------------------------------------------------------------------
(* The engine.  It does not use an object from two threads at once, parses    *)
(* and destroys what exists, and sets a render emitter up once.               *)

InUse(x) == \E g \in Games : x \in {call[g].e, call[g].r}

Construct(e) ==   \* a particle emitter, or something else, at a free address
  /\ emitter[e] = "free" /\ ~InUse(e)
  /\ \E kind \in {"emitter", "other"} : emitter' = [emitter EXCEPT ![e] = kind]
  /\ UNCHANGED <<emitter_lock, tables, render, file_of, source, pc, call, peerVars>>

Collect(e) ==
  /\ emitter[e] = "other" /\ ~InUse(e)
  /\ emitter' = [emitter EXCEPT ![e] = "free"]
  /\ UNCHANGED <<emitter_lock, tables, render, file_of, source, pc, call, peerVars>>

Calls(g, hook, e, r, f) ==
  /\ pc[g] = "idle"
  /\ ~InUse(e) \/ e = None
  /\ ~InUse(r) \/ r = None
  /\ call' = [call EXCEPT ![g] = [hook |-> hook, e |-> e, r |-> r, f |-> f]]
  /\ UNCHANGED <<emitter_lock, tables, peerVars>>

\* hook_emitter_parse_data compares both vtables: where the emitter or the loader
\* has been collected meanwhile, the parse is left to the engine's function and
\* not tracked, and what is tracked of an earlier parse at the address stays.
CallParse(g, e, f) ==
  /\ emitter[e] # "free"
  /\ Calls(g, "parse", e, None, f)
  /\ \/ /\ emitter[e] = "emitter"
        /\ Goto(g, "locking")
        /\ file_of' = [file_of EXCEPT ![e] = f]
     \/ Goto(g, "original") /\ UNCHANGED file_of
  /\ UNCHANGED <<emitter, render, source>>

CallDestruct(g, e) ==
  /\ emitter[e] = "emitter"
  /\ Calls(g, "destruct", e, None, None)
  /\ Goto(g, "locking")
  /\ UNCHANGED engine

CallRegister(g, r, e) ==
  /\ emitter[e] = "emitter" /\ render[r] = "free"
  /\ Calls(g, "register", e, r, None)
  /\ Goto(g, "locking")
  /\ render' = [render EXCEPT ![r] = "live"]
  /\ source' = [source EXCEPT ![r] = file_of[e]]
  /\ UNCHANGED <<emitter, file_of>>

CallDestructRender(g, r) ==
  /\ render[r] = "live"
  /\ Calls(g, "destruct_render", None, r, None)
  /\ Goto(g, "locking")
  /\ UNCHANGED engine

Original(g) ==   \* the wrapper jumps to the engine's function, which returns
  /\ pc[g] = "original"
  /\ LET c == call[g]
     IN  /\ emitter' = IF c.hook = "destruct" THEN [emitter EXCEPT ![c.e] = "free"] ELSE emitter
         /\ file_of' = IF c.hook = "destruct" THEN [file_of EXCEPT ![c.e] = None] ELSE file_of
         /\ render' = IF c.hook = "destruct_render" THEN [render EXCEPT ![c.r] = "free"] ELSE render
  /\ call' = [call EXCEPT ![g] = NoCall]
  /\ Goto(g, "idle")
  /\ UNCHANGED <<emitter_lock, tables, source, peerVars>>

-----------------------------------------------------------------------------
(* The bodies of the hooks, each one guarded block.                           *)

Hook(g, hook) ==
  /\ pc[g] = "locking" /\ CanLock
  /\ call[g].hook = hook
  /\ Goto(g, "original")
  /\ UNCHANGED <<emitter_lock, engine, call, peerVars>>

HookParse(g) ==
  /\ Hook(g, "parse")
  /\ tracked_emitters' = Insert(tracked_emitters, call[g].e, call[g].f)
  /\ UNCHANGED tracked_render_emitters

Kept(e)   == tracked_emitters   \* mutant: the emitter is not forgotten
Erased(e) == Erase(tracked_emitters, e)

HookDestruct(g) ==
  /\ Hook(g, "destruct")
  /\ tracked_emitters' = Erased(call[g].e)
  /\ UNCHANGED tracked_render_emitters

Indexed(r, e) ==   \* mutant: tracked_emitters[emitter] without looking it up
  Insert(tracked_render_emitters, r, IF e \in DOMAIN tracked_emitters THEN tracked_emitters[e] ELSE None)
Setup(r, e) ==
  IF e \in DOMAIN tracked_emitters
  THEN Insert(tracked_render_emitters, r, tracked_emitters[e])
  ELSE tracked_render_emitters

HookRegister(g) ==
  /\ Hook(g, "register")
  /\ tracked_render_emitters' = Setup(call[g].r, call[g].e)
  /\ UNCHANGED tracked_emitters

HookDestructRender(g) ==
  /\ Hook(g, "destruct_render")
  /\ tracked_render_emitters' = Erase(tracked_render_emitters, call[g].r)
  /\ UNCHANGED tracked_emitters

-----------------------------------------------------------------------------
(* The handlers.                                                              *)

Peer(p, from, to) ==
  /\ pc[p] = from
  /\ Goto(p, to)
  /\ UNCHANGED <<tables, engine, call>>

Ask(p, what) ==   \* a name is an address some earlier listing may have named
  /\ Peer(p, "idle", IF what = "list" THEN "listing_lock"
                     ELSE IF what = "malformed" THEN "malformed" ELSE "details_lock")
  /\ request' = [request EXCEPT ![p] = what]
  /\ UNCHANGED <<emitter_lock, answer>>

Malformed(p) ==   \* the message is shorter or longer than its name
  /\ Peer(p, "malformed", "sending")
  /\ answer' = [answer EXCEPT ![p] = Failed]
  /\ UNCHANGED <<emitter_lock, request>>

Begin(p) ==
  /\ Peer(p, "listing_lock", "listing") \/ Peer(p, "details_lock", "details")
  /\ CanLock
  /\ emitter_lock' = p
  /\ answer' = [answer EXCEPT ![p] = {}]
  /\ UNCHANGED request

ListEntry(p) ==   \* one iteration over tracked_render_emitters
  /\ Peer(p, "listing", "listing")
  /\ \E r \in DOMAIN tracked_render_emitters :
       /\ \A entry \in answer[p] : entry[1] # r
       /\ answer' = [answer EXCEPT ![p] = @ \cup {<<r, tracked_render_emitters[r]>>}]
  /\ UNCHANGED <<emitter_lock, request>>

\* The response is sent after the guarded block.
SendInside == emitter_lock   \* mutant: sender is called under the lock
Unlock     == Nobody

ListDone(p) ==
  /\ Peer(p, "listing", "sending")
  /\ {entry[1] : entry \in answer[p]} = DOMAIN tracked_render_emitters
  /\ emitter_lock' = Unlock
  /\ UNCHANGED peerVars

Missing(p) ==
  /\ Peer(p, "details", "sending")
  /\ request[p] \notin DOMAIN tracked_render_emitters
  /\ emitter_lock' = Unlock
  /\ answer' = [answer EXCEPT ![p] = Absent]
  /\ UNCHANGED request

Found(p) ==   \* encode_emitter_data begins to read the object
  /\ Peer(p, "details", "encoding")
  /\ request[p] \in DOMAIN tracked_render_emitters
  /\ UNCHANGED <<emitter_lock, peerVars>>

Encoded(p) ==
  /\ Peer(p, "encoding", "sending")
  /\ emitter_lock' = Unlock
  /\ answer' = [answer EXCEPT ![p] = Data]
  /\ UNCHANGED request

EncodeThrows(p) ==   \* a buffer of 64 items: sender(2) is called inside the block
  /\ Peer(p, "encoding", "sending_locked")
  /\ answer' = [answer EXCEPT ![p] = Failed]
  /\ UNCHANGED <<emitter_lock, request>>

Sent(p) ==   \* sender returns: the client has read the answer or gone
  /\ Peer(p, "sending", "idle") \/ Peer(p, "sending_locked", "idle")
  /\ emitter_lock' = IF pc[p] = "sending_locked" THEN Nobody ELSE emitter_lock
  /\ request' = [request EXCEPT ![p] = "nothing"]
  /\ answer' = [answer EXCEPT ![p] = None]

-----------------------------------------------------------------------------

Engine ==
  \/ \E e \in Emitters : Construct(e) \/ Collect(e)
  \/ \E g \in Games : 
       \/ \E e \in Emitters :
            \/ CallDestruct(g, e)
            \/ \E f \in Files : CallParse(g, e, f)
            \/ \E r \in Renders : CallRegister(g, r, e)
       \/ \E r \in Renders : CallDestructRender(g, r)

GameStep(g) ==
  HookParse(g) \/ HookDestruct(g) \/ HookRegister(g) \/ HookDestructRender(g) \/ Original(g)

PeerStep(p) ==
  \/ Malformed(p) \/ Begin(p) \/ ListEntry(p) \/ ListDone(p)
  \/ Missing(p) \/ Found(p) \/ Encoded(p) \/ EncodeThrows(p)

Next ==
  \/ Engine
  \/ \E g \in Games : GameStep(g)
  \/ \E p \in Peers : PeerStep(p) \/ Sent(p)
  \/ \E p \in Peers : \E what \in Renders \cup {"list", "malformed"} : Ask(p, what)

\* Threads are scheduled and a mutex that is free again and again is obtained;
\* nothing makes a client read its answer.
Spec ==
  /\ Init /\ [][Next]_vars
  /\ \A g \in Games : SF_vars(GameStep(g))
  /\ \A p \in Peers : SF_vars(PeerStep(p))

-----------------------------------------------------------------------------
(* Properties.                                                                *)

PcValues == {"idle", "locking", "original", "listing_lock", "listing", "details_lock",
             "details", "malformed", "encoding", "sending", "sending_locked"}

\* Every variable keeps the values the code can give it.
TypeOK ==
  /\ emitter_lock \in Peers \cup {Nobody}
  /\ DOMAIN tracked_emitters \subseteq Emitters
  /\ \A e \in DOMAIN tracked_emitters : tracked_emitters[e] \in Files
  /\ DOMAIN tracked_render_emitters \subseteq Renders
  /\ \A r \in DOMAIN tracked_render_emitters : tracked_render_emitters[r] \in Files
  /\ emitter \in [Emitters -> {"free", "emitter", "other"}]
  /\ render \in [Renders -> {"free", "live"}]
  /\ file_of \in [Emitters -> Files \cup {None}] /\ source \in [Renders -> Files \cup {None}]
  /\ pc \in [Threads -> PcValues]
  /\ request \in [Peers -> Renders \cup {"nothing", "list", "malformed"}]
  /\ \A p \in Peers : answer[p] \in {None, Absent, Data, Failed}
                        \/ answer[p] \subseteq Renders \X Files

\* What a details request reads while it encodes is an object that exists: the
\* engine cannot get past the destructor's hook before the answer is built, even
\* if the address came from a listing that is long out of date.
NoUseAfterFree == \A p \in Peers : pc[p] = "encoding" => render[request[p]] = "live"

\* A render emitter is reported under the file its own emitter was parsed from,
\* the last time that the hook could look at both emitter and loader, although
\* emitters die first and their addresses are used again.
FileIsRight ==
  \A r \in DOMAIN tracked_render_emitters : tracked_render_emitters[r] = source[r]

\* The game is never stopped in a hook for ever, unless a client does not read
\* the answer to a request for an emitter that could not be encoded.
HooksReturn ==
  \A g \in Games :
    pc[g] = "locking" ~> (pc[g] # "locking" \/ \E p \in Peers : pc[p] = "sending_locked")

\* Every answer is the table, or an entry of it, at one moment of the request.
Registry == INSTANCE EmitterRegistry WITH
  NoAnswer <- None,
  table  <- tracked_render_emitters,
  asked  <- request,
  answer <- [p \in Peers |->
               IF pc[p] \in {"sending", "sending_locked"} THEN answer[p] ELSE None]

ImplementsRegistry == Registry!Spec
=============================================================================
