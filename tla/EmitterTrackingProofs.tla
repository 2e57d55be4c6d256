------------------------ MODULE EmitterTrackingProofs ------------------------
(* The safety of EmitterTracking.tla, and its refinement of EmitterRegistry,  *)
(* for any threads, addresses and files.  The invariant says what a thread in *)
(* a hook may count on, that no two threads have one object, that the tables  *)
(* name living objects, and which program points of a handler hold the lock.  *)
EXTENDS EmitterTracking, TLAPS

Holding == {"listing", "details", "encoding", "sending_locked"}

\* What a game thread in a hook may count on.
InHook(g) ==
  LET c == call[g]
  IN  /\ pc[g] \in {"idle", "locking", "original"}
      /\ c.hook \in {"none", "parse", "destruct", "register", "destruct_render"}
      /\ pc[g] = "idle" <=> c.hook = "none"
      /\ c.hook \in {"none", "destruct_render"} => c.e = None
      /\ c.hook \in {"parse", "destruct", "register"} => c.e \in Emitters
      /\ c.hook \in {"none", "parse", "destruct"} => c.r = None
      /\ c.hook \in {"register", "destruct_render"} => c.r \in Renders /\ render[c.r] = "live"
      /\ c.hook \in {"destruct", "register"} => emitter[c.e] = "emitter"
      /\ c.hook = "parse" /\ pc[g] = "locking" =>
           emitter[c.e] = "emitter" /\ c.f \in Files /\ file_of[c.e] = c.f
      /\ c.hook = "register" /\ pc[g] = "locking" => source[c.r] = file_of[c.e]
      /\ c.hook = "destruct" /\ pc[g] = "original" => c.e \notin DOMAIN tracked_emitters
      /\ c.hook = "destruct_render" /\ pc[g] = "original" =>
           c.r \notin DOMAIN tracked_render_emitters

\* No object is in two hooks at once.
Exclusive ==
  \A g, h \in Games : g # h =>
    /\ call[g].e \in Emitters => call[g].e # call[h].e
    /\ call[g].r \in Renders => call[g].r # call[h].r

Parsing(e) == \E g \in Games : pc[g] = "locking" /\ call[g].hook = "parse" /\ call[g].e = e

\* What is in a table lives, and under the right file, unless a parse hook still
\* waits for the lock to enter the new one.
TablesRight ==
  /\ \A e \in DOMAIN tracked_emitters :
       emitter[e] = "emitter" /\ (tracked_emitters[e] = file_of[e] \/ Parsing(e))
  /\ \A r \in DOMAIN tracked_render_emitters :
       render[r] = "live" /\ tracked_render_emitters[r] = source[r]

\* The lock goes with the program point, and a listing under way is part of the
\* table, which cannot change meanwhile.
InHandler(p) ==
  /\ pc[p] \in PcValues \ {"locking", "original"}
  /\ emitter_lock = p <=> pc[p] \in Holding
  /\ pc[p] = "idle" <=> request[p] = "nothing"
  /\ pc[p] \in {"listing_lock", "listing"} => request[p] = "list"
  /\ pc[p] = "malformed" => request[p] = "malformed"
  /\ pc[p] \in {"details_lock", "details", "encoding"} => request[p] \in Renders
  /\ pc[p] = "encoding" => request[p] \in DOMAIN tracked_render_emitters
  /\ pc[p] = "listing" => answer[p] \subseteq Registry!Entries(tracked_render_emitters)
  /\ pc[p] \in {"sending", "sending_locked"} => answer[p] # None

Inv ==
  /\ TypeOK
  /\ DOMAIN call = Games /\ DOMAIN answer = Peers
  /\ \A g \in Games : InHook(g)
  /\ Exclusive
  /\ TablesRight
  /\ \A p \in Peers : InHandler(p)

-----------------------------------------------------------------------------
(* The invariant holds at first and each action keeps it.                     *)

\* At first no table has an entry and no thread is anywhere.
LEMMA Starts == Init => Inv
  <1>. SUFFICES ASSUME Init PROVE Inv
    OBVIOUS
  <1>1. DOMAIN tracked_emitters = {} /\ DOMAIN tracked_render_emitters = {}
    BY DEF Init
  <1>2. TypeOK
    BY <1>1 DEF Init, TypeOK, PcValues
  <1>3. ASSUME NEW g \in Games PROVE InHook(g)
    BY DEF Init, InHook, NoCall, Threads
  <1>4. Exclusive
    BY NamesDistinct DEF Init, Exclusive, NoCall
  <1>5. TablesRight
    BY <1>1 DEF TablesRight
  <1>6. ASSUME NEW p \in Peers PROVE InHandler(p)
    BY NamesDistinct DEF Init, InHandler, Threads, PcValues, Holding
  <1>. QED
    BY <1>2, <1>3, <1>4, <1>5, <1>6 DEF Inv, Init

\* A step of the engine outside the hooks touches an object in no hook and in
\* no table.
LEMMA ObjectsKeep ==
  ASSUME Inv, NEW e \in Emitters, Construct(e) \/ Collect(e)
  PROVE  Inv'
  <1>1. /\ emitter[e] # "emitter" /\ emitter' \in [Emitters -> {"free", "emitter", "other"}]
        /\ \A x \in Emitters \ {e} : emitter'[x] = emitter[x]
        /\ \A g \in Games : call[g].e # e
        /\ UNCHANGED <<emitter_lock, tables, render, file_of, source, pc, call, peerVars>>
    BY DEF Inv, TypeOK, Construct, Collect, InUse
  <1>2. TypeOK'
    BY <1>1 DEF Inv, TypeOK, tables, peerVars
  <1>3. ASSUME NEW g \in Games PROVE InHook(g)'
    BY <1>1 DEF Inv, InHook, tables
  <1>4. Exclusive'
    BY <1>1 DEF Inv, Exclusive
  <1>5. TablesRight'
    BY <1>1 DEF Inv, TypeOK, TablesRight, Parsing, tables
  <1>6. ASSUME NEW p \in Peers PROVE InHandler(p)'
    BY <1>1 DEF Inv, InHandler, tables, peerVars, Registry!Entries
  <1>. QED
    BY <1>1, <1>2, <1>3, <1>4, <1>5, <1>6 DEF Inv, peerVars
\* What all calls of hooks have in common: the thread moves to the hook with
\* objects that no other thread has, and no handler notices.
LEMMA Entering ==
  ASSUME Inv, NEW g \in Games, NEW hook, NEW e, NEW r, NEW f, NEW state,
         Calls(g, hook, e, r, f), Goto(g, state)
  PROVE  /\ call'[g] = [hook |-> hook, e |-> e, r |-> r, f |-> f]
         /\ pc'[g] = state /\ pc[g] = "idle" /\ DOMAIN call' = Games
         /\ \A h \in Games \ {g} : call'[h] = call[h]
         /\ \A t \in Threads \ {g} : pc'[t] = pc[t]
         /\ \A h \in Games : /\ e # None => call[h].e # e
                             /\ r # None => call[h].r # r
         /\ UNCHANGED <<emitter_lock, tables, peerVars>>
         /\ Exclusive'
         /\ \A p \in Peers : InHandler(p)'
  <1>1. /\ call'[g] = [hook |-> hook, e |-> e, r |-> r, f |-> f]
        /\ pc'[g] = state /\ pc[g] = "idle" /\ DOMAIN call' = Games
        /\ \A h \in Games \ {g} : call'[h] = call[h]
        /\ \A t \in Threads \ {g} : pc'[t] = pc[t]
        /\ \A h \in Games : /\ e # None => call[h].e # e
                            /\ r # None => call[h].r # r
        /\ UNCHANGED <<emitter_lock, tables, peerVars>>
    BY DEF Inv, TypeOK, Calls, Goto, InUse, Threads
  <1>2. Exclusive'
    BY <1>1, NamesDistinct DEF Inv, Exclusive
  <1>3. ASSUME NEW p \in Peers PROVE InHandler(p)'
    <2>1. pc'[p] = pc[p]
      BY <1>1, NamesDistinct DEF Threads
    <2>. QED
      BY <1>1, <2>1 DEF Inv, InHandler, tables, peerVars, Registry!Entries
  <1>. QED
    BY <1>1, <1>2, <1>3

\* The parse hook: the emitter's new file is in the thread's hands until the
\* hook has put it into the table.
LEMMA CallParseKeeps ==
  ASSUME Inv, NEW g \in Games, NEW e \in Emitters, NEW f \in Files, CallParse(g, e, f)
  PROVE  Inv'
  <1>1. PICK state \in {"locking", "original"} :
          /\ Goto(g, state) /\ Calls(g, "parse", e, None, f)
          /\ UNCHANGED <<emitter, render, source>>
          /\ file_of' \in [Emitters -> Files \cup {None}]
          /\ \A x \in Emitters \ {e} : file_of'[x] = file_of[x]
          /\ state = "locking" => emitter[e] = "emitter" /\ file_of'[e] = f
          /\ state = "original" => file_of' = file_of
    BY DEF CallParse, Inv, TypeOK
  <1>2. /\ call'[g] = [hook |-> "parse", e |-> e, r |-> None, f |-> f]
        /\ pc'[g] = state /\ pc[g] = "idle" /\ DOMAIN call' = Games
        /\ \A h \in Games \ {g} : call'[h] = call[h] /\ call[h].e # e
        /\ \A t \in Threads \ {g} : pc'[t] = pc[t]
        /\ UNCHANGED <<emitter_lock, tables, peerVars>>
        /\ Exclusive'
        /\ \A p \in Peers : InHandler(p)'
    BY <1>1, Entering, NamesDistinct
  <1>3. TypeOK'
    BY <1>1, <1>2 DEF Inv, TypeOK, tables, peerVars, Goto, PcValues
  <1>4. ASSUME NEW h \in Games PROVE InHook(h)'
    <2>1. CASE h = g
      BY <1>1, <1>2, <2>1 DEF InHook
    <2>2. CASE h # g
      BY <1>1, <1>2, <2>2 DEF Inv, InHook, tables, Threads
    <2>. QED
      BY <2>1, <2>2
  <1>5. TablesRight'
    <2>1. ASSUME NEW x \in Emitters \ {e}, Parsing(x) PROVE Parsing(x)'
      BY <1>2, <2>1 DEF Parsing, Threads
    <2>2. state = "locking" => Parsing(e)'
      BY <1>2 DEF Parsing
    <2>3. state = "original" => (Parsing(e) => Parsing(e)')
      BY <1>2 DEF Parsing, Threads
    <2>4. \A x \in DOMAIN tracked_emitters' :
            emitter'[x] = "emitter" /\ (tracked_emitters'[x] = file_of'[x] \/ Parsing(x)')
      BY <1>1, <1>2, <2>1, <2>2, <2>3 DEF Inv, TypeOK, TablesRight, tables
    <2>. QED
      BY <1>1, <1>2, <2>4 DEF Inv, TypeOK, TablesRight, tables
  <1>. QED
    BY <1>2, <1>3, <1>4, <1>5 DEF Inv, peerVars

\* The destructors' hooks: nothing has happened to the object yet.
LEMMA CallDestructKeeps ==
  ASSUME Inv, NEW g \in Games,
         NEW hook, NEW e, NEW r,
         \/ e \in Emitters /\ r = None /\ hook = "destruct" /\ CallDestruct(g, e)
         \/ e = None /\ r \in Renders /\ hook = "destruct_render" /\ CallDestructRender(g, r)
  PROVE  Inv'
  <1>1. /\ Goto(g, "locking") /\ Calls(g, hook, e, r, None)
        /\ UNCHANGED engine
        /\ hook = "destruct" => emitter[e] = "emitter"
        /\ hook = "destruct_render" => render[r] = "live"
    BY DEF CallDestruct, CallDestructRender
  <1>2. /\ call'[g] = [hook |-> hook, e |-> e, r |-> r, f |-> None]
        /\ pc'[g] = "locking" /\ pc[g] = "idle" /\ DOMAIN call' = Games
        /\ \A h \in Games \ {g} : call'[h] = call[h]
        /\ \A t \in Threads \ {g} : pc'[t] = pc[t]
        /\ UNCHANGED <<emitter_lock, tables, peerVars>>
        /\ Exclusive'
        /\ \A p \in Peers : InHandler(p)'
    BY <1>1, Entering
  <1>3. TypeOK'
    BY <1>1, <1>2 DEF Inv, TypeOK, tables, engine, peerVars, Goto, PcValues
  <1>4. ASSUME NEW h \in Games PROVE InHook(h)'
    <2>1. CASE h = g
      BY <1>1, <1>2, <2>1 DEF InHook, engine
    <2>2. CASE h # g
      BY <1>1, <1>2, <2>2 DEF Inv, InHook, tables, engine, Threads
    <2>. QED
      BY <2>1, <2>2
  <1>5. TablesRight'
    <2>1. ASSUME NEW x, Parsing(x) PROVE Parsing(x)'
      BY <1>2, <2>1 DEF Parsing, Threads
    <2>. QED
      BY <1>1, <1>2, <2>1 DEF Inv, TablesRight, tables, engine
  <1>. QED
    BY <1>2, <1>3, <1>4, <1>5 DEF Inv, peerVars

\* The set-up hook: the render emitter's address was free, so no table has it.
LEMMA CallRegisterKeeps ==
  ASSUME Inv, NEW g \in Games, NEW e \in Emitters, NEW r \in Renders, CallRegister(g, r, e)
  PROVE  Inv'
  <1>1. /\ Goto(g, "locking") /\ Calls(g, "register", e, r, None)
        /\ emitter[e] = "emitter" /\ render[r] = "free"
        /\ render' \in [Renders -> {"free", "live"}] /\ render'[r] = "live"
        /\ source' \in [Renders -> Files \cup {None}] /\ source'[r] = file_of[e]
        /\ \A x \in Renders \ {r} : render'[x] = render[x] /\ source'[x] = source[x]
        /\ UNCHANGED <<emitter, file_of>>
    BY DEF CallRegister, Inv, TypeOK
  <1>2. /\ call'[g] = [hook |-> "register", e |-> e, r |-> r, f |-> None]
        /\ pc'[g] = "locking" /\ pc[g] = "idle" /\ DOMAIN call' = Games
        /\ \A h \in Games \ {g} : call'[h] = call[h] /\ call[h].r # r
        /\ \A t \in Threads \ {g} : pc'[t] = pc[t]
        /\ UNCHANGED <<emitter_lock, tables, peerVars>>
        /\ Exclusive'
        /\ \A p \in Peers : InHandler(p)'
    BY <1>1, Entering, NamesDistinct
  <1>3. TypeOK'
    BY <1>1, <1>2 DEF Inv, TypeOK, tables, peerVars, Goto, PcValues
  <1>4. ASSUME NEW h \in Games PROVE InHook(h)'
    <2>1. CASE h = g
      BY <1>1, <1>2, <2>1 DEF InHook
    <2>2. CASE h # g
      BY <1>1, <1>2, <2>2 DEF Inv, InHook, tables, Threads
    <2>. QED
      BY <2>1, <2>2
  <1>5. TablesRight'
    <2>1. ASSUME NEW x, Parsing(x) PROVE Parsing(x)'
      BY <1>2, <2>1 DEF Parsing, Threads
    <2>2. r \notin DOMAIN tracked_render_emitters
      BY <1>1 DEF Inv, TablesRight
    <2>. QED
      BY <1>1, <1>2, <2>1, <2>2 DEF Inv, TypeOK, TablesRight, tables
  <1>. QED
    BY <1>2, <1>3, <1>4, <1>5 DEF Inv, peerVars

\* A hook's guarded block runs while no handler is in its own, and then only the
\* thread that ran it has moved.
LEMMA Guarded ==
  ASSUME Inv, NEW g \in Games, NEW hook, Hook(g, hook)
  PROVE  /\ pc[g] = "locking" /\ call[g].hook = hook /\ pc'[g] = "original"
         /\ \A t \in Threads \ {g} : pc'[t] = pc[t]
         /\ UNCHANGED <<emitter_lock, engine, call, peerVars>>
         /\ pc' \in [Threads -> PcValues]
         /\ Exclusive'
         /\ \A p \in Peers : InHandler(p)'
  <1>1. /\ pc[g] = "locking" /\ call[g].hook = hook /\ pc'[g] = "original"
        /\ \A t \in Threads \ {g} : pc'[t] = pc[t]
        /\ emitter_lock = Nobody
        /\ UNCHANGED <<emitter_lock, engine, call, peerVars>>
        /\ pc' \in [Threads -> PcValues]
    BY DEF Inv, TypeOK, Hook, Goto, CanLock, Threads, PcValues
  <1>2. ASSUME NEW p \in Peers PROVE InHandler(p)'
    <2>1. pc'[p] = pc[p] /\ emitter_lock # p
      BY <1>1, NamesDistinct DEF Threads
    <2>. QED
      BY <1>1, <2>1 DEF Inv, InHandler, Holding, peerVars
  <1>. QED
    BY <1>1, <1>2 DEF Inv, Exclusive

\* What was parsed is in the table; no other thread is parsing it.
LEMMA HookParseKeeps ==
  ASSUME Inv, NEW g \in Games, HookParse(g)
  PROVE  Inv'
  <1> DEFINE e == call[g].e
  <1>1. Hook(g, "parse")
    BY DEF HookParse
  <1>2. /\ DOMAIN tracked_emitters' = DOMAIN tracked_emitters \cup {e}
        /\ tracked_emitters'[e] = call[g].f
        /\ \A x \in DOMAIN tracked_emitters \ {e} : tracked_emitters'[x] = tracked_emitters[x]
        /\ UNCHANGED tracked_render_emitters
    BY DEF HookParse, Insert
  <1>3. e \in Emitters /\ emitter[e] = "emitter" /\ call[g].f \in Files /\ file_of[e] = call[g].f
    BY <1>1, Guarded DEF Inv, InHook
  <1>4. TypeOK'
    BY <1>1, <1>2, <1>3, Guarded DEF Inv, TypeOK, engine, peerVars
  <1>5. ASSUME NEW h \in Games PROVE InHook(h)'
    <2>1. CASE h = g
      BY <1>1, <1>2, <2>1, Guarded DEF Inv, InHook, engine
    <2>2. CASE h # g
      <3>1. call[h].hook \in {"destruct", "register"} => call[h].e # e
        BY <1>3, <2>2 DEF Inv, Exclusive
      <3>. QED
        BY <1>1, <1>2, <2>2, <3>1, Guarded DEF Inv, InHook, engine, Threads
    <2>. QED
      BY <2>1, <2>2
  <1>6. TablesRight'
    <2>1. ASSUME NEW x, x # e, Parsing(x) PROVE Parsing(x)'
      BY <1>1, <2>1, Guarded DEF Parsing, Threads
    <2>. QED
      BY <1>1, <1>2, <1>3, <2>1, Guarded DEF Inv, TablesRight, engine
  <1>. QED
    BY <1>1, <1>4, <1>5, <1>6, Guarded DEF Inv, peerVars

\* The destructor's hook takes the emitter out of the table.
LEMMA HookDestructKeeps ==
  ASSUME Inv, NEW g \in Games, HookDestruct(g)
  PROVE  Inv'
  <1> DEFINE e == call[g].e
  <1>1. Hook(g, "destruct")
    BY DEF HookDestruct
  <1>2. /\ DOMAIN tracked_emitters' = DOMAIN tracked_emitters \ {e}
        /\ \A x \in DOMAIN tracked_emitters' : tracked_emitters'[x] = tracked_emitters[x]
        /\ UNCHANGED tracked_render_emitters
    BY DEF HookDestruct, Erased, Erase
  <1>3. TypeOK'
    BY <1>1, <1>2, Guarded DEF Inv, TypeOK, engine, peerVars
  <1>4. ASSUME NEW h \in Games PROVE InHook(h)'
    <2>1. CASE h = g
      BY <1>1, <1>2, <2>1, Guarded DEF Inv, InHook, engine
    <2>2. CASE h # g
      BY <1>1, <1>2, <2>2, Guarded DEF Inv, InHook, engine, Threads
    <2>. QED
      BY <2>1, <2>2
  <1>5. TablesRight'
    <2>1. ASSUME NEW x, Parsing(x) PROVE Parsing(x)'
      BY <1>1, <2>1, Guarded DEF Parsing, Threads
    <2>. QED
      BY <1>1, <1>2, <2>1, Guarded DEF Inv, TablesRight, engine
  <1>. QED
    BY <1>1, <1>3, <1>4, <1>5, Guarded DEF Inv, peerVars

\* The set-up hook takes the file from the table, which is up to date since no
\* other thread has the emitter.
LEMMA HookRegisterKeeps ==
  ASSUME Inv, NEW g \in Games, HookRegister(g)
  PROVE  Inv'
  <1> DEFINE e == call[g].e
             r == call[g].r
  <1>1. Hook(g, "register")
    BY DEF HookRegister
  <1>2. e \in Emitters /\ r \in Renders /\ render[r] = "live" /\ source[r] = file_of[e]
    BY <1>1, Guarded DEF Inv, InHook
  <1>3. e \in DOMAIN tracked_emitters => tracked_emitters[e] = file_of[e]
    BY <1>1, <1>2, Guarded DEF Inv, Exclusive, TablesRight, Parsing
  <1>4. /\ DOMAIN tracked_render_emitters' \subseteq DOMAIN tracked_render_emitters \cup {r}
        /\ \A x \in DOMAIN tracked_render_emitters' :
             tracked_render_emitters'[x] =
               IF x = r /\ e \in DOMAIN tracked_emitters THEN tracked_emitters[e]
               ELSE tracked_render_emitters[x]
        /\ r \in DOMAIN tracked_render_emitters' =>
             r \in DOMAIN tracked_render_emitters \/ e \in DOMAIN tracked_emitters
        /\ UNCHANGED tracked_emitters
    BY DEF HookRegister, Setup, Insert
  <1>5. TypeOK'
    BY <1>1, <1>2, <1>4, Guarded DEF Inv, TypeOK, engine, peerVars
  <1>6. ASSUME NEW h \in Games PROVE InHook(h)'
    <2>1. CASE h = g
      BY <1>1, <1>4, <2>1, Guarded DEF Inv, InHook, engine
    <2>2. CASE h # g
      <3>1. call[h].r # r
        BY <1>2, <2>2 DEF Inv, Exclusive
      <3>. QED
        BY <1>1, <1>4, <2>2, <3>1, Guarded DEF Inv, InHook, engine, Threads
    <2>. QED
      BY <2>1, <2>2
  <1>7. TablesRight'
    <2>1. ASSUME NEW x, Parsing(x) PROVE Parsing(x)'
      BY <1>1, <2>1, Guarded DEF Parsing, Threads
    <2>. QED
      BY <1>1, <1>2, <1>3, <1>4, <2>1, Guarded DEF Inv, TablesRight, engine
  <1>. QED
    BY <1>1, <1>5, <1>6, <1>7, Guarded DEF Inv, peerVars

\* The render emitter's destructor takes it out of the table.
LEMMA HookDestructRenderKeeps ==
  ASSUME Inv, NEW g \in Games, HookDestructRender(g)
  PROVE  Inv'
  <1> DEFINE r == call[g].r
  <1>1. Hook(g, "destruct_render")
    BY DEF HookDestructRender
  <1>2. /\ DOMAIN tracked_render_emitters' = DOMAIN tracked_render_emitters \ {r}
        /\ \A x \in DOMAIN tracked_render_emitters' :
             tracked_render_emitters'[x] = tracked_render_emitters[x]
        /\ UNCHANGED tracked_emitters
    BY DEF HookDestructRender, Erase
  <1>3. TypeOK'
    BY <1>1, <1>2, Guarded DEF Inv, TypeOK, engine, peerVars
  <1>4. ASSUME NEW h \in Games PROVE InHook(h)'
    <2>1. CASE h = g
      BY <1>1, <1>2, <2>1, Guarded DEF Inv, InHook, engine
    <2>2. CASE h # g
      BY <1>1, <1>2, <2>2, Guarded DEF Inv, InHook, engine, Threads
    <2>. QED
      BY <2>1, <2>2
  <1>5. TablesRight'
    <2>1. ASSUME NEW x, Parsing(x) PROVE Parsing(x)'
      BY <1>1, <2>1, Guarded DEF Parsing, Threads
    <2>. QED
      BY <1>1, <1>2, <2>1, Guarded DEF Inv, TablesRight, engine
  <1>. QED
    BY <1>1, <1>3, <1>4, <1>5, Guarded DEF Inv, peerVars

\* The engine's own function: what a destructor frees is in no table and in no
\* other thread's hands.
LEMMA OriginalKeeps ==
  ASSUME Inv, NEW g \in Games, Original(g)
  PROVE  Inv'
  <1> DEFINE c == call[g]
  <1>1. /\ pc[g] = "original" /\ pc'[g] = "idle"
        /\ \A t \in Threads \ {g} : pc'[t] = pc[t]
        /\ pc' \in [Threads -> PcValues]
        /\ DOMAIN call' = Games /\ call'[g] = NoCall
        /\ \A h \in Games \ {g} : call'[h] = call[h]
        /\ UNCHANGED <<emitter_lock, tables, source, peerVars>>
    BY DEF Inv, TypeOK, Original, Goto, Threads, PcValues
  <1>2. /\ emitter' \in [Emitters -> {"free", "emitter", "other"}]
        /\ file_of' \in [Emitters -> Files \cup {None}]
        /\ render' \in [Renders -> {"free", "live"}]
        /\ \A x \in Emitters : (c.hook = "destruct" => x # c.e) =>
             emitter'[x] = emitter[x] /\ file_of'[x] = file_of[x]
        /\ \A x \in Renders : (c.hook = "destruct_render" => x # c.r) => render'[x] = render[x]
    BY DEF Inv, TypeOK, Original
  <1>3. TypeOK'
    BY <1>1, <1>2 DEF Inv, TypeOK, tables, peerVars
  <1>4. ASSUME NEW h \in Games PROVE InHook(h)'
    <2>1. CASE h = g
      BY <1>1, <2>1 DEF InHook, NoCall
    <2>2. CASE h # g
      <3>1. /\ call[h].hook \in {"parse", "destruct", "register"} /\ c.hook = "destruct" =>
                 call[h].e # c.e
            /\ call[h].hook \in {"register", "destruct_render"} /\ c.hook = "destruct_render" =>
                 call[h].r # c.r
        BY <2>2 DEF Inv, InHook, Exclusive
      <3>. QED
        BY <1>1, <1>2, <2>2, <3>1 DEF Inv, InHook, tables, Threads
    <2>. QED
      BY <2>1, <2>2
  <1>5. Exclusive'
    BY <1>1, NamesDistinct DEF Inv, Exclusive, NoCall
  <1>6. TablesRight'
    <2>1. ASSUME NEW x, Parsing(x) PROVE Parsing(x)'
      BY <1>1, <2>1 DEF Parsing, Threads
    <2>2. /\ c.hook = "destruct" => c.e \notin DOMAIN tracked_emitters
          /\ c.hook = "destruct_render" => c.r \notin DOMAIN tracked_render_emitters
      BY <1>1 DEF Inv, InHook
    <2>. QED
      BY <1>1, <1>2, <2>1, <2>2 DEF Inv, TypeOK, TablesRight, tables
  <1>7. ASSUME NEW p \in Peers PROVE InHandler(p)'
    <2>1. pc'[p] = pc[p]
      BY <1>1, NamesDistinct DEF Threads
    <2>. QED
      BY <1>1, <2>1 DEF Inv, InHandler, tables, peerVars, Registry!Entries
  <1>. QED
    BY <1>1, <1>3, <1>4, <1>5, <1>6, <1>7 DEF Inv, peerVars

\* A step of a handler moves one peer thread and touches no table and no object.
LEMMA HandlerFrame ==
  ASSUME Inv, NEW p \in Peers, NEW from, NEW to \in PcValues, Peer(p, from, to)
  PROVE  /\ pc[p] = from /\ pc'[p] = to
         /\ \A t \in Threads \ {p} : pc'[t] = pc[t]
         /\ pc' \in [Threads -> PcValues]
         /\ UNCHANGED <<tables, engine, call>>
         /\ \A g \in Games : InHook(g)'
         /\ Exclusive' /\ TablesRight'
  <1>1. /\ pc[p] = from /\ pc'[p] = to
        /\ \A t \in Threads \ {p} : pc'[t] = pc[t]
        /\ pc' \in [Threads -> PcValues]
        /\ UNCHANGED <<tables, engine, call>>
    BY DEF Inv, TypeOK, Peer, Goto, Threads
  <1>2. \A g \in Games : pc'[g] = pc[g]
    BY <1>1, NamesDistinct DEF Threads
  <1>3. ASSUME NEW g \in Games PROVE InHook(g)'
    BY <1>1, <1>2 DEF Inv, InHook, tables, engine
  <1>4. ASSUME NEW x, Parsing(x) PROVE Parsing(x)'
    BY <1>1, <1>2, <1>4 DEF Parsing
  <1>. QED
    BY <1>1, <1>3, <1>4 DEF Inv, Exclusive, TablesRight, tables, engine

\* Another peer thread notices nothing, unless this one takes the lock from it.
LEMMA OthersKeep ==
  ASSUME Inv, NEW p \in Peers, NEW q \in Peers, q # p,
         pc'[q] = pc[q], UNCHANGED <<tables, call>>,
         request'[q] = request[q], answer'[q] = answer[q],
         emitter_lock' = q <=> emitter_lock = q
  PROVE  InHandler(q)'
  BY DEF Inv, InHandler, tables, Registry!Entries

\* A new request, and one that is malformed.
LEMMA AskKeeps ==
  ASSUME Inv, NEW p \in Peers,
         \/ \E what \in Renders \cup {"list", "malformed"} : Ask(p, what)
         \/ Malformed(p)
  PROVE  Inv'
  <1>1. PICK from \in {"idle", "malformed"},
             to \in {"listing_lock", "malformed", "details_lock", "sending"} :
          /\ Peer(p, from, to)
          /\ UNCHANGED emitter_lock
          /\ request' \in [Peers -> Renders \cup {"nothing", "list", "malformed"}]
          /\ \A q \in Peers \ {p} : request'[q] = request[q] /\ answer'[q] = answer[q]
          /\ DOMAIN answer' = Peers /\ request'[p] # "nothing"
          /\ to = "listing_lock" => request'[p] = "list"
          /\ to = "malformed" => request'[p] = "malformed"
          /\ to = "details_lock" => request'[p] \in Renders
          /\ answer'[p] = IF to = "sending" THEN Failed ELSE answer[p]
    <2>1. CASE Malformed(p)
      BY <2>1, NamesDistinct DEF Malformed, Peer, Inv, TypeOK, InHandler
    <2>2. ASSUME NEW what \in Renders \cup {"list", "malformed"}, Ask(p, what)
          PROVE  \E to \in {"listing_lock", "malformed", "details_lock"} :
                   /\ Peer(p, "idle", to)
                   /\ UNCHANGED <<emitter_lock, answer>>
                   /\ request' = [request EXCEPT ![p] = what]
                   /\ to = "listing_lock" => what = "list"
                   /\ to = "malformed" => what = "malformed"
                   /\ to = "details_lock" => what \in Renders
      BY <2>2 DEF Ask
    <2>3. CASE \E what \in Renders \cup {"list", "malformed"} : Ask(p, what)
      BY <2>2, <2>3, NamesDistinct DEF Inv, TypeOK
    <2>. QED
      BY <2>1, <2>3
  <1>2. to \in PcValues /\ from \notin Holding /\ to \notin Holding \cup {"idle", "encoding"}
    BY <1>1 DEF PcValues, Holding
  <1>3. TypeOK'
    BY <1>1, <1>2, HandlerFrame DEF Inv, TypeOK, tables, engine
  <1>4. ASSUME NEW q \in Peers PROVE InHandler(q)'
    <2>1. CASE q = p
      BY <1>1, <1>2, <2>1, HandlerFrame, NamesDistinct DEF Inv, InHandler, PcValues, Holding
    <2>2. CASE q # p
      BY <1>1, <1>2, <2>2, HandlerFrame, OthersKeep DEF Threads
    <2>. QED
      BY <2>1, <2>2
  <1>. QED
    BY <1>1, <1>2, <1>3, <1>4, HandlerFrame DEF Inv

\* A handler enters its guarded block with an empty answer.
LEMMA BeginKeeps ==
  ASSUME Inv, NEW p \in Peers, Begin(p)
  PROVE  Inv'
  <1>1. PICK from \in {"listing_lock", "details_lock"}, to \in {"listing", "details"} :
          /\ Peer(p, from, to)
          /\ from = "listing_lock" <=> to = "listing"
          /\ emitter_lock = Nobody /\ emitter_lock' = p
          /\ answer' = [answer EXCEPT ![p] = {}] /\ UNCHANGED request
    BY DEF Begin, CanLock
  <1>2. to \in PcValues
    BY <1>1 DEF PcValues
  <1>3. answer'[p] = {} /\ \A q \in Peers \ {p} : answer'[q] = answer[q]
    BY <1>1 DEF Inv
  <1>4. TypeOK'
    BY <1>1, <1>2, <1>3, HandlerFrame DEF Inv, TypeOK, tables, engine
  <1>5. ASSUME NEW q \in Peers PROVE InHandler(q)'
    <2>1. CASE q = p
      BY <1>1, <1>2, <1>3, <2>1, HandlerFrame, NamesDistinct DEF Inv, InHandler, PcValues, Holding
    <2>2. CASE q # p
      BY <1>1, <1>2, <1>3, <2>2, HandlerFrame, OthersKeep, NamesDistinct DEF Threads
    <2>. QED
      BY <2>1, <2>2
  <1>. QED
    BY <1>1, <1>2, <1>4, <1>5, HandlerFrame DEF Inv

\* One more entry of the table, which stands still.
LEMMA ListEntryKeeps ==
  ASSUME Inv, NEW p \in Peers, ListEntry(p)
  PROVE  Inv'
  <1>1. PICK r \in DOMAIN tracked_render_emitters :
          /\ Peer(p, "listing", "listing")
          /\ answer' = [answer EXCEPT ![p] = @ \cup {<<r, tracked_render_emitters[r]>>}]
          /\ UNCHANGED <<emitter_lock, request>>
    BY DEF ListEntry
  <1>2. "listing" \in PcValues
    BY DEF PcValues
  <1>3. /\ answer'[p] = answer[p] \cup {<<r, tracked_render_emitters[r]>>}
        /\ \A q \in Peers \ {p} : answer'[q] = answer[q]
        /\ answer[p] \subseteq Registry!Entries(tracked_render_emitters)
    BY <1>1 DEF Inv, InHandler, Peer
  <1>4. answer'[p] \subseteq Registry!Entries(tracked_render_emitters)
    BY <1>3 DEF Registry!Entries
  <1>5. Registry!Entries(tracked_render_emitters) \subseteq Renders \X Files
    BY DEF Inv, TypeOK, Registry!Entries
  <1>6. TypeOK'
    BY <1>1, <1>2, <1>3, <1>4, <1>5, HandlerFrame DEF Inv, TypeOK, tables, engine
  <1>7. ASSUME NEW q \in Peers PROVE InHandler(q)'
    <2>1. CASE q = p
      BY <1>1, <1>2, <1>4, <2>1, HandlerFrame DEF Inv, InHandler, Holding, tables, Registry!Entries
    <2>2. CASE q # p
      BY <1>1, <1>2, <1>3, <2>2, HandlerFrame, OthersKeep DEF Threads
    <2>. QED
      BY <2>1, <2>2
  <1>. QED
    BY <1>1, <1>2, <1>6, <1>7, HandlerFrame DEF Inv

\* A guarded block ends with a complete answer.
LEMMA BlockEndsKeep ==
  ASSUME Inv, NEW p \in Peers, ListDone(p) \/ Missing(p) \/ Encoded(p)
  PROVE  Inv'
  <1>1. PICK from \in {"listing", "details", "encoding"} :
          /\ Peer(p, from, "sending")
          /\ emitter_lock' = Nobody /\ UNCHANGED request
          /\ DOMAIN answer' = Peers /\ answer'[p] # None
          /\ answer'[p] \in {Absent, Data} \/ answer'[p] \subseteq Renders \X Files
          /\ \A q \in Peers \ {p} : answer'[q] = answer[q]
    <2>1. CASE ListDone(p)
      <3>1. answer[p] \subseteq Renders \X Files
        BY <2>1 DEF ListDone, Peer, Inv, TypeOK, InHandler, Registry!Entries
      <3>. QED
        BY <2>1, <3>1, NamesDistinct DEF ListDone, Unlock, peerVars, Inv
    <2>2. CASE Missing(p) \/ Encoded(p)
      BY <2>2, NamesDistinct DEF Missing, Encoded, Unlock, Inv
    <2>. QED
      BY <2>1, <2>2
  <1>2. "sending" \in PcValues /\ "sending" \notin Holding /\ from \in Holding
    BY DEF PcValues, Holding
  <1>3. TypeOK'
    BY <1>1, <1>2, HandlerFrame DEF Inv, TypeOK, tables, engine
  <1>4. emitter_lock = p
    BY <1>1, <1>2, HandlerFrame DEF Inv, InHandler
  <1>5. ASSUME NEW q \in Peers PROVE InHandler(q)'
    <2>1. CASE q = p
      <3>1. request[p] # "nothing"
        BY <1>1, <1>2, HandlerFrame DEF Inv, InHandler
      <3>. QED
        BY <1>1, <1>2, <2>1, <3>1, HandlerFrame, NamesDistinct DEF InHandler, PcValues
    <2>2. CASE q # p
      BY <1>1, <1>2, <1>4, <2>2, HandlerFrame, OthersKeep, NamesDistinct DEF Threads
    <2>. QED
      BY <2>1, <2>2
  <1>. QED
    BY <1>1, <1>2, <1>3, <1>5, HandlerFrame DEF Inv

\* Steps inside the guarded block of a details request.
LEMMA EncodingKeeps ==
  ASSUME Inv, NEW p \in Peers, Found(p) \/ EncodeThrows(p)
  PROVE  Inv'
  <1>1. PICK from \in {"details", "encoding"}, to \in {"encoding", "sending_locked"} :
          /\ Peer(p, from, to)
          /\ UNCHANGED <<emitter_lock, request>>
          /\ to = "encoding" => request[p] \in DOMAIN tracked_render_emitters
          /\ DOMAIN answer' = Peers
          /\ answer'[p] = IF to = "encoding" THEN answer[p] ELSE Failed
          /\ \A q \in Peers \ {p} : answer'[q] = answer[q]
    BY DEF Found, EncodeThrows, peerVars, Inv
  <1>2. to \in PcValues /\ from \in Holding /\ to \in Holding
    BY <1>1 DEF PcValues, Holding
  <1>3. TypeOK'
    BY <1>1, <1>2, HandlerFrame DEF Inv, TypeOK, tables, engine
  <1>4. ASSUME NEW q \in Peers PROVE InHandler(q)'
    <2>1. CASE q = p
      <3>1. emitter_lock = p /\ request[p] \in Renders
        BY <1>1, <1>2, HandlerFrame DEF Inv, InHandler
      <3>. QED
        BY <1>1, <1>2, <2>1, <3>1, HandlerFrame, NamesDistinct DEF Inv, InHandler, PcValues, tables
    <2>2. CASE q # p
      BY <1>1, <1>2, <2>2, HandlerFrame, OthersKeep DEF Threads
    <2>. QED
      BY <2>1, <2>2
  <1>. QED
    BY <1>1, <1>2, <1>3, <1>4, HandlerFrame DEF Inv

\* The answer is gone, and with it the lock if it was sent inside the block.
LEMMA SentKeeps ==
  ASSUME Inv, NEW p \in Peers, Sent(p)
  PROVE  Inv'
  <1>1. PICK from \in {"sending", "sending_locked"} :
          /\ Peer(p, from, "idle")
          /\ emitter_lock' = IF from = "sending_locked" THEN Nobody ELSE emitter_lock
          /\ request' = [request EXCEPT ![p] = "nothing"]
          /\ answer' = [answer EXCEPT ![p] = None]
    BY DEF Sent, Peer
  <1>2. "idle" \in PcValues /\ "idle" \notin Holding
    BY DEF PcValues, Holding
  <1>3. /\ DOMAIN answer' = Peers /\ answer'[p] = None
        /\ request' \in [Peers -> Renders \cup {"nothing", "list", "malformed"}]
        /\ request'[p] = "nothing"
        /\ \A q \in Peers \ {p} : request'[q] = request[q] /\ answer'[q] = answer[q]
    BY <1>1 DEF Inv, TypeOK
  <1>4. emitter_lock = p <=> from = "sending_locked"
    BY <1>1, <1>2, HandlerFrame DEF Inv, InHandler, Holding
  <1>5. TypeOK'
    BY <1>1, <1>2, <1>3, HandlerFrame DEF Inv, TypeOK, tables, engine
  <1>6. ASSUME NEW q \in Peers PROVE InHandler(q)'
    <2>1. CASE q = p
      BY <1>1, <1>2, <1>3, <1>4, <2>1, HandlerFrame, NamesDistinct DEF InHandler
    <2>2. CASE q # p
      BY <1>1, <1>2, <1>3, <1>4, <2>2, HandlerFrame, OthersKeep, NamesDistinct DEF Threads
    <2>. QED
      BY <2>1, <2>2
  <1>. QED
    BY <1>1, <1>2, <1>3, <1>5, <1>6, HandlerFrame DEF Inv

\* Every step keeps the invariant.
LEMMA NextKeeps == Inv /\ [Next]_vars => Inv'
  <1>. SUFFICES ASSUME Inv, [Next]_vars PROVE Inv'
    OBVIOUS
  <1>1. CASE UNCHANGED vars
    BY <1>1 DEF vars, tables, engine, peerVars, Inv, TypeOK, InHook, Exclusive, TablesRight,
                Parsing, InHandler, Registry!Entries
  <1>2. CASE Engine
    <2>1. CASE \E e \in Emitters : Construct(e) \/ Collect(e)
      BY <2>1, ObjectsKeep
    <2>2. CASE \E g \in Games, e \in Emitters :
                 \/ \E f \in Files : CallParse(g, e, f)
                 \/ \E r \in Renders : CallRegister(g, r, e)
      BY <2>2, CallParseKeeps, CallRegisterKeeps
    <2>3. CASE \E g \in Games : \/ \E e \in Emitters : CallDestruct(g, e)
                                \/ \E r \in Renders : CallDestructRender(g, r)
      BY <2>3, CallDestructKeeps
    <2>. QED
      BY <1>2, <2>1, <2>2, <2>3 DEF Engine
  <1>3. CASE \E g \in Games : GameStep(g)
    BY <1>3, HookParseKeeps, HookDestructKeeps, HookRegisterKeeps, HookDestructRenderKeeps,
       OriginalKeeps DEF GameStep
  <1>4. CASE \E p \in Peers : PeerStep(p) \/ Sent(p)
    BY <1>4, AskKeeps, BeginKeeps, ListEntryKeeps, BlockEndsKeep, EncodingKeeps, SentKeeps
       DEF PeerStep
  <1>5. CASE \E p \in Peers : \E what \in Renders \cup {"list", "malformed"} : Ask(p, what)
    BY <1>5, AskKeeps
  <1>. QED
    BY <1>1, <1>2, <1>3, <1>4, <1>5 DEF Next

\* And so it always holds.
LEMMA Invariance == Spec => []Inv
  BY Starts, NextKeeps, PTL DEF Spec

-----------------------------------------------------------------------------
(* The theorems.                                                              *)

\* Every variable keeps the values the code can give it.
THEOREM TypeCorrect == Spec => []TypeOK
  <1>1. Inv => TypeOK
    BY DEF Inv
  <1>. QED
    BY <1>1, Invariance, PTL

\* While a details request encodes, the object it was asked for exists: it is in
\* the table, the lock keeps it there, and a destructor that has not yet taken it
\* out has not freed it.
THEOREM EncodesTheLiving == Spec => []NoUseAfterFree
  <1>1. Inv => NoUseAfterFree
    BY DEF Inv, InHandler, TablesRight, NoUseAfterFree
  <1>. QED
    BY <1>1, Invariance, PTL

\* A render emitter is never listed under the file of an emitter that lived at
\* its own emitter's address before.
THEOREM FileCorrect == Spec => []FileIsRight
  <1>1. Inv => FileIsRight
    BY DEF Inv, TablesRight, FileIsRight
  <1>. QED
    BY <1>1, Invariance, PTL

-----------------------------------------------------------------------------
(* The refinement.                                                            *)

Answering(p) == pc[p] \in {"sending", "sending_locked"}
Replied == [p \in Peers |-> IF Answering(p) THEN answer[p] ELSE None]

Mapped == [Registry!Next]_<<tracked_render_emitters, request, Replied>>

\* The hooks change the table by one entry, or not at all.
LEMMA GameStepsMap ==
  ASSUME Inv, NEW g \in Games, GameStep(g)
  PROVE  Mapped
  <1>1. UNCHANGED <<request, answer>> /\ \A p \in Peers : pc'[p] = pc[p]
    BY NamesDistinct
       DEF GameStep, HookParse, HookDestruct, HookRegister, HookDestructRender, Original, Hook,
           Goto, peerVars, Inv, TypeOK, Threads
  <1>2. UNCHANGED Replied
    BY <1>1 DEF Replied, Answering
  <1>3. CASE HookRegister(g)
    <2>1. call[g].e \in DOMAIN tracked_emitters =>
            call[g].r \in Renders /\ tracked_emitters[call[g].e] \in Files
      BY <1>3 DEF HookRegister, Hook, Inv, InHook, TypeOK
    <2>. QED
      BY <1>1, <1>2, <1>3, <2>1
         DEF HookRegister, Setup, Insert, Mapped, Registry!Next, Registry!Insert, Replied,
             Answering
  <1>4. CASE HookDestructRender(g)
    <2>1. call[g].r \in Renders
      BY <1>4 DEF HookDestructRender, Hook, Inv, InHook
    <2>. QED
      BY <1>1, <1>2, <1>4, <2>1
         DEF HookDestructRender, Erase, Mapped, Registry!Next, Registry!Remove, Replied,
             Answering
  <1>5. CASE HookParse(g) \/ HookDestruct(g) \/ Original(g)
    BY <1>1, <1>2, <1>5 DEF HookParse, HookDestruct, Original, tables, Mapped
  <1>. QED
    BY <1>3, <1>4, <1>5 DEF GameStep

\* How one handler's step shows outside: the others' answers stay.
LEMMA OneReplies ==
  ASSUME Inv, NEW p \in Peers, NEW from, NEW to \in PcValues, Peer(p, from, to),
         \A q \in Peers \ {p} : answer'[q] = answer[q]
  PROVE  /\ Replied' = [Replied EXCEPT ![p] =
              IF to \in {"sending", "sending_locked"} THEN answer'[p] ELSE None]
         /\ Replied[p] = IF from \in {"sending", "sending_locked"} THEN answer[p] ELSE None
         /\ UNCHANGED tracked_render_emitters
  <1>1. /\ pc[p] = from /\ pc'[p] = to
        /\ \A q \in Peers \ {p} : pc'[q] = pc[q]
        /\ UNCHANGED tracked_render_emitters
    BY HandlerFrame DEF Threads, tables
  <1>2. \A q \in Peers \ {p} : Replied'[q] = Replied[q]
    BY <1>1 DEF Replied, Answering
  <1>3. Replied'[p] = IF to \in {"sending", "sending_locked"} THEN answer'[p] ELSE None
    BY <1>1 DEF Replied, Answering
  <1>4. Replied[p] = IF from \in {"sending", "sending_locked"} THEN answer[p] ELSE None
    BY <1>1 DEF Replied, Answering
  <1>5. Replied = [q \in Peers |-> Replied[q]] /\ Replied' = [q \in Peers |-> Replied'[q]]
    BY DEF Replied
  <1>. QED
    BY <1>1, <1>2, <1>3, <1>4, <1>5

\* A request is asked.
LEMMA AskMaps ==
  ASSUME Inv, NEW p \in Peers, NEW what \in Renders \cup {"list", "malformed"}, Ask(p, what)
  PROVE  Mapped
  <1>1. PICK to \in {"listing_lock", "malformed", "details_lock"} :
          /\ Peer(p, "idle", to)
          /\ UNCHANGED answer
          /\ request' = [request EXCEPT ![p] = what]
    BY DEF Ask
  <1>2. to \in PcValues
    BY <1>1 DEF PcValues
  <1>3. Replied' = [Replied EXCEPT ![p] = None] /\ Replied[p] = None
        /\ UNCHANGED tracked_render_emitters
    BY <1>1, <1>2, OneReplies
  <1>4. UNCHANGED Replied
    BY <1>3 DEF Replied
  <1>5. request[p] = "nothing"
    BY <1>1 DEF Peer, Inv, InHandler
  <1>. QED
    BY <1>1, <1>3, <1>4, <1>5 DEF Mapped, Registry!Next, Registry!Ask, Replied, Answering

\* A step inside a handler that builds its answer shows nothing.
LEMMA SilentMaps ==
  ASSUME Inv, NEW p \in Peers, Begin(p) \/ ListEntry(p) \/ Found(p)
  PROVE  Mapped
  <1>1. PICK from \in {"listing_lock", "details_lock", "listing", "details"},
             to \in {"listing", "details", "encoding"} :
          /\ Peer(p, from, to)
          /\ UNCHANGED request
          /\ \A q \in Peers \ {p} : answer'[q] = answer[q]
    BY DEF Begin, ListEntry, Found, peerVars, Inv
  <1>2. to \in PcValues
    BY <1>1 DEF PcValues
  <1>3. UNCHANGED Replied /\ UNCHANGED tracked_render_emitters
    BY ZenonT(30), <1>1, <1>2, OneReplies DEF Replied
  <1>. QED
    BY <1>1, <1>3 DEF Mapped

\* The answer that is complete is one the table, as it is now, allows.
LEMMA RepliesMap ==
  ASSUME Inv, NEW p \in Peers,
         Malformed(p) \/ ListDone(p) \/ Missing(p) \/ Encoded(p) \/ EncodeThrows(p)
  PROVE  Mapped
  <1>1. PICK from \in {"malformed", "listing", "details", "encoding"},
             to \in {"sending", "sending_locked"} :
          /\ Peer(p, from, to)
          /\ UNCHANGED request
          /\ \A q \in Peers \ {p} : answer'[q] = answer[q]
    BY DEF Malformed, ListDone, Missing, Encoded, EncodeThrows, peerVars, Inv
  <1>2. to \in PcValues
    BY <1>1 DEF PcValues
  <1>3. Replied' = [Replied EXCEPT ![p] = answer'[p]] /\ Replied[p] = None
        /\ UNCHANGED tracked_render_emitters
    BY <1>1, <1>2, OneReplies
  <1>4. request[p] # "nothing"
    BY <1>1 DEF Peer, Inv, InHandler
  <1>5. answer'[p] \in Registry!Replies(request[p])
    <2>1. CASE Malformed(p)
      BY <2>1 DEF Malformed, Peer, Inv, InHandler, Registry!Replies
    <2>2. CASE ListDone(p)
      <3>1. /\ answer'[p] = answer[p] /\ request[p] = "list"
            /\ answer[p] \subseteq Registry!Entries(tracked_render_emitters)
            /\ {entry[1] : entry \in answer[p]} = DOMAIN tracked_render_emitters
        BY <2>2 DEF ListDone, Peer, peerVars, Inv, InHandler
      <3>2. ASSUME NEW r \in DOMAIN tracked_render_emitters
            PROVE  <<r, tracked_render_emitters[r]>> \in answer[p]
        <4>1. PICK entry \in answer[p] : entry[1] = r
          BY <3>1
        <4>. QED
          BY <3>1, <4>1 DEF Registry!Entries
      <3>. QED
        BY <3>1, <3>2 DEF Registry!Entries, Registry!Replies
    <2>3. CASE Missing(p) \/ Encoded(p) \/ EncodeThrows(p)
      <3>1. request[p] \in Renders
        BY <2>3 DEF Missing, Encoded, EncodeThrows, Peer, Inv, InHandler
      <3>2. request[p] \notin {"list", "malformed"}
        BY <3>1, NamesDistinct
      <3>. QED
        BY <2>3, <3>2
           DEF Missing, Encoded, EncodeThrows, Peer, Inv, InHandler, Registry!Replies
    <2>. QED
      BY <2>1, <2>2, <2>3
  <1>. QED
    BY <1>1, <1>3, <1>4, <1>5 DEF Mapped, Registry!Next, Registry!Reply, Replied, Answering

\* The client has its answer.
LEMMA SentMaps ==
  ASSUME Inv, NEW p \in Peers, Sent(p)
  PROVE  Mapped
  <1>1. PICK from \in {"sending", "sending_locked"} :
          /\ Peer(p, from, "idle")
          /\ request' = [request EXCEPT ![p] = "nothing"]
          /\ answer' = [answer EXCEPT ![p] = None]
    BY DEF Sent
  <1>2. "idle" \in PcValues
    BY DEF PcValues
  <1>3. \A q \in Peers \ {p} : answer'[q] = answer[q]
    BY <1>1 DEF Inv
  <1>4. Replied' = [Replied EXCEPT ![p] = None] /\ Replied[p] = answer[p]
        /\ UNCHANGED tracked_render_emitters
    BY <1>1, <1>2, <1>3, OneReplies
  <1>5. answer[p] # None
    BY <1>1 DEF Peer, Inv, InHandler
  <1>. QED
    BY <1>1, <1>4, <1>5 DEF Mapped, Registry!Next, Registry!Finish, Replied, Answering

\* Every answer is the table, or an entry of it, at one moment of the request:
\* the moment at which its guarded block ends.
THEOREM Refinement == Spec => ImplementsRegistry
  <1>1. Init => Registry!Init
    BY DEF Init, Registry!Init, Threads
  <1>2. Inv /\ [Next]_vars => [Registry!Next]_(Registry!registryVars)
    <2>. SUFFICES ASSUME Inv, [Next]_vars PROVE Mapped
      BY DEF Mapped, Registry!registryVars, Replied, Answering
    <2>1. CASE UNCHANGED vars
      BY <2>1 DEF vars, tables, peerVars, Mapped, Replied, Answering
    <2>2. CASE Engine
      <3>1. UNCHANGED <<tables, peerVars>>
        BY <2>2 DEF Engine, Construct, Collect, CallDestruct, CallParse, CallRegister,
                    CallDestructRender, Calls
      <3>2. \A p \in Peers : pc'[p] = pc[p]
        BY <2>2, NamesDistinct
           DEF Engine, Construct, Collect, CallDestruct, CallParse, CallRegister,
               CallDestructRender, Goto, Inv, TypeOK, Threads
      <3>. QED
        BY <3>1, <3>2 DEF tables, peerVars, Mapped, Replied, Answering
    <2>3. CASE \E g \in Games : GameStep(g)
      BY <2>3, GameStepsMap
    <2>4. CASE \E p \in Peers : PeerStep(p) \/ Sent(p)
      BY <2>4, SilentMaps, RepliesMap, SentMaps DEF PeerStep
    <2>5. CASE \E p \in Peers : \E what \in Renders \cup {"list", "malformed"} : Ask(p, what)
      BY <2>5, AskMaps
    <2>. QED
      BY <2>1, <2>2, <2>3, <2>4, <2>5 DEF Next
  <1>. QED
    BY <1>1, <1>2, Invariance, PTL DEF Spec, ImplementsRegistry, Registry!Spec
=============================================================================
