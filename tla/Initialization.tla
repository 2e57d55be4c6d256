--------------------------- MODULE Initialization ---------------------------
(* InitializeMod: one thread of the game starts the server, finds room for    *)
(* the wrappers, installs the seven hooks and adds the handlers, while peer   *)
(* threads of the server look handlers up and, if the mod is loaded as late   *)
(* as DirectInput8Create, the engine runs through the code being patched.     *)
EXTENDS Wrappers, CodePatching, SequencesExt

CONSTANTS
  ReserveSize,   \* reserve(0x40), of which seven fit many times over
  Bases,         \* where the image may be, in granules
  Vacancies,     \* which granules below the image may be free
  Engine,        \* threads of the game
  Peers          \* connections, of one request at a time each

ASSUME InitializationAssumption ==
  /\ ReserveSize \in Nat \ {0} /\ 7 * ReserveSize <= Granule /\ Bases \subseteq Nat
  /\ \A v \in Vacancies : v \subseteq Nat \ {0}

VARIABLES
  path,          \* the launcher's trigger: "startup" or "dinput"
  base, vacant,
  pc, tried,     \* the step of InitializeMod, and i of create_wrapper_space
  unused,        \* unused_offset
  code,          \* the ModifiableCode objects on the stack, innermost first
  slots,         \* address -> hook whose wrapper is complete there
  entry,         \* hook -> what is at its site
  protection,    \* page -> "RX", "R" or "RW"
  listening, handlers, adding,
  static_depot_pointer,
  depot,         \* has the engine set its depot up?
  engine, tracked, peer

loader == <<pc, tried, unused, code, slots, entry, protection, static_depot_pointer>>
table  == <<listening, handlers, adding>>
game   == <<depot, engine, tracked>>
vars   == <<path, base, vacant, loader, table, game, peer>>

Hook ==
  [emitter_register |-> emitter_register, emitter_destruct |-> emitter_destruct,
   render_emitter_register |-> render_emitter_register,
   render_emitter_destruct |-> render_emitter_destruct,
   bundle_file_read_simple |-> bundle_file_read_simple,
   bundle_file_read_complex |-> bundle_file_read_complex, loop |-> loop]
Hooks == DOMAIN Hook

-----------------------------------------------------------------------------
(* What InitializeMod does, step by step.                                     *)

Op(op, arg) == [op |-> op, arg |-> arg]

\* hook_set_...: the wrapper is written first; the objects go in reverse order.
\* An instruction is replaced by two stores, a vtable entry by one.
Body(h) ==
  <<Op("reserve", h), Op("emit", h), Op("modify", h)>>
  \o (IF Hook[h].vtable THEN <<>> ELSE <<Op("opcode", h)>>) \o <<Op("target", h)>>

OneLeft(h) == Body(h) \o <<Op("leave", h)>>   \* mutant: the wrapper is never closed
Install(h) == Body(h) \o <<Op("leave", h), Op("leave", h)>>

AddHandler(type) == <<Op("add", type), Op("added", type)>>

EmitterHooks ==
  Install("emitter_register") \o Install("emitter_destruct")
  \o Install("render_emitter_register") \o Install("render_emitter_destruct")
BundleHooks == Install("bundle_file_read_simple") \o Install("bundle_file_read_complex")

emitters_setup == EmitterHooks \o AddHandler(5) \o AddHandler(7)

HandlerFirst  == AddHandler(10) \o <<Op("depot", 0)>> \o BundleHooks   \* mutant
bundles_setup == <<Op("depot", 0)>> \o BundleHooks \o AddHandler(10)

InitializeMod ==
  <<Op("start", 0), Op("search", 0)>> \o emitters_setup \o bundles_setup \o Install("loop")

Done  == pc = Len(InitializeMod) + 1
Threw == pc = 0

\* The process ends with an exception nobody catches and with a fault of any
\* thread.
Alive == /\ ~Threw
         /\ \A t \in Engine : engine[t].at \notin {"fault", "threw"}
         /\ \A p \in Peers : peer[p].at \notin {"crash", "content"}

-----------------------------------------------------------------------------
(* Memory.                                                                    *)

Space      == Candidate(tried)
SpacePages == Page(Space) .. Page(Space + Granule - 1)

Over(new, old) ==
  [a \in DOMAIN new \cup DOMAIN old |-> IF a \in DOMAIN new THEN new[a] ELSE old[a]]

Pages == {Page(Hook[h].site) : h \in Hooks} \cup {Page(Hook[h].resume) : h \in Hooks}

Init ==
  /\ path \in {"startup", "dinput"} /\ base \in Bases /\ vacant \in Vacancies
  /\ pc = 1 /\ tried = 1 /\ unused = 0 /\ code = <<>> /\ slots = <<>>
  /\ entry = [h \in Hooks |-> [is |-> "engine", to |-> 0]]
  /\ protection = [a \in Pages |->
       IF \E h \in Hooks : Hook[h].vtable /\ a = Page(Hook[h].site) THEN "R" ELSE "RX"]
  /\ listening = FALSE /\ handlers = {} /\ adding = 0
  /\ static_depot_pointer = FALSE
  /\ depot = (path = "dinput") /\ tracked = FALSE
  /\ engine = [t \in Engine |-> [at |-> "away", hook |-> "loop"]]
  /\ peer = [p \in Peers |-> [at |-> "idle", type |-> 0, racing |-> FALSE, up |-> FALSE,
                        stored |-> FALSE]]

\* ModifiableCode(address, length)
Open(address) ==
  /\ code' = <<[address |-> address, previous |-> protection[Page(address)]]>> \o code
  /\ protection' = [protection EXCEPT ![Page(address)] = "RW"]

Forgotten(c) == "RW"    \* mutant: the destructor does nothing
Previous(c)  == c.previous

\* Where the jump at the site of h leads.
Target(h) == IF Hook[h].vtable THEN entry[h].to ELSE Follow(Hook[h].site + 1, entry[h].to)

-----------------------------------------------------------------------------
(* The thread that runs InitializeMod.                                        *)

Doing(op) == Alive /\ pc \in 1 .. Len(InitializeMod) /\ InitializeMod[pc].op = op
Arg == InitializeMod[pc].arg

Loader == UNCHANGED <<path, base, vacant, game>>

StartServer ==
  /\ Doing("start")
  /\ listening' \in BOOLEAN   \* the accept thread may fail
  /\ pc' = pc + 1
  /\ Loader
  /\ UNCHANGED <<tried, unused, code, slots, entry, protection, static_depot_pointer,
                 handlers, adding, peer>>

OffByOne == tried <= base   \* mutant: may allocate at address zero
InRange  == tried < base

create_wrapper_space ==
  /\ Doing("search")
  /\ \/ tried <= Tries /\ InRange /\ tried \in vacant
        /\ pc' = pc + 1 /\ UNCHANGED tried
        /\ protection' = Over([a \in SpacePages |-> "RX"], protection)
     \/ tried <= Tries /\ InRange /\ tried \notin vacant
        /\ tried' = tried + 1 /\ UNCHANGED <<pc, protection>>
     \/ ~(tried <= Tries /\ InRange)
        /\ pc' = 0 /\ UNCHANGED <<tried, protection>>
  /\ Loader
  /\ UNCHANGED <<unused, code, slots, entry, static_depot_pointer, table, peer>>

Stuck    == unused                   \* mutant: every wrapper at the same place
Advanced == unused + ReserveSize

Reserve ==
  /\ Doing("reserve")
  /\ IF unused + ReserveSize > Granule
     THEN pc' = 0 /\ UNCHANGED <<unused, code, protection>>
     ELSE /\ pc' = pc + 1 /\ unused' = Advanced
          /\ Open(Space + unused)
  /\ Loader
  /\ UNCHANGED <<tried, slots, entry, static_depot_pointer, table, peer>>

EmitWrapper ==
  /\ Doing("emit")
  /\ slots' = Over([a \in {Last(code).address} |-> Arg], slots)
  /\ pc' = pc + 1
  /\ Loader
  /\ UNCHANGED <<tried, unused, code, entry, protection, static_depot_pointer, table, peer>>

ModifyCode ==
  /\ Doing("modify")
  /\ Open(Hook[Arg].site)
  /\ pc' = pc + 1
  /\ Loader
  /\ UNCHANGED <<tried, unused, slots, entry, static_depot_pointer, table, peer>>

\* After E9 alone the displacement is still the engine's own bytes.
WriteJump ==
  /\ \/ Doing("opcode") /\ entry' = [entry EXCEPT ![Arg].is = "half"]
     \/ Doing("target")
        /\ entry' = [entry EXCEPT ![Arg] =
             [is |-> "hook",
              to |-> IF Hook[Arg].vtable THEN Last(code).address
                     ELSE Offset32(Hook[Arg].site + 1, Last(code).address)]]
  /\ pc' = pc + 1
  /\ Loader
  /\ UNCHANGED <<tried, unused, code, slots, protection, static_depot_pointer, table, peer>>

LeaveScope ==   \* ~ModifiableCode
  /\ Doing("leave")
  /\ protection' = [protection EXCEPT ![Page(Head(code).address)] = Previous(Head(code))]
  /\ code' = Tail(code)
  /\ pc' = pc + 1
  /\ Loader
  /\ UNCHANGED <<tried, unused, slots, entry, static_depot_pointer, table, peer>>

FindDepot ==
  /\ Doing("depot")
  /\ static_depot_pointer' = TRUE
  /\ pc' = pc + 1
  /\ Loader
  /\ UNCHANGED <<tried, unused, code, slots, entry, protection, table, peer>>

\* handlers[type] = handler, which may rehash; the mutex does not keep out the
\* lookups of peer threads.
add_handler ==
  /\ \/ /\ Doing("add") /\ adding' = Arg /\ UNCHANGED handlers
        /\ peer' = [p \in Peers |->
                      IF peer[p].at = "find" THEN [peer[p] EXCEPT !.racing = TRUE] ELSE peer[p]]
     \/ /\ Doing("added") /\ adding' = 0 /\ handlers' = handlers \cup {Arg}
        /\ UNCHANGED peer
  /\ pc' = pc + 1
  /\ Loader
  /\ UNCHANGED <<tried, unused, code, slots, entry, protection, static_depot_pointer, listening>>

-----------------------------------------------------------------------------
(* The engine.  On the startup path InitializeMod runs before main does.      *)

Game == Alive /\ UNCHANGED <<path, base, vacant, loader, table, peer>>

CreateDepot ==
  /\ Game /\ Done /\ ~depot
  /\ depot' = TRUE /\ UNCHANGED <<engine, tracked>>

GoTo(t, place) == engine' = [engine EXCEPT ![t].at = place]

Runs(address) == protection[Page(address)] = "RX"

Enter(t, h) ==
  /\ Game /\ depot /\ (path = "dinput" \/ Done)
  /\ engine[t].at = "away"
  /\ engine' = [engine EXCEPT ![t] = [at |-> "site", hook |-> h]]
  /\ UNCHANGED <<depot, tracked>>

\* The bytes to be replaced are one instruction or two; a vtable entry is read.
AtSite(t) ==
  LET h == engine[t].hook
      is == entry[h].is
  IN  /\ Game /\ engine[t].at = "site"
      /\ GoTo(t, CASE ~Hook[h].vtable /\ (~Runs(Hook[h].site) \/ is = "half") -> "fault"
                   [] is = "hook" -> "wrapper"
                   [] OTHER -> IF Len(Hook[h].again) > 1 THEN "middle" ELSE "away")
      /\ UNCHANGED <<depot, tracked>>

InMiddle(t) ==
  LET h == engine[t].hook
  IN  /\ Game /\ engine[t].at = "middle"
      /\ GoTo(t, IF ~Runs(Hook[h].site) \/ entry[h].is # "engine" THEN "fault" ELSE "away")
      /\ UNCHANGED <<depot, tracked>>

\* The wrapper calls the hook: those of the bundles convert a path before and
\* after they look into the depot, those of the render emitters fill and empty
\* the table that message 5 lists.
Reads == {"bundle_file_read_simple", "bundle_file_read_complex"}
Called(h) == Runs(Target(h)) /\ Target(h) \in DOMAIN slots /\ slots[Target(h)] = h

InWrapper(t) ==
  LET h == engine[t].hook
  IN  /\ Game /\ engine[t].at = "wrapper"
      /\ \/ /\ Called(h) /\ (h \in Reads => static_depot_pointer)
            /\ GoTo(t, "return")
            /\ tracked' = IF h = "render_emitter_register" THEN TRUE
                          ELSE tracked /\ h # "render_emitter_destruct"
         \/ /\ ~Called(h) \/ (h \in Reads /\ ~static_depot_pointer)
            /\ GoTo(t, "fault") /\ UNCHANGED tracked
         \/ /\ Called(h) /\ h \in Reads   \* logger::wide
            /\ GoTo(t, "threw") /\ UNCHANGED tracked
      /\ UNCHANGED depot

Return(t) ==
  LET h == engine[t].hook
  IN  /\ Game
      /\ \/ engine[t].at = "return" /\ GoTo(t, IF Runs(Target(h)) THEN "resume" ELSE "fault")
         \/ engine[t].at = "resume" /\ GoTo(t, IF Runs(Hook[h].resume) THEN "away" ELSE "fault")
      /\ UNCHANGED <<depot, tracked>>

-----------------------------------------------------------------------------
(* A peer thread: handlers.find, then the handler or the unknown response.    *)

Serve(p, place) == peer' = [peer EXCEPT ![p].at = place]
Net == Alive /\ UNCHANGED <<path, base, vacant, loader, table, game>>

\* The first body that is not empty gives message_body its storage.
Ask(p, type, empty) ==
  /\ Net /\ listening /\ peer[p].at \in {"idle", "unknown"}
  /\ peer' = [peer EXCEPT ![p] =
       [at |-> "find", type |-> type, racing |-> adding # 0, up |-> Done,
        stored |-> peer[p].stored \/ ~empty]]

\* A lookup that overlaps an insertion may find anything, or go astray.
Find(p) ==
  /\ Net /\ peer[p].at = "find"
  /\ \/ peer[p].type \in handlers /\ Serve(p, "handle")
     \/ peer[p].type \notin handlers /\ Serve(p, "unknown")
     \/ peer[p].racing /\ peer[p].type \in handlers \cup {adding} /\ Serve(p, "handle")
     \/ peer[p].racing /\ \E place \in {"unknown", "crash"} : Serve(p, place)

\* Message 5 looks a file up for each tracked emitter, message 10 always.
NeedsDepot(p) == peer[p].type = 10 \/ (peer[p].type = 5 /\ tracked)

\* The handler of message 10 reads &message[0] first; what the depot holds may
\* then be a bundle that is null or a text that does not convert.
NoMessage(p) == peer[p].type = 10 /\ ~peer[p].stored
NoDepot(p)   == NeedsDepot(p) /\ ~(static_depot_pointer /\ depot)

Handle(p) ==
  /\ Net /\ peer[p].at = "handle"
  /\ \/ (NoMessage(p) \/ NoDepot(p)) /\ Serve(p, "crash")
     \/ ~NoMessage(p) /\ ~NoDepot(p) /\ Serve(p, "idle")
     \/ ~NoMessage(p) /\ ~NoDepot(p) /\ NeedsDepot(p) /\ Serve(p, "content")

-----------------------------------------------------------------------------

Next ==
  \/ StartServer \/ create_wrapper_space \/ Reserve \/ EmitWrapper \/ ModifyCode
  \/ WriteJump \/ LeaveScope \/ FindDepot \/ add_handler
  \/ CreateDepot
  \/ \E t \in Engine : \/ \E h \in Hooks : Enter(t, h)
                       \/ AtSite(t) \/ InMiddle(t) \/ InWrapper(t) \/ Return(t)
  \/ \E p \in Peers : \/ \E type \in {5, 7, 10}, empty \in BOOLEAN : Ask(p, type, empty)
                      \/ Find(p) \/ Handle(p)

Spec == Init /\ [][Next]_vars

-----------------------------------------------------------------------------
(* Properties.                                                                *)

\* Types.  No scope is left open at the end and at most two are open at once.
TypeOK ==
  /\ pc \in 0 .. Len(InitializeMod) + 1 /\ tried \in 1 .. Tries + 1 /\ unused \in Nat
  /\ Len(code) <= 2 /\ (Done => code = <<>>)
  /\ Range(protection) \subseteq {"RX", "R", "RW"} /\ Range(slots) \subseteq Hooks
  /\ \A h \in Hooks : entry[h].is \in {"engine", "half", "hook"}
  /\ static_depot_pointer \in BOOLEAN /\ depot \in BOOLEAN /\ tracked \in BOOLEAN
  /\ handlers \subseteq {5, 7, 10} /\ adding \in {0, 5, 7, 10}
  /\ \A t \in Engine :
       engine[t].at \in {"away", "site", "middle", "wrapper", "return", "resume", "fault",
                        "threw"}
  /\ \A p \in Peers :
       /\ peer[p].at \in {"idle", "find", "handle", "unknown", "crash", "content"}
       /\ peer[p].stored \in BOOLEAN

\* From the moment a hook is live, its jump leads to that hook's own complete
\* wrapper, and the wrapper's jump and its load lead back into the image where
\* they should, wherever the space was found.
End(h)      == Target(h) + Bytes(Code(Hook[h]))
Relative(h) ==   \* the operands written by offset32, each with its target
  {[at |-> End(h) - 4, to |-> Hook[h].resume]}
  \cup IF LoadGlobal \in ToSet(Hook[h].again)
       THEN {[at |-> End(h) - 9, to |-> \h2AA43B8]} ELSE {}
JumpsLand ==
  \A h \in Hooks : entry[h].is = "hook" =>
    /\ Target(h) \in DOMAIN slots /\ slots[Target(h)] = h
    /\ \A r \in Relative(h) : Follow(r.at, Offset32(r.at, r.to)) = r.to

\* The only exception is for want of room, and no room is at address zero.
ThrowsOnlyWhenFull ==
  /\ Threw => \A i \in vacant : i >= base \/ i > Tries
  /\ pc > 2 => tried \in vacant /\ base - tried > 0

\* The patching makes the engine fault only while it runs during InitializeMod,
\* and then on a page that is being written or between two instructions that were
\* replaced.  A hook that throws into the engine is one of the bundles', and it has
\* its pointer to the depot.
BeingWritten(address) == \E c \in ToSet(code) : Page(c.address) = Page(address)
Location(t) ==
  LET h == engine[t].hook
  IN  CASE engine[t].at = "site" -> Hook[h].site
        [] engine[t].at \in {"wrapper", "return"} -> Target(h)
        [] OTHER -> Hook[h].resume
FaultsExplained ==
  [][\A t \in Engine :
       /\ engine[t].at # "fault" /\ engine'[t].at = "fault" =>
            path = "dinput" /\ (engine[t].at = "middle" \/ (~Done /\ BeingWritten(Location(t))))
       /\ engine[t].at # "threw" /\ engine'[t].at = "threw" =>
            engine[t].hook \in Reads /\ static_depot_pointer]_vars

\* A request that comes when InitializeMod is done gets its handler.  A handler or
\* its lookup follows a pointer that is not there in four cases: the lookup runs
\* while a handler is added, a file is asked for before the engine has a depot,
\* emitters are listed that a late load has tracked before bundles_setup, and
\* message 10 comes without a byte on a connection that has seen none yet.  What
\* the depot holds ends the process only when there is one.
FailuresExplained ==
  [][\A p \in Peers :
       /\ peer'[p].at = "unknown" => ~peer'[p].up
       /\ peer[p].at # "crash" /\ peer'[p].at = "crash" =>
            \/ peer[p].at = "find" /\ peer[p].racing /\ ~peer[p].up
            \/ peer[p].type = 10 /\ path = "startup" /\ ~depot
            \/ peer[p].type = 5 /\ path = "dinput" /\ ~static_depot_pointer
            \/ peer[p].type = 10 /\ ~peer[p].stored
       /\ peer[p].at # "content" /\ peer'[p].at = "content" =>
            static_depot_pointer /\ (path = "dinput" \/ Done)]_vars
=============================================================================
