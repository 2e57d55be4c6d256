# Verification of witcher-sandbox

witcher-sandbox is a pair of DLLs for a game. The *launcher* poses as
`dinput8.dll`, and loads the mods' DLLs once the game starts. The *internal* mod
patches jumps into the game's code, keeps track of the particle emitters that
pass by, and answers questions about them over TCP. Its threads are the game's
own threads (which run the hooks), the accept thread and one detached thread per
connection. This directory holds TLA+ modules of that code, the TLC runs that
check them and TLAPS proofs about them. The code has no tests and no
documentation beyond its comments; what is modelled is the source.

## Inventory

| Part | State | Operations | Interacts with | What is hard | What makes it correct |
|---|---|---|---|---|---|
| TCP server: lifetime and accept thread (`server/tcp_server.cpp`) | `mutex`, `condition`, `started`, `thread_count`, `stop_event`, listen socket, accept event | constructor, `start`, destructor, `try_start_thread`, `end_thread`, `accept_handler` | starts peer threads; is owned by `main.cpp` | detached threads hold `this`; spurious wake-ups; failed starts; stop against accept; edge-triggered `FD_ACCEPT` | the count is exact; nothing outlives the server; no socket leaks; stop is honoured; the destructor returns; no queued client is forgotten |
| TCP server: one connection (same file) | header, body, transfer counters, `success`, Winsock's event records | `peer_handler`, sender, `peer_read`, `peer_write`, `network_wait` | calls a handler, which calls the sender | partial transfers; one event for both directions; one buffer for request and response headers; stop, close and reset at any moment | framing; answers whole and in order; no lost wake-up; requests answered; stop and close end the thread of any client that does not keep it busy |
| Handler table and start-up (`tcp_server.cpp`, `main.cpp`) | `handlers`, installed hooks | `add_handler`, `InitializeMod` | peer threads look up without the mutex | the server starts before its handlers are registered | a lookup sees a whole table |
| Emitter tracking (`emitters.cpp`) | `tracked_emitters`, `tracked_render_emitters`, `emitter_lock` | four hooks; messages 5 and 7 | called by wrappers on game threads and by peer threads | objects die while a client names them; addresses are used again; sending under the lock | no use after free; the right file; answers are one state of the table; hooks return |
| Emitter encoding (`emitters.cpp`, `engine_types.h`, `message_builder.h`) | none | `encode_emitter_data`, `encode_buffer`, `message_append` | reads engine objects | 64-item limit in the middle of an answer; the engine changes what is being read; 71 members by hand | a decodable, complete answer or none |
| Bundle lookup (`bundles.cpp`) | engine's bundle manager (read only) | three lookups, message 10 | tracking's listing; the bundle hooks | boundaries repeated in several places; texts that do not convert | lookups agree; answers can be read back |
| Hook wrappers (`emitters.cpp`, `bundles.cpp`, `main.cpp`) | emitted machine code | seven wrappers | game threads run them | alignment, shadow area, saved registers, repeated instructions, byte counts | the game cannot tell the hook is there |
| Code patching, wrapper space (`memory/*.h`) | page protection, `unused_offset`, `write_offset` | `create_wrapper_space`, `reserve`, `ModifiableCode`, `offset32` | all hooks | pages not executable while written; 32-bit distances | every jump lands; nothing runs a page that is being written |
| Launcher (`launcher/src/main.cpp`) | `preloaded`, `loaded` | `DllMain`, `preload`, `check_load`, mod search | calls each mod's `InitializeMod` | several threads ask at once; import table walk | each mod is initialised once |
| Logger, build files | | | | shared `wide_converter` | not modelled: library I/O, no protocol of its own |

`PROJECT.json` lists each hazard at its line with the properties that cover it,
and for the others the reason or the module planned.

## Plan

Order of the modules, most important behaviour first.

1. `ServerLifetime`, `TcpServer`, `TcpServerProofs` (done): threads and lifetime.
2. `PeerConnection`, `EndlessConnection`, `PeerConnectionProofs` (done): one connection's bytes
   and waits, in place of the receive and send outline of `TcpServer`'s peer threads.
3. `EmitterRegistry`, `EmitterTracking`, `EmitterTrackingProofs` (done): tables, lock,
   hooks, handlers.
4. `Wrappers`, `WrapperCode` (done): what a wrapper does to the thread that runs it.
5. `CodePatching`, `Initialization`, `InitializationProofs` (done): finding room,
   page protection, the order in which `InitializeMod` writes wrappers, hooks and
   handlers next to a running engine and a listening server; composes `Wrappers` with
   `CodePatching` and the outline of handlers and hooks.
6. `EngineTypes`, `EmitterEncoding`, `EmitterEncodingProofs`, `BundleLookup`,
   `BundleLookupProofs` (done): what is in an answer.
7. `Launcher`, `LauncherProofs` (done): load-once with several threads; the import table walk.
8. `Recursion` (done): induction in the form the provers can use, for the modules
   above whose loops or recursive operators need it.

Abstract specifications: `ServerLifetime` and `EmitterRegistry`. `ModsInitialised` is
the promise of the launcher, which the code makes only to the thread that loads.

## Modules

**`TcpServer`** has the owner (who calls `start` and the destructor), the accept
thread and a peer thread per connection. An action runs from one point where
another thread can observe or interfere to the next: `Start` takes the mutex and
counts, `StartSucceeds`/`StartFails` create the thread or undo the count and give
the mutex up. The destructor is `Destroy` (lock, `SetEvent`), `CheckThreads` (the
`while`), the wait, `WakeUp`. `pc` follows `accept_handler` from socket creation
through its loop; `AcceptAborts` is every early return. `EndThread` is
`end_thread` for both kinds of thread. What a peer thread transfers is left open:
a receive or send completes, blocks or fails. Winsock's `FD_ACCEPT` is modelled
from its use: recorded when a client queues, consumed by the enumeration,
re-enabled by `WSAAccept`. `FD_CLOSE` of the listen socket is among the aborts. The
timeout of the wait only logs and is a stutter. The owner need never destroy the
server, and `main.cpp` never does: the destructor's properties are about the class.

**`ServerLifetime`** promises that the object is released with no thread alive and that
a closing server starts threads only from a living one. `TcpServer` maps
`stop_event` and `owner` to the phase and the running threads to `live`.

**`PeerConnection`** is one peer thread, its client and the network. Streams are
sequences of units that name the message they belong to and their position, so
that any loss, duplication, reordering or misplacement is visible. `part` tells
whether header or body is transferred and `total` is the counter of
`peer_read`/`peer_write`; `Receive` and `Send` move any number of units that fit.
The sender overwrites `header`, as the code does. `fd` is Winsock's record of each
network event (armed, recorded, posted) with its re-enabling calls. The results of
`WSACreateEvent` and `WSAEventSelect` are not looked at: where they fail, every event is
`"never"` and only the stop event or a failing wait ends a wait. A close may show late, when
what the client sent before it has been read. `Spin` is
the retry after a hard error. A request is answered by one call of the sender,
which is what every handler in the repository and the unknown-message branch do.
**`EndlessConnection`** is the same connection for liveness: when all that was asked has been
answered and read, `Forget` sets the counts and the streams back, so that the client may go on
asking for ever. The client may stop reading at any time.

**`EmitterTracking`** has game threads that enter hooks and then the engine's own
function, and peer threads that handle a listing, a details request or a malformed
one. Tables are functions whose domain grows and shrinks. A hook's guarded
block is one action because nothing else can see its middle; the guarded blocks
of the handlers are several actions, holding `emitter_lock`. The engine is assumed
(`InUse`, the guards of `Call...`) not to use one object from two threads at once,
to set a render emitter up once per life, and to destroy emitters only through
the hooked destructors. A parse hook may find other vtables (the object was
collected) and then tracks nothing, so an earlier entry at that address stays;
"the file" of an emitter (`file_of`) is that of the last parse the hook could look at, and
`FileIsRight` says nothing of a later one it could not. **`EmitterRegistry`** is what a client may believe:
an answer is the table, or an entry of it, as it was at one moment between the
request and the answer.

**`Wrappers`** lists the instructions of the seven wrappers, with their lengths in
bytes, where the jump to each is put and where it goes on. **`WrapperCode`** runs
them: pushes, adjustments of `rsp`, moves, the call, `test/jz/ret`. The
called hook may change every volatile register and any of its four home slots
(where a misplaced stack would put the caller's values). Each wrapper states where
it is entered (start of a function or the middle of one), which registers the
engine still needs and what it must repeat; `inside` and `live` are read off the
site by what the wrapper's comments say is overwritten.

**`CodePatching`** has the arithmetic: `offset32`, which cuts a distance to four
bytes, and `Follow`, what the processor makes of them. Addresses count from the
base of the image, so that the model needs no 64-bit numbers; that is exact
because the code only uses differences.

**`Initialization`** is `InitializeMod` as a sequence of steps (`InitializeMod` is
built from `Install` and `AddHandler` the way the functions call each other) and an
action for each kind of step. `ModifiableCode` objects are a stack; each saves the
protection it finds and the destructor puts it back, innermost first. A jump is
written by two stores, a vtable entry by one; the bytes of a wrapper are one step,
since nothing leads to it yet. `path` is the launcher's trigger: on `"startup"` no engine
code runs before `InitializeMod` is done, on `"dinput"` the engine's threads may be
anywhere in the code that is patched: at the site, between its two instructions, in the
wrapper, behind the hook, at the place to resume. Peer threads look handlers up
while one is added: `Find` then may find anything or go astray. `CreateDepot` is the engine
setting up what `static_depot_pointer` leads to. The bundle hooks convert paths on the engine's
thread, and `logger::wide` may throw there (`"threw"`); a handler may meet a text that does not
convert or a null bundle (`"content"`), or have no byte of message 10 to read, if none of the
connection's bodies has had one (`stored`). Logger set-up and the last store, of a
number into the engine's data, are left out.

**`EngineTypes`** computes the offset of every member of the packed structures
and compares it with the offset in its comment: `Behind` puts one more member behind those
there are, and `Struct` does so for all of them. Members that no other code names are
`"unnamed"`. **`EmitterEncoding`** is
`encode_emitter_data`, one step per member and one per item of a buffer; contents are
abstracted to sizes and the length byte to its value. `LengthsAssumption` says that the
lengths of buffers are natural numbers. `Rewrite` is the engine giving a
buffer another length, once, at any moment: `emitter_lock` does not keep it out.

**`BundleLookup`** has the three helpers as operators, the handler of message 10 with
its own copies of their conditions, and the listing. Texts are sequences of UTF-16
units and answers sequences of bytes, because a length must count bytes after the
conversion. A surrogate is three bytes or an exception: the library decides. A
message of one to three bytes names any index. So does an empty one if the connection's
`message_body` has storage from an earlier request (`stored`); otherwise `&message[0]` is a null
pointer and the read ends the game. A bundle that the table has but
whose pointer is null ends the game in message 10 and is `Unknown` in a listing.
`AnswersParse` follows a client: it reads a length, takes that many bytes for a string
and goes on behind them.

**`Launcher`** is the proxy DLL: `preload` walks the imports while the process
attaches, `Call` is the game's use of either function, and the thread that wins
`check_load` searches directories and files. The slots of the imports are assumed to
be laid out in the order of the descriptors, as linkers do, and the original
`dinput8.dll` to exist. An `InitializeMod` may throw, which nothing catches: its thread is
`"terminated"`, and so is the process. The `Mods` directory or, where the path of the executable cannot
be had, the current one is any member of `Folders`.

**`Recursion`** has no state: it holds the induction lemma and the existence of functions
defined by recursion over `0 .. N`, for the proof modules.

`MCTcpServer` and `MCEmitterTracking` only add the symmetry sets; `MCLauncher` and
`MCBundleLookup` the import tables, directories and depots.

## Runs

| Run | Module, cfg | Question | Bounds |
|---|---|---|---|
| `server_safety` | `MCTcpServer`, `TcpServer_safety.cfg` | is the count exact, can a thread outlive the server, can a socket leak | 3 connections, symmetric |
| `server_live` | `MCTcpServer`, `TcpServer_live.cfg` | is stop honoured, does the destructor return, does the backlog drain, is `ServerLifetime` implemented | 2 connections |
| `peer_safety` | `PeerConnection`, `PeerConnection_safety.cfg` | framing, order of answers, lost wake-ups | see below |
| `peer_live` | `EndlessConnection`, `EndlessConnection.cfg` | do stop and close end the thread, whether the client reads or not; does a client that reads get every answer | as above, without an end |
| `emitters_safety` | `MCEmitterTracking`, `EmitterTracking_safety.cfg` | use after free, right file | 2 game and 2 peer threads, 2 emitters, 1 render emitter, 2 files |
| `emitters_live` | `MCEmitterTracking`, `EmitterTracking_live.cfg` | do hooks return, is `EmitterRegistry` implemented | 1 game and 2 peer threads, 1 emitter, 2 render emitters, 1 file |
| `initialization` | `Initialization`, `Initialization.cfg` | does every jump lead to its wrapper, what can go wrong while the game runs | 1 engine thread, 1 peer thread, 2 image bases, 3 places of free memory |
| `launcher` | `MCLauncher`, `Launcher.cfg` | is the import table patched exactly, is each mod initialised once, do calls get through unless a mod throws | 3 threads, 4 import tables, 2 directory contents |
| `emitter_encoding` | `EmitterEncoding`, `EmitterEncoding.cfg` | is an answer complete and decodable, are structures as commented | buffers of 0, 1, 63, 64 and 256 items, one of each kind |
| `bundle_lookup` | `MCBundleLookup`, `BundleLookup.cfg` | do the lookups agree, can the answers be read back, what in the depot or the message can end the game | 1296 depots, indexes 0 to 3, listings of up to 2 entries |
| `wrapper_code` | `WrapperCode`, `WrapperCode.cfg` | is every wrapper transparent and laid out right | all seven wrappers, all sets of changed home slots |
| `wrapper_comment` | `WrapperCode`, `WrapperCode_comment.cfg` | does the complex wrapper resume where its comment says | expected to fail |

The last one is a finding: `bundles.cpp:193` says `jmp 1400929F7`, copied from the
simple wrapper; the code jumps to `0x92A27`, which is right.

*Bounds.* Connections, threads and addresses matter only by being distinct. Three
connections give the accept thread one in hand with one queued and one being
served; two already give every action and the races of two ending threads, and
keep the liveness graph small. `PeerConnection` has headers of 2 units (so one can be torn),
bodies of 0 and 1 and a too long one of 2, answers of 0 and 1, two requests (so that the
second can arrive with the first, and old contents of the buffers can show), and a
send buffer of 2 units, less than an answer of 3. Two emitter addresses and two
files are what a mix-up needs; two render emitters make a listing take two steps
between which a removal would show. One engine thread and one connection are enough
for `Initialization`, where neither is affected by another of its kind except
through the table of tracked emitters, and one hook after another fills that. The bases
(in units of 64 KiB) are the usual one, 5 GiB, where the search ends after 511 tries, and
4 MiB, where it ends at address zero; free memory is in the 64th place (which is
address zero for the low image), in the last one tried or nowhere, and `WrappersInReach`
is proved for all places. Three threads let one be loading, one pass it by and one be
outside; the import tables have kernel32 first, in the middle, last and not at
all; the directory contents have every reason to pass an entry over, with a good
one behind it. The depots have counts below, at and above the indexes asked
for, and the lengths of buffers are the limits of the comparison and of a byte. These bounds are in the `.cfg` files; the modules have no
others, but for `MaxRequests`, which is in the guard of `Ask`, and `MaxListed`, which is in
that of `AskList`. `MaxRequests` does not end the conversation in the liveness runs: it bounds
only the requests that are open at once, since `Forget` starts the count again.

*Fairness.* Threads are scheduled (`WF` of each thread's steps) and a mutex that is
free again and again is obtained (`SF` of `EndThread`, `SpawnPeer`, and of the steps
that take `emitter_lock`). `TcpServer` adds that `WSAAccept` does not fail for ever
while clients are queued, and that no client keeps its thread's receive buffer filled for ever
(`SF` of `PeerBlocks`): only a receive that would block looks at the stop
event, so with such a client the destructor does not return. `EndlessConnection` has fairness
of the thread and of the network (`Arrive`: what was sent arrives). Only `RequestsAnswered` adds,
as its own premise `ClientReads`, that the client reads (`Drain`); `StopEndsThread` and `CloseEndsThread` are
checked without it. No fairness is put on clients in `EmitterTracking`,
where an answer may stay unread for ever, on the engine, on failures, or on anything the
owner may but need not do. `Launcher` has `WF` of `preload` and of each thread's steps inside
the launcher, since nothing there waits; whether the game calls is left open.

*Deadlock* is not checked where the model really ends: a process that has crashed
(`Initialization`, `Launcher` when kernel32 is the last import or a mod throws), a request that has been
answered (`EmitterEncoding`, `BundleLookup`).

*Exceptions the code makes necessary.*
- `DestructorReturns` and `StopEndsThread` except a connection whose socket fails with a hard
  error: `peer_read` and `peer_write` repeat the call at once without looking at the stop event.
- `StopEndsThread` further excepts `KeptBusy`: from some point on the thread never waits and
  finds data again and again. A client that merely stops reading or writing, or whose events were
  not selected, is not excepted.
- `CloseEndsThread` excepts a client that has asked for more than it reads: the thread waits
  for ever to write, and the close does not show behind the request that is still unread
  (`StuckWriting`). It also excepts a connection whose events were not selected.
- `RequestsAnswered` excepts a client that closes, because `FD_CLOSE` may be enumerated while
  requests are still unread, the stop event, a wait that fails, a body that is too long and
  events that were not selected.
- `HooksReturn` excepts the time in which the answer to an emitter that cannot be encoded is
  being sent, because that one is sent under `emitter_lock`.
- `CallsReturn` excepts a mod that throws.
- `DetailsWhole` excepts the buffer that the engine changed between its length byte and its
  last item.

*What ends the game.* Four properties say where, of the ways that are modelled, each can
occur. They are no list of all there are: what the operating system, the standard library and
the engine's own objects may do beyond the models (running out of memory, a data race inside
`wide_converter`, a failing logger, a dangling engine pointer) is in none of them.
- `FaultsExplained`: the patching makes an engine thread fault only if the mod is loaded late, and
  then at a page that is being written or between two instructions that were replaced
  under it. A hook that throws into the engine, which may happen at any time since it converts
  paths, is a bundle hook with its depot pointer in place, never one reached too early.
- `FailuresExplained`: a peer thread follows a pointer that is not there only by a lookup that
  overlaps `add_handler`, by message 10 before the engine has its depot, by message 5 in a late load
  that has tracked an emitter before `bundles_setup`, or by an empty message 10 on a
  connection that has had no body yet. What the depot holds ends the process only where there is
  a depot; which contents do is the next property's.
- `EndsExplained`: a handler that ends the game over what it reads was stopped at the index it had
  got to by a text of that index that does not convert (in a listing, at whichever entry), or in
  message 10 by a null bundle below the bundle count or by a message without a byte.
- `PreloadExact`: `preload` runs off the import table only if kernel32 is the last import.

Every property of a passing run is paired in `PROJECT.json` with a change of the
modelled code that breaks it; the changed forms stand next to the definitions
they replace, marked as mutants.

## Proofs

`TcpServerProofs` proves, for every finite set of connections, from the assumptions
`ConnsFinite` and `NamesDistinct` only:

| Theorem | Property |
|---|---|
| `TypeCorrect` | `TypeOK` |
| `CountCorrect` | `CountIsExact` |
| `LifetimeSafe` | `NoThreadOutlivesServer` |
| `SocketsOwned` | `SocketHasOneOwner` |
| `StopHonoured` | `NoAcceptAfterStop` |
| `Refinement` | `ImplementsLifetime` |

All rest on one inductive invariant, `Inv`: the four state properties and `Regions`,
which ties the mutex to the program points that hold it, `accepting` to the part of the
accept loop that has a connection in hand, `started` to the accept thread's existence,
`stop_event` to the destructor, and an untouched or queued socket to a peer thread that does
not exist yet. None of the four is inductive alone. The count
is exact after a start only because the mutex keeps the two places that start
threads apart (`Starting` is 0 or 1); a server that is gone stays without threads only because
the count was zero and exact when the destructor looked; and a peer thread starts
with an open socket only because the accept thread still has it in hand. The proofs
go action by action; a few lemmas about cardinalities say how `Live` changes when one
thread begins or ends. `Refinement` uses the invariant to show that `EndThread` is `End`,
the two successful starts are `Begin`, `Destroy` is `Close`, the last `CheckThreads` is
`Release`, and everything else stutters.

`EmitterTrackingProofs` proves, for any threads, addresses and files, from `NamesDistinct`
only:

| Theorem | Property |
|---|---|
| `TypeCorrect` | `TypeOK` |
| `EncodesTheLiving` | `NoUseAfterFree` |
| `FileCorrect` | `FileIsRight` |
| `Refinement` | `ImplementsRegistry` |

Its invariant adds to these what makes them inductive. `InHook` says what a thread in a
hook may count on (the object it was called with still lives; a destructor that
has run has taken it out of the table), `Exclusive` that no object is in two hooks at once,
which is the assumption about the engine, and `InHandler` which program points of a
handler hold `emitter_lock`. `TablesRight` is weaker than `FileIsRight` would be for emitters: between
the engine's parse and the hook's entry the table still has the old file, and only
`Exclusive` keeps a set-up hook from seeing it. In the refinement an answer is given when its
guarded block ends, so a listing is the table at that moment; what was collected before is
still true because the lock has kept the hooks out.

`PeerConnectionProofs` proves, for headers, bodies, answers and send buffers of any
size, any number of requests and any way the network cuts them, from `Bounds` (the sizes are
natural numbers, header and send buffer not empty):

| Theorem | Property |
|---|---|
| `TypeCorrect` | `TypeOK` |
| `RequestsFramed` | `FramedRight` |
| `AnswersOrdered` | `AnswersInOrder` |
| `NeverSleepsOver` | `NoLostWakeup` |

None of the four is inductive. What is still to be read is described unit by unit
(`StreamRight`): the rest of a message follows each of its units, and the next message its
last one. That holds of every end of the stream, so taking units off its front keeps
it (`StreamTaken`), and no induction over the messages is needed. `RequestHeld` and
`AnswerHeld` say how the counter, the two buffers, the history and the stream belong
together while a message is half through: here the one `header` buffer serves both
directions, and a stale header would show. `SentRight` says that the client has been sent a
beginning of what was promised. `EventsRight` is the bookkeeping of Winsock's events: a
thread that waits for data has `FD_READ` either armed with nothing to read or
recorded, and likewise for room to write, unless its events were never selected.
`NoLostWakeup` follows from that last part.

`LauncherProofs` proves, for any import tables, folders and threads:

| Theorem | Property |
|---|---|
| `TypeCorrect` | `TypeOK` |
| `PreloadFindsAll` | `PreloadExact` |
| `ModsLoadedOnce` | `ModsInitialised` |

`LauncherAssumption` says what an import table is: its descriptors name places in the
list of slots, in the order of the descriptors. The invariant has `Attached` (which slots
the walk has covered, and that it leaves the table only behind the last import),
`OneLoads` (one thread at most is past the exchange of `loaded`; when none is searching any
more, all has been searched) and `InitialisedRight` (the DLLs initialised are the wanted
ones among those the two nested searches have passed, in order; a search that ended in a mod's
exception stays where it was). `Before` orders DLLs
by directory, then file, and a new one comes behind all passed ones; so none comes twice.

`InitializationProofs` proves, for any place of the image, any free memory below it,
any threads of the game and any connections:

| Theorem | Property |
|---|---|
| `TypeCorrect` | `TypeOK` |
| `JumpsLandAlways` | `JumpsLand` |
| `FullOrDone` | `ThrowsOnlyWhenFull` |
| `FaultsAreExplained` | `FaultsExplained` |
| `FailuresAreExplained` | `FailuresExplained` |

and, without assumptions, what `JumpsLand` shows for two bases: `OffsetExact` (the four bytes
of `offset32`, read as the processor reads them, lead to the target whenever the distance fits
32 bits signed) and `WrappersInReach` (every place where `create_wrapper_space` may find
room is that near to every place of an image of up to 1 GiB, in both directions). That
argument goes through `SignedU32`: the bytes are the digits of the distance to base 256,
and the sign is the top bit of the last.

The thread that runs `InitializeMod` is a straight line of 56 steps, and what it has done is a
function of the step and of the place found: `Begins` and `Used` tell where each `Install`
starts and how much has been reserved by then, `Stage` what is at a site, `ScopesRight`
which `ModifiableCode` objects are open, `ProtectionRight` that just the pages of those are
not as they were. `GameRight` and `PeersRight` say what the others may then be doing. `JumpsLand`
is about where jumps lead; whether the page they lead to may be executed at that moment is
`FaultsExplained`'s matter, and while a hook is being written it may not.
`InitializationAssumption` says that seven reservations fit the allocated 64 KiB (7 times 40h
bytes do, so `reserve` never fails) and counts the places of free memory
from 1, the first one below the image. That the jumps there and back land uses
`OffsetExact` and `WrappersInReach`, and that no wrapper is
longer than 160 bytes (`BytesBound`, from the table in `Wrappers`; `LayoutConsistent` is sharper).

`BundleLookupProofs` proves, for any depot, any directories and listings of any length:

| Theorem | Property |
|---|---|
| `TypeCorrect` | `TypeOK` |
| `LookupsAlwaysAgree` | `LookupsAgree` |
| `EndsAreExplained` | `EndsExplained` |
| `AnswersReadBack` | `AnswersParse` |

`DirectoriesAssumption` says that the directories are a finite forest: `depth` stands for the
pointers to the parents, which must not lead round, or the recursion of
`bundle_format_file_directory` would never return. `BundleLookupAssumption` says that the
engine's arrays have as many entries as their counts say, and that the texts are texts of
under a gigabyte, so that their lengths fit the four bytes of the message. The invariant has
`FoundRight` (what message 10 has found so far is what the helpers say), `EndRight` (message 10
lists nothing, and where a handler has ended the game, the index it was at has what
`EndsExplained` names: `ThrowingEntry` finds the text in the four of a listing's entry, of which
the index itself always converts) and
`AnswerRight`: there is a `Walk` through what has been appended, which tells where each
string starts. `ReadableGrows` shows that one more string makes the walk one longer and
changes nothing of what was there, and `WalkReads` that a client who knows only the bytes
takes this walk. The recursive definitions (`DirectoryPath`, `Reads`, and the `FlattenSeq` of
the community modules in `Wide`) are shown to have a value and a type by induction.

`EmitterEncodingProofs` proves, for buffers of any lengths, any one of which the engine may
change at any moment:

| Theorem | Property |
|---|---|
| `TypeCorrect` | `TypeOK` |
| `LayoutHolds` | `LayoutAsCommented` |
| `DetailsAreWhole` | `DetailsWhole` |

`LayoutHolds` rests on `StructAsCommented`, a theorem about `Struct` for any members:
a packed structure is as commented if and only if each member begins where the one
before it ends, the first at 0, and the last ends with the structure. Its induction is
over the number of members; what is left for each of the structures is to compare
neighbours (`StructuresRight`). The list `Wire` of what is sent is compared with the members
of the structures once, without regard to the encoding: its 71 names are distinct
(`WireDistinct`), and are those of the members and no others (`WireIsMembers`, from
`MembersSent` and `SentMembers`).

`DetailsWhole` speaks only of answers, and an answer is made in hundreds of steps. The
invariant says what of it is there at each of them: `SoFar`, that the members before the k-th
are encoded in order, each whole; `Inside`, that the k-th, when it is a buffer, was shorter than
64 when that was looked at, has the length its entry says, and its first `item` items;
`Answered`, that what was sent is complete or empty. For the one buffer the engine may
change (`odd`) these are claimed as long as the change has not come between its two
looks at the length, that is unless `torn`; that only a change tears (`torn => rewritten`)
is needed to know the length of a buffer that was left alone.

`Recursion` makes that induction available. The induction theorems of the library take
an operator as a parameter, which the provers at hand cannot instantiate; `WFMin`, which
they rest on, speaks of sets, so `Induction` and `RecursionWorks` are stated with a set in
place of the predicate.

Only model-checked:
- `WrapperCode`. Its only constant is the number of bytes reserved for a wrapper, which the
  code fixes. The wrappers are seven fixed programs without loops, run on registers and
  slots whose contents are symbols, with every set of changed home slots: the run
  visits every state there is, and a proof could only repeat it case by case.
- All liveness: `BacklogDrains`, `DestructorReturns`, `RequestsAnswered`, `StopEndsThread`,
  `CloseEndsThread`, `HooksReturn` and `CallsReturn` rest on fairness, which TLAPS does not
  handle.

## Not modelled

The logger (set-up of spdlog and a conversion; `BundleLookup` has what the conversion does to a
text) and the build files. `overwrite_all_emitters` and `find_replacement` with the
reader it makes, which nothing calls; `emitters_loop`, which is empty; the destructor and the
move of `WrapperAddressSpace`, whose only object is never destroyed. The last store of
`InitializeMod`, into engine data. Undefined
behaviours inside engine objects and inside the standard library (the shared
`wide_converter`), and what happens after an exception leaves a thread's function or a hook, which
ends the process.
