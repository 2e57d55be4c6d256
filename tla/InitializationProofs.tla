------------------------ MODULE InitializationProofs ------------------------
(* The safety of Initialization.tla for any place of the image, any room      *)
(* below it, any threads of the game and any connections.  The invariant says *)
(* that the state of the thread that runs InitializeMod is a function of the  *)
(* step it is at and of the place it has found, and what the others may know. *)
EXTENDS Initialization, CodePatching, Recursion, SequenceTheorems

-----------------------------------------------------------------------------
(* Displacements.  offset32 truncates a 64-bit difference; within 2 GiB       *)
(* nothing is lost.                                                           *)

TwoGiB == 32768 * 65536

Near(d) == -TwoGiB <= d /\ d < TwoGiB

\* The four bytes of a near distance, read as a signed number, are the distance.
LEMMA SignedU32 ==
  ASSUME NEW d \in Int, Near(d)
  PROVE  Signed(U32(d)) = d
<1> DEFINE a == d \div 256
           b == d \div 65536
           c == d \div 16777216
<1>1. a \in Int /\ b \in Int /\ c \in Int
  BY SMT
<1>2. d = 256 * a + (d % 256) /\ d % 256 \in 0 .. 255
  BY SMT
<1>3. a = 256 * b + (a % 256) /\ a % 256 \in 0 .. 255
  <2>1. b = a \div 256
    BY SMT
  <2> QED BY SMT, <1>1, <2>1
<1>4. b = 256 * c + (b % 256) /\ b % 256 \in 0 .. 255
  <2>1. c = b \div 256
    BY SMT
  <2> QED BY SMT, <1>1, <2>1
<1>5. c \in -128 .. 127
  BY SMT DEF Near, TwoGiB
<1>6. c = IF c % 256 >= 128 THEN (c % 256) - 256 ELSE c % 256
  BY SMT, <1>1, <1>5
<1>7. /\ U32(d)[1] = d % 256 /\ U32(d)[2] = a % 256
      /\ U32(d)[3] = b % 256 /\ U32(d)[4] = c % 256
  BY SMT DEF U32
<1>8. Signed(U32(d)) = (d % 256) + 256 * (a % 256) + 65536 * (b % 256)
                       + 16777216 * (IF c % 256 >= 128 THEN (c % 256) - 256 ELSE c % 256)
  BY SMT, <1>7 DEF Signed
<1> HIDE DEF a, b, c
<1> QED BY SMT, <1>1, <1>2, <1>3, <1>4, <1>6, <1>8

\* A displacement written by offset32 leads to its target wherever both are
\* within 2 GiB of each other.
THEOREM OffsetExact ==
  ASSUME NEW address \in Int, NEW target \in Int, Near(target - (address + 4))
  PROVE  Follow(address, Offset32(address, target)) = target
<1>1. Signed(U32(target - (address + 4))) = target - (address + 4)
  BY SMT, SignedU32
<1> QED BY SMT, <1>1 DEF Follow, Offset32

\* Wherever create_wrapper_space finds room, and wherever in it a wrapper is
\* put, a jump in the image leads to the wrapper and the jump in the wrapper
\* leads back: the game's image is smaller than 1 GiB.
THEOREM WrappersInReach ==
  ASSUME NEW i \in Nat, 1 <= i, i <= Tries, NEW o \in Nat, o < Granule,
         NEW site \in Nat, site <= 16384 * 65536
  PROVE  /\ Follow(site, Offset32(site, Candidate(i) + o)) = Candidate(i) + o
         /\ Follow(Candidate(i) + o, Offset32(Candidate(i) + o, site)) = site
<1> DEFINE w == Candidate(i) + o
<1>0. i \in Int /\ 1 <= i /\ i <= 511 /\ o \in Int /\ 0 <= o /\ o < 65536
  BY SMT DEF Tries, Granule
<1>1. Candidate(i) \in Int /\ Candidate(i) = 0 - 65536 * i
  BY SMT, <1>0 DEF Candidate, Granule
<1>2. w \in Int /\ -512 * 65536 <= w /\ w < 0
  BY SMT, <1>0, <1>1
<1>3. site \in Int /\ 0 <= site /\ site <= 16384 * 65536
  BY SMT
<1> HIDE DEF w
<1>4. Near(w - (site + 4)) /\ Near(site - (w + 4))
  BY SMT, <1>2, <1>3 DEF Near, TwoGiB
<1> QED BY SMT, <1>2, <1>3, <1>4, OffsetExact DEF w

-----------------------------------------------------------------------------
(* The steps of InitializeMod and what they leave.                            *)

\* The first step of each Install.
Begins ==
  [emitter_register |-> 3, emitter_destruct |-> 9, render_emitter_register |-> 16,
   render_emitter_destruct |-> 23, bundle_file_read_simple |-> 34,
   bundle_file_read_complex |-> 41, loop |-> 50]

\* How much has been reserved before step k.
Used(k) ==
  IF k <= 3 THEN 0
  ELSE IF k <= 9 THEN ReserveSize
  ELSE IF k <= 16 THEN 2 * ReserveSize
  ELSE IF k <= 23 THEN 3 * ReserveSize
  ELSE IF k <= 34 THEN 4 * ReserveSize
  ELSE IF k <= 41 THEN 5 * ReserveSize
  ELSE IF k <= 50 THEN 6 * ReserveSize ELSE 7 * ReserveSize

Slot(h) == Space + Used(Begins[h])

\* What is at the site of h before step k.
Stage(h, k) == IF k < Begins[h] + 4 THEN "engine"
               ELSE IF k = Begins[h] + 4 /\ ~Hook[h].vtable THEN "half" ELSE "hook"

Destination(h) == IF Hook[h].vtable THEN Slot(h) ELSE Offset32(Hook[h].site + 1, Slot(h))

\* The search has passed only places that are taken.
SearchRight ==
  /\ path \in {"startup", "dinput"} /\ base \in Bases /\ vacant \in Vacancies
  /\ pc \in 0 .. 57 /\ tried \in 1 .. Tries + 1
  /\ pc <= 2 => \A k \in 1 .. tried - 1 : k \notin vacant
  /\ pc = 0 => tried > Tries \/ tried >= base
  /\ pc > 2 => tried <= Tries /\ tried < base /\ tried \in vacant

\* Each wrapper is in a place of its own and complete before its hook leads there.
EntriesRight ==
  /\ DOMAIN entry = Hooks
  /\ \A h \in Hooks :
       entry[h] = [is |-> Stage(h, pc), to |-> IF Stage(h, pc) = "hook" THEN Destination(h) ELSE 0]

SlotsRight ==
  /\ \A h \in Hooks : pc >= Begins[h] + 2 => Slot(h) \in DOMAIN slots /\ slots[Slot(h)] = h
  /\ \A a \in DOMAIN slots : slots[a] \in Hooks

HooksRight == unused = Used(pc) /\ EntriesRight /\ SlotsRight

\* The scopes that are open, and the step of Install that leaves the last one.
Closing(h)      == IF Hook[h].vtable THEN 5 ELSE 6
Original(a)     == IF \E h \in Hooks : Hook[h].vtable /\ a = Page(Hook[h].site) THEN "R" ELSE "RX"
WrapperScope(h) == [address |-> Slot(h), previous |-> "RX"]
SiteScope(h)    == [address |-> Hook[h].site, previous |-> Original(Page(Hook[h].site))]

ScopesRight ==
  /\ \A h \in Hooks :
       /\ pc - Begins[h] \in {1, 2, Closing(h)} => code = <<WrapperScope(h)>>
       /\ pc - Begins[h] \in 3 .. Closing(h) - 1 => code = <<SiteScope(h), WrapperScope(h)>>
  /\ (\A h \in Hooks : pc - Begins[h] \notin 1 .. Closing(h)) => code = <<>>

\* Exactly the pages that are being written are not as they were.
ProtectionRight ==
  /\ DOMAIN protection = Pages \cup (IF pc > 2 THEN SpacePages ELSE {})
  /\ \A a \in DOMAIN protection :
       protection[a] = IF \E c \in ToSet(code) : Page(c.address) = a THEN "RW" ELSE Original(a)

TableRight ==
  /\ static_depot_pointer \in BOOLEAN
  /\ static_depot_pointer <=> pc > 33
  /\ handlers \subseteq {5, 7, 10}
  /\ 5 \in handlers <=> pc > 30
  /\ 7 \in handlers <=> pc > 32
  /\ 10 \in handlers <=> pc > 49
  /\ pc = 30 => adding = 5
  /\ pc = 32 => adding = 7
  /\ pc = 49 => adding = 10
  /\ pc \notin {30, 32, 49} => adding = 0

\* On the startup path the engine does not run before the last step.
GameRight ==
  /\ depot \in BOOLEAN /\ tracked \in BOOLEAN
  /\ path = "dinput" => depot
  /\ depot /\ path = "startup" => Done
  /\ tracked => depot
  /\ DOMAIN engine = Engine
  /\ \A t \in Engine :
       /\ engine[t] \in [at : {"away", "site", "middle", "wrapper", "return", "resume", "fault", "threw"},
                         hook : Hooks]
       /\ engine[t].at # "away" => depot
       /\ engine[t].at = "middle" => path = "dinput"
       /\ engine[t].at \in {"wrapper", "return"} => Stage(engine[t].hook, pc) = "hook"

\* A request after the last step races with nothing.
PeersRight ==
  /\ DOMAIN peer = Peers
  /\ \A p \in Peers :
       /\ peer[p] \in [at : {"idle", "find", "handle", "unknown", "crash", "content"}, type : {0, 5, 7, 10},
                       racing : BOOLEAN, up : BOOLEAN, stored : BOOLEAN]
       /\ peer[p].up => Done
       /\ peer[p].at = "find" => peer[p].type # 0
       /\ peer[p].at = "find" /\ peer[p].up => ~peer[p].racing
       /\ peer[p].at = "unknown" => ~peer[p].up
       /\ peer[p].at = "handle" /\ peer[p].type = 10 => static_depot_pointer

Inv == /\ SearchRight /\ HooksRight /\ ScopesRight /\ ProtectionRight /\ TableRight
       /\ GameRight /\ PeersRight

-----------------------------------------------------------------------------
(* The hooks and the program.                                                 *)

LEMMA HooksAre ==
  Hooks = {"emitter_register", "emitter_destruct", "render_emitter_register",
           "render_emitter_destruct", "bundle_file_read_simple",
           "bundle_file_read_complex", "loop"}
  BY DEF Hooks, Hook

\* Where the hooks are in the image, and whether a vtable entry leads to them.
LEMMA Sites ==
  /\ Hook["emitter_register"].site = \h1F3F4D0 /\ Hook["emitter_register"].resume = \h516490
     /\ Hook["emitter_register"].vtable = TRUE
  /\ Hook["emitter_destruct"].site = \h518FE0 /\ Hook["emitter_destruct"].resume = \h518FE6
     /\ Hook["emitter_destruct"].vtable = FALSE
  /\ Hook["render_emitter_register"].site = \hBFB047 /\ Hook["render_emitter_register"].resume = \hBFB04D
     /\ Hook["render_emitter_register"].vtable = FALSE
  /\ Hook["render_emitter_destruct"].site = \h214B4B8 /\ Hook["render_emitter_destruct"].resume = \hC08B20
     /\ Hook["render_emitter_destruct"].vtable = TRUE
  /\ Hook["bundle_file_read_simple"].site = \h929F0 /\ Hook["bundle_file_read_simple"].resume = \h929F7
     /\ Hook["bundle_file_read_simple"].vtable = FALSE
  /\ Hook["bundle_file_read_complex"].site = \h92A20 /\ Hook["bundle_file_read_complex"].resume = \h92A27
     /\ Hook["bundle_file_read_complex"].vtable = FALSE
  /\ Hook["loop"].site = \h446B0 /\ Hook["loop"].resume = \h446B6
     /\ Hook["loop"].vtable = FALSE
  <1>1. /\ Hook["emitter_register"].site = \h1F3F4D0 /\ Hook["emitter_register"].resume = \h516490
       /\ Hook["emitter_register"].vtable = TRUE
    BY SMT DEF Hook, emitter_register, OfEntry
  <1>2. /\ Hook["emitter_destruct"].site = \h518FE0 /\ Hook["emitter_destruct"].resume = \h518FE6
       /\ Hook["emitter_destruct"].vtable = FALSE
    BY SMT DEF Hook, emitter_destruct
  <1>3. /\ Hook["render_emitter_register"].site = \hBFB047 /\ Hook["render_emitter_register"].resume = \hBFB04D
       /\ Hook["render_emitter_register"].vtable = FALSE
    BY SMT DEF Hook, render_emitter_register
  <1>4. /\ Hook["render_emitter_destruct"].site = \h214B4B8 /\ Hook["render_emitter_destruct"].resume = \hC08B20
       /\ Hook["render_emitter_destruct"].vtable = TRUE
    BY SMT DEF Hook, render_emitter_destruct, OfEntry
  <1>5. /\ Hook["bundle_file_read_simple"].site = \h929F0 /\ Hook["bundle_file_read_simple"].resume = \h929F7
       /\ Hook["bundle_file_read_simple"].vtable = FALSE
    BY SMT DEF Hook, bundle_file_read_simple
  <1>6. /\ Hook["bundle_file_read_complex"].site = \h92A20 /\ Hook["bundle_file_read_complex"].resume = \h92A27
       /\ Hook["bundle_file_read_complex"].vtable = FALSE
    BY SMT DEF Hook, bundle_file_read_complex
  <1>7. /\ Hook["loop"].site = \h446B0 /\ Hook["loop"].resume = \h446B6
       /\ Hook["loop"].vtable = FALSE
    BY SMT DEF Hook, loop
  <1>. QED
    BY SMT, <1>1, <1>2, <1>3, <1>4, <1>5, <1>6, <1>7

LEMMA Places ==
  ASSUME NEW h \in Hooks
  PROVE  /\ Hook[h].site \in Nat /\ Hook[h].site < 16384 * 65536
         /\ Hook[h].resume \in Nat /\ Hook[h].resume <= 16384 * 65536
         /\ Hook[h].vtable <=> Page(Hook[h].site) \in {\h1F3F, \h214B}
         /\ Page(Hook[h].resume) \notin {\h1F3F, \h214B}
  <1>1. CASE h = "emitter_register"
    BY SMT, <1>1, Sites DEF Page, PageSize
  <1>2. CASE h = "emitter_destruct"
    BY SMT, <1>2, Sites DEF Page, PageSize
  <1>3. CASE h = "render_emitter_register"
    BY SMT, <1>3, Sites DEF Page, PageSize
  <1>4. CASE h = "render_emitter_destruct"
    BY SMT, <1>4, Sites DEF Page, PageSize
  <1>5. CASE h = "bundle_file_read_simple"
    BY SMT, <1>5, Sites DEF Page, PageSize
  <1>6. CASE h = "bundle_file_read_complex"
    BY SMT, <1>6, Sites DEF Page, PageSize
  <1>7. CASE h = "loop"
    BY SMT, <1>7, Sites DEF Page, PageSize
  <1>. QED
    BY SMT, HooksAre, <1>1, <1>2, <1>3, <1>4, <1>5, <1>6, <1>7

\* Pages outside the image are no vtable's.
LEMMA OriginalPages ==
  /\ \A h \in Hooks : /\ ~Hook[h].vtable => Original(Page(Hook[h].site)) = "RX"
                      /\ Original(Page(Hook[h].resume)) = "RX"
  /\ \A a : a \notin {\h1F3F, \h214B} => Original(a) = "RX"
  BY SMT, Places DEF Original

Steps == {Op(op, arg) : op \in {"start", "search", "reserve", "emit", "modify", "opcode", "target",
                                "leave", "add", "added", "depot"},
                        arg \in Hooks \cup {0, 5, 7, 10}}

\* Sequence t is found in s behind the first o elements.
Piece(s, o, t) == o + Len(t) <= Len(s) /\ \A n \in 1 .. Len(t) : s[o + n] = t[n]

LEMMA Pieces ==
  ASSUME NEW s \in Seq(Steps), NEW t \in Seq(Steps)
  PROVE  /\ s \o t \in Seq(Steps) /\ Len(s \o t) = Len(s) + Len(t)
         /\ Piece(s \o t, 0, s) /\ Piece(s \o t, Len(s), t)
  BY DEF Piece

LEMMA PieceOfPiece ==
  ASSUME NEW s \in Seq(Steps), NEW t \in Seq(Steps), NEW u \in Seq(Steps),
         NEW o \in Nat, NEW q \in Nat, Piece(s, o, t), Piece(t, q, u)
  PROVE  Piece(s, o + q, u)
  <1>1. o + q + Len(u) <= Len(s)
    BY DEF Piece
  <1>2. ASSUME NEW n \in 1 .. Len(u) PROVE s[o + q + n] = u[n]
    <2>1. q + n \in 1 .. Len(t) /\ t[q + n] = u[n] /\ o + (q + n) = o + q + n
      BY DEF Piece
    <2>2. s[o + (q + n)] = t[q + n]
      BY <2>1 DEF Piece
    <2>. QED
      BY <2>1, <2>2
  <1>. QED
    BY <1>1, <1>2 DEF Piece

LEMMA BodyIs ==
  ASSUME NEW h \in Hooks
  PROVE  /\ Body(h) \in Seq(Steps) /\ Len(Body(h)) = (IF Hook[h].vtable THEN 4 ELSE 5)
         /\ Body(h)[1] = Op("reserve", h) /\ Body(h)[2] = Op("emit", h)
         /\ Body(h)[3] = Op("modify", h)
         /\ Hook[h].vtable => Body(h)[4] = Op("target", h)
         /\ ~Hook[h].vtable => Body(h)[4] = Op("opcode", h) /\ Body(h)[5] = Op("target", h)
  <1>1. /\ Op("reserve", h) \in Steps /\ Op("emit", h) \in Steps /\ Op("modify", h) \in Steps
        /\ Op("opcode", h) \in Steps /\ Op("target", h) \in Steps
    BY DEF Steps
  <1>2. <<Op("reserve", h), Op("emit", h), Op("modify", h)>> \in Seq(Steps)
    BY <1>1
  <1>3. <<Op("opcode", h)>> \in Seq(Steps) /\ <<Op("target", h)>> \in Seq(Steps)
    BY <1>1
  <1>4. CASE Hook[h].vtable
    BY <1>2, <1>3, <1>4 DEF Body
  <1>5. CASE ~Hook[h].vtable
    BY <1>2, <1>3, <1>5 DEF Body
  <1>. QED
    BY <1>4, <1>5

\* What is done for a hook, step by step.
Installs(s, o, h) ==
  /\ s[o] = Op("reserve", h) /\ s[o + 1] = Op("emit", h) /\ s[o + 2] = Op("modify", h)
  /\ Hook[h].vtable => s[o + 3] = Op("target", h)
  /\ ~Hook[h].vtable => s[o + 3] = Op("opcode", h) /\ s[o + 4] = Op("target", h)
  /\ s[o + Closing(h) - 1] = Op("leave", h) /\ s[o + Closing(h)] = Op("leave", h)

LEMMA InstallIs ==
  ASSUME NEW h \in Hooks
  PROVE  /\ Install(h) \in Seq(Steps) /\ Len(Install(h)) = Closing(h) + 1
         /\ Installs(Install(h), 1, h)
  <1>1. PICK b : b = Body(h)
    OBVIOUS
  <1>2. Op("leave", h) \in Steps
    BY DEF Steps
  <1>3. <<Op("leave", h), Op("leave", h)>> \in Seq(Steps)
    BY <1>2
  <1>4. b \in Seq(Steps)
    BY <1>1, BodyIs
  <1>5. Install(h) = b \o <<Op("leave", h), Op("leave", h)>>
    BY <1>1 DEF Install
  <1>6. CASE Hook[h].vtable
    <2>1. /\ Len(b) = 4 /\ b[1] = Op("reserve", h) /\ b[2] = Op("emit", h)
          /\ b[3] = Op("modify", h) /\ b[4] = Op("target", h)
      BY <1>1, <1>6, BodyIs
    <2>2. PICK i : i = b \o <<Op("leave", h), Op("leave", h)>>
      OBVIOUS
    <2>3. /\ i \in Seq(Steps) /\ Len(i) = 6 /\ \A n \in 1 .. 4 : i[n] = b[n]
          /\ i[5] = Op("leave", h) /\ i[6] = Op("leave", h)
      <3>1. PICK e : e = <<Op("leave", h), Op("leave", h)>>
        OBVIOUS
      <3>2. e \in Seq(Steps) /\ Len(e) = 2 /\ e[1] = Op("leave", h) /\ e[2] = Op("leave", h)
        BY <1>3, <3>1
      <3>3. i = b \o e
        BY <2>2, <3>1
      <3>4. /\ b \o e \in Seq(Steps) /\ Len(b \o e) = Len(b) + Len(e)
            /\ \A n \in 1 .. Len(b) + Len(e) :
                 (b \o e)[n] = IF n <= Len(b) THEN b[n] ELSE e[n - Len(b)]
        BY <1>4, <3>2, ConcatProperties
      <3>. QED
        BY <2>1, <3>2, <3>3, <3>4
    <2>4. Installs(i, 1, h) /\ Len(i) = Closing(h) + 1
      BY <1>6, <2>1, <2>3 DEF Installs, Closing
    <2>. QED
      BY <1>5, <2>2, <2>3, <2>4
  <1>7. CASE ~Hook[h].vtable
    <2>1. /\ Len(b) = 5 /\ b[1] = Op("reserve", h) /\ b[2] = Op("emit", h)
          /\ b[3] = Op("modify", h) /\ b[4] = Op("opcode", h) /\ b[5] = Op("target", h)
      BY <1>1, <1>7, BodyIs
    <2>2. PICK i : i = b \o <<Op("leave", h), Op("leave", h)>>
      OBVIOUS
    <2>3. /\ i \in Seq(Steps) /\ Len(i) = 7 /\ \A n \in 1 .. 5 : i[n] = b[n]
          /\ i[6] = Op("leave", h) /\ i[7] = Op("leave", h)
      <3>1. PICK e : e = <<Op("leave", h), Op("leave", h)>>
        OBVIOUS
      <3>2. e \in Seq(Steps) /\ Len(e) = 2 /\ e[1] = Op("leave", h) /\ e[2] = Op("leave", h)
        BY <1>3, <3>1
      <3>3. i = b \o e
        BY <2>2, <3>1
      <3>4. /\ b \o e \in Seq(Steps) /\ Len(b \o e) = Len(b) + Len(e)
            /\ \A n \in 1 .. Len(b) + Len(e) :
                 (b \o e)[n] = IF n <= Len(b) THEN b[n] ELSE e[n - Len(b)]
        BY <1>4, <3>2, ConcatProperties
      <3>. QED
        BY <2>1, <3>2, <3>3, <3>4
    <2>4. Installs(i, 1, h) /\ Len(i) = Closing(h) + 1
      BY <1>7, <2>1, <2>3 DEF Installs, Closing
    <2>. QED
      BY <1>5, <2>2, <2>3, <2>4
  <1>. QED
    BY <1>6, <1>7

LEMMA InstallLengths ==
  \A h \in Hooks :
    /\ Install(h) \in Seq(Steps)
    /\ Len(Install(h)) = IF h \in {"emitter_register", "render_emitter_destruct"} THEN 6 ELSE 7
  <1>. SUFFICES ASSUME NEW h \in Hooks
                PROVE  /\ Install(h) \in Seq(Steps)
                       /\ Len(Install(h)) =
                            IF h \in {"emitter_register", "render_emitter_destruct"} THEN 6 ELSE 7
    OBVIOUS
  <1>1. Closing(h) = IF h \in {"emitter_register", "render_emitter_destruct"} THEN 5 ELSE 6
    BY SMT, HooksAre, Sites DEF Closing
  <1>2. Install(h) \in Seq(Steps) /\ Len(Install(h)) = Closing(h) + 1
    BY InstallIs
  <1>. QED
    BY <1>1, <1>2

LEMMA InstallsPiece ==
  ASSUME NEW h \in Hooks, NEW s \in Seq(Steps), NEW o \in Nat, Piece(s, o, Install(h))
  PROVE  Installs(s, o + 1, h)
  <1>1. PICK t : t = Install(h)
    OBVIOUS
  <1>2. Len(t) = Closing(h) + 1 /\ Installs(t, 1, h)
    BY <1>1, InstallIs
  <1>3. \A n \in 1 .. Closing(h) + 1 : s[o + n] = t[n]
    BY <1>1, <1>2 DEF Piece
  <1>4. CASE Hook[h].vtable
    BY <1>2, <1>3, <1>4 DEF Installs, Closing
  <1>5. CASE ~Hook[h].vtable
    BY <1>2, <1>3, <1>5 DEF Installs, Closing
  <1>. QED
    BY <1>4, <1>5

\* What is in either of two sequences is in the two joined.
LEMMA PiecesStay ==
  ASSUME NEW s \in Seq(Steps), NEW t \in Seq(Steps)
  PROVE  /\ s \o t \in Seq(Steps) /\ Len(s \o t) = Len(s) + Len(t)
         /\ Piece(s \o t, Len(s), t)
         /\ \A u \in Seq(Steps), o \in Nat :
              /\ Piece(s, o, u) => Piece(s \o t, o, u)
              /\ Piece(t, o, u) => Piece(s \o t, Len(s) + o, u)
  <1>1. /\ s \o t \in Seq(Steps) /\ Len(s \o t) = Len(s) + Len(t)
        /\ Piece(s \o t, 0, s) /\ Piece(s \o t, Len(s), t) /\ Len(s) \in Nat
    BY Pieces
  <1>2. ASSUME NEW u \in Seq(Steps), NEW o \in Nat, Piece(s, o, u) PROVE Piece(s \o t, o, u)
    <2>1. PICK z \in Nat, q \in Nat : z = 0 /\ q = z + o /\ q = o
      OBVIOUS
    <2>2. Piece(s \o t, z + o, u)
      BY <1>1, <1>2, <2>1, PieceOfPiece
    <2>. QED
      BY <2>1, <2>2
  <1>3. ASSUME NEW u \in Seq(Steps), NEW o \in Nat, Piece(t, o, u)
        PROVE  Piece(s \o t, Len(s) + o, u)
    BY <1>1, <1>3, PieceOfPiece
  <1>. QED
    BY <1>1, <1>2, <1>3

LEMMA AddHandlerIs ==
  ASSUME NEW type \in {5, 7, 10}
  PROVE  AddHandler(type) \in Seq(Steps) /\ Len(AddHandler(type)) = 2
  <1>1. Op("add", type) \in Steps /\ Op("added", type) \in Steps
    BY DEF Steps
  <1>. QED
    BY <1>1 DEF AddHandler

LEMMA EmitterHooksAre ==
  /\ EmitterHooks \in Seq(Steps) /\ Len(EmitterHooks) = 26
  /\ Piece(EmitterHooks, 0, Install("emitter_register"))
  /\ Piece(EmitterHooks, 6, Install("emitter_destruct"))
  /\ Piece(EmitterHooks, 13, Install("render_emitter_register"))
  /\ Piece(EmitterHooks, 20, Install("render_emitter_destruct"))
  <1>1. PICK a, b, c, d : /\ a = Install("emitter_register") /\ b = Install("emitter_destruct")
                          /\ c = Install("render_emitter_register")
                          /\ d = Install("render_emitter_destruct")
    OBVIOUS
  <1>2. /\ a \in Seq(Steps) /\ Len(a) = 6 /\ b \in Seq(Steps) /\ Len(b) = 7
        /\ c \in Seq(Steps) /\ Len(c) = 7 /\ d \in Seq(Steps) /\ Len(d) = 6
    BY SMT, <1>1, InstallLengths, HooksAre
  <1>3. EmitterHooks = ((a \o b) \o c) \o d
    BY <1>1 DEF EmitterHooks
  <1>4. Piece(a, 0, a)
    BY <1>2 DEF Piece
  <1>5. PICK x : x = a \o b
    OBVIOUS
  <1>6. x \in Seq(Steps) /\ Len(x) = 13 /\ Piece(x, 0, a) /\ Piece(x, 6, b)
    <2>1. /\ a \o b \in Seq(Steps) /\ Len(a \o b) = Len(a) + Len(b)
          /\ Piece(a \o b, Len(a), b)
          /\ \A u \in Seq(Steps), o \in Nat :
               /\ Piece(a, o, u) => Piece(a \o b, o, u)
               /\ Piece(b, o, u) => Piece(a \o b, Len(a) + o, u)
      BY <1>2, <1>4, <1>5, PiecesStay
    <2>. QED
      BY <2>1, <1>2, <1>4, <1>5
  <1>7. PICK y : y = x \o c
    OBVIOUS
  <1>8. /\ y \in Seq(Steps) /\ Len(y) = 20 /\ Piece(y, 0, a) /\ Piece(y, 6, b)
        /\ Piece(y, 13, c)
    <2>1. /\ x \o c \in Seq(Steps) /\ Len(x \o c) = Len(x) + Len(c)
          /\ Piece(x \o c, Len(x), c)
          /\ \A u \in Seq(Steps), o \in Nat :
               /\ Piece(x, o, u) => Piece(x \o c, o, u)
               /\ Piece(c, o, u) => Piece(x \o c, Len(x) + o, u)
      BY <1>2, <1>6, <1>7, PiecesStay
    <2>. QED
      BY <2>1, <1>2, <1>6, <1>7
  <1>9. PICK z : z = y \o d
    OBVIOUS
  <1>10. /\ z \in Seq(Steps) /\ Len(z) = 26 /\ Piece(z, 0, a) /\ Piece(z, 6, b)
         /\ Piece(z, 13, c) /\ Piece(z, 20, d)
    <2>1. /\ y \o d \in Seq(Steps) /\ Len(y \o d) = Len(y) + Len(d)
          /\ Piece(y \o d, Len(y), d)
          /\ \A u \in Seq(Steps), o \in Nat :
               /\ Piece(y, o, u) => Piece(y \o d, o, u)
               /\ Piece(d, o, u) => Piece(y \o d, Len(y) + o, u)
      BY <1>2, <1>8, <1>9, PiecesStay
    <2>. QED
      BY <2>1, <1>2, <1>8, <1>9
  <1>11. EmitterHooks = z
    BY <1>3, <1>5, <1>7, <1>9
  <1>. QED
    BY <1>1, <1>10, <1>11

LEMMA EmittersSetupIs ==
  /\ emitters_setup \in Seq(Steps) /\ Len(emitters_setup) = 30
  /\ Piece(emitters_setup, 0, EmitterHooks)
  /\ Piece(emitters_setup, 26, AddHandler(5)) /\ Piece(emitters_setup, 28, AddHandler(7))
  <1>1. PICK a, b, c : a = EmitterHooks /\ b = AddHandler(5) /\ c = AddHandler(7)
    OBVIOUS
  <1>2. /\ a \in Seq(Steps) /\ Len(a) = 26 /\ b \in Seq(Steps) /\ Len(b) = 2
        /\ c \in Seq(Steps) /\ Len(c) = 2
    BY <1>1, EmitterHooksAre, AddHandlerIs
  <1>3. emitters_setup = (a \o b) \o c
    BY <1>1 DEF emitters_setup
  <1>4. Piece(a, 0, a)
    BY <1>2 DEF Piece
  <1>5. PICK x : x = a \o b
    OBVIOUS
  <1>6. x \in Seq(Steps) /\ Len(x) = 28 /\ Piece(x, 0, a) /\ Piece(x, 26, b)
    <2>1. /\ a \o b \in Seq(Steps) /\ Len(a \o b) = Len(a) + Len(b)
          /\ Piece(a \o b, Len(a), b)
          /\ \A u \in Seq(Steps), o \in Nat :
               /\ Piece(a, o, u) => Piece(a \o b, o, u)
               /\ Piece(b, o, u) => Piece(a \o b, Len(a) + o, u)
      BY <1>2, <1>4, <1>5, PiecesStay
    <2>. QED
      BY <2>1, <1>2, <1>4, <1>5
  <1>7. PICK y : y = x \o c
    OBVIOUS
  <1>8. /\ y \in Seq(Steps) /\ Len(y) = 30 /\ Piece(y, 0, a) /\ Piece(y, 26, b)
        /\ Piece(y, 28, c)
    <2>1. /\ x \o c \in Seq(Steps) /\ Len(x \o c) = Len(x) + Len(c)
          /\ Piece(x \o c, Len(x), c)
          /\ \A u \in Seq(Steps), o \in Nat :
               /\ Piece(x, o, u) => Piece(x \o c, o, u)
               /\ Piece(c, o, u) => Piece(x \o c, Len(x) + o, u)
      BY <1>2, <1>6, <1>7, PiecesStay
    <2>. QED
      BY <2>1, <1>2, <1>6, <1>7
  <1>9. emitters_setup = y
    BY <1>3, <1>5, <1>7
  <1>. QED
    BY <1>1, <1>8, <1>9

LEMMA BundlesSetupIs ==
  /\ bundles_setup \in Seq(Steps) /\ Len(bundles_setup) = 17
  /\ Piece(bundles_setup, 0, <<Op("depot", 0)>>)
  /\ Piece(bundles_setup, 1, Install("bundle_file_read_simple"))
  /\ Piece(bundles_setup, 8, Install("bundle_file_read_complex"))
  /\ Piece(bundles_setup, 15, AddHandler(10))
  <1>1. PICK a, b, c, d : /\ a = <<Op("depot", 0)>> /\ b = Install("bundle_file_read_simple")
                          /\ c = Install("bundle_file_read_complex") /\ d = AddHandler(10)
    OBVIOUS
  <1>2. Op("depot", 0) \in Steps
    BY DEF Steps
  <1>3. /\ a \in Seq(Steps) /\ Len(a) = 1 /\ d \in Seq(Steps) /\ Len(d) = 2
    <2>1. AddHandler(10) \in Seq(Steps) /\ Len(AddHandler(10)) = 2
      BY AddHandlerIs
    <2>2. <<Op("depot", 0)>> \in Seq(Steps) /\ Len(<<Op("depot", 0)>>) = 1
      BY <1>2
    <2>. QED
      BY <1>1, <2>1, <2>2
  <1>4. /\ b \in Seq(Steps) /\ Len(b) = 7 /\ c \in Seq(Steps) /\ Len(c) = 7
    BY SMT, <1>1, InstallLengths, HooksAre
  <1>5. bundles_setup = (a \o (b \o c)) \o d
    BY <1>1 DEF bundles_setup, BundleHooks
  <1>6. Piece(a, 0, a) /\ Piece(b, 0, b)
    BY <1>3, <1>4 DEF Piece
  <1>7. PICK x : x = b \o c
    OBVIOUS
  <1>8. x \in Seq(Steps) /\ Len(x) = 14 /\ Piece(x, 0, b) /\ Piece(x, 7, c)
    <2>1. /\ b \o c \in Seq(Steps) /\ Len(b \o c) = Len(b) + Len(c)
          /\ Piece(b \o c, Len(b), c)
          /\ \A u \in Seq(Steps), o \in Nat :
               /\ Piece(b, o, u) => Piece(b \o c, o, u)
               /\ Piece(c, o, u) => Piece(b \o c, Len(b) + o, u)
      BY <1>4, <1>6, <1>7, PiecesStay
    <2>. QED
      BY <2>1, <1>4, <1>6, <1>7
  <1>9. PICK y : y = a \o x
    OBVIOUS
  <1>10. /\ y \in Seq(Steps) /\ Len(y) = 15 /\ Piece(y, 0, a)
         /\ Piece(y, 1 + 0, b) /\ Piece(y, 1 + 7, c)
    <2>1. /\ a \o x \in Seq(Steps) /\ Len(a \o x) = Len(a) + Len(x)
          /\ Piece(a \o x, Len(a), x)
          /\ \A u \in Seq(Steps), o \in Nat :
               /\ Piece(a, o, u) => Piece(a \o x, o, u)
               /\ Piece(x, o, u) => Piece(a \o x, Len(a) + o, u)
      BY <1>3, <1>4, <1>6, <1>8, <1>9, PiecesStay
    <2>. QED
      BY <2>1, <1>3, <1>4, <1>6, <1>8, <1>9
  <1>11. PICK z : z = y \o d
    OBVIOUS
  <1>12. /\ z \in Seq(Steps) /\ Len(z) = 17 /\ Piece(z, 0, a) /\ Piece(z, 1, b)
         /\ Piece(z, 8, c) /\ Piece(z, 15, d)
    <2>1. /\ y \o d \in Seq(Steps) /\ Len(y \o d) = Len(y) + Len(d)
          /\ Piece(y \o d, Len(y), d)
          /\ \A u \in Seq(Steps), o \in Nat :
               /\ Piece(y, o, u) => Piece(y \o d, o, u)
               /\ Piece(d, o, u) => Piece(y \o d, Len(y) + o, u)
      BY <1>3, <1>4, <1>10, <1>11, PiecesStay
    <2>. QED
      BY <2>1, <1>3, <1>4, <1>10, <1>11
  <1>13. bundles_setup = z
    BY <1>5, <1>7, <1>9, <1>11
  <1>. QED
    BY <1>1, <1>12, <1>13

LEMMA InitializeModIs ==
  /\ InitializeMod \in Seq(Steps) /\ Len(InitializeMod) = 56
  /\ Piece(InitializeMod, 0, <<Op("start", 0), Op("search", 0)>>)
  /\ Piece(InitializeMod, 2, emitters_setup) /\ Piece(InitializeMod, 32, bundles_setup)
  /\ Piece(InitializeMod, 49, Install("loop"))
  <1>1. PICK a, b, c, d : /\ a = <<Op("start", 0), Op("search", 0)>> /\ b = emitters_setup
                          /\ c = bundles_setup /\ d = Install("loop")
    OBVIOUS
  <1>2. a \in Seq(Steps) /\ Len(a) = 2
    <2>1. Op("start", 0) \in Steps /\ Op("search", 0) \in Steps
      BY DEF Steps
    <2>2. /\ <<Op("start", 0), Op("search", 0)>> \in Seq(Steps)
          /\ Len(<<Op("start", 0), Op("search", 0)>>) = 2
      BY <2>1
    <2>. QED
      BY <1>1, <2>2
  <1>3. /\ b \in Seq(Steps) /\ Len(b) = 30 /\ c \in Seq(Steps) /\ Len(c) = 17
        /\ d \in Seq(Steps) /\ Len(d) = 7
    BY SMT, <1>1, EmittersSetupIs, BundlesSetupIs, InstallLengths, HooksAre
  <1>4. InitializeMod = ((a \o b) \o c) \o d
    BY <1>1 DEF InitializeMod
  <1>5. Piece(a, 0, a)
    BY <1>2 DEF Piece
  <1>6. PICK x : x = a \o b
    OBVIOUS
  <1>7. x \in Seq(Steps) /\ Len(x) = 32 /\ Piece(x, 0, a) /\ Piece(x, 2, b)
    <2>1. /\ a \o b \in Seq(Steps) /\ Len(a \o b) = Len(a) + Len(b)
          /\ Piece(a \o b, Len(a), b)
          /\ \A u \in Seq(Steps), o \in Nat :
               /\ Piece(a, o, u) => Piece(a \o b, o, u)
               /\ Piece(b, o, u) => Piece(a \o b, Len(a) + o, u)
      BY <1>2, <1>3, <1>5, PiecesStay
    <2>. QED
      BY <2>1, <1>6, <1>2, <1>3, <1>5
  <1>8. PICK y : y = x \o c
    OBVIOUS
  <1>9. /\ y \in Seq(Steps) /\ Len(y) = 49 /\ Piece(y, 0, a) /\ Piece(y, 2, b)
        /\ Piece(y, 32, c)
    <2>1. /\ x \o c \in Seq(Steps) /\ Len(x \o c) = Len(x) + Len(c)
          /\ Piece(x \o c, Len(x), c)
          /\ \A u \in Seq(Steps), o \in Nat :
               /\ Piece(x, o, u) => Piece(x \o c, o, u)
               /\ Piece(c, o, u) => Piece(x \o c, Len(x) + o, u)
      BY <1>2, <1>3, <1>7, PiecesStay
    <2>. QED
      BY <2>1, <1>8, <1>2, <1>3, <1>7
  <1>10. PICK z : z = y \o d
    OBVIOUS
  <1>11. /\ z \in Seq(Steps) /\ Len(z) = 56 /\ Piece(z, 0, a) /\ Piece(z, 2, b)
         /\ Piece(z, 32, c) /\ Piece(z, 49, d)
    <2>1. /\ y \o d \in Seq(Steps) /\ Len(y \o d) = Len(y) + Len(d)
          /\ Piece(y \o d, Len(y), d)
          /\ \A u \in Seq(Steps), o \in Nat :
               /\ Piece(y, o, u) => Piece(y \o d, o, u)
               /\ Piece(d, o, u) => Piece(y \o d, Len(y) + o, u)
      BY <1>2, <1>3, <1>9, PiecesStay
    <2>. QED
      BY <2>1, <1>10, <1>2, <1>3, <1>9
  <1>12. InitializeMod = z
    BY <1>4, <1>6, <1>8, <1>10
  <1>. QED
    BY <1>1, <1>11, <1>12

\* InitializeMod as a table.
LEMMA Program ==
  /\ Len(InitializeMod) = 56
  /\ InitializeMod[1] = Op("start", 0) /\ InitializeMod[2] = Op("search", 0)
  /\ InitializeMod[29] = Op("add", 5) /\ InitializeMod[30] = Op("added", 5)
  /\ InitializeMod[31] = Op("add", 7) /\ InitializeMod[32] = Op("added", 7)
  /\ InitializeMod[33] = Op("depot", 0)
  /\ InitializeMod[48] = Op("add", 10) /\ InitializeMod[49] = Op("added", 10)
  /\ \A h \in Hooks : Installs(InitializeMod, Begins[h], h)
  <1>1. PICK p : p = InitializeMod
    OBVIOUS
  <1>2. p \in Seq(Steps) /\ Len(p) = 56
    BY <1>1, InitializeModIs
  <1>3. /\ Piece(p, 0, <<Op("start", 0), Op("search", 0)>>) /\ Piece(p, 2, emitters_setup)
        /\ Piece(p, 32, bundles_setup) /\ Piece(p, 49, Install("loop"))
    BY <1>1, InitializeModIs
  <1>4. \A t, u \in Seq(Steps), o, q, r \in Nat :
          r = o + q /\ Piece(p, o, t) /\ Piece(t, q, u) => Piece(p, r, u)
    BY <1>2, PieceOfPiece
  <1>5. /\ Piece(p, 2, EmitterHooks)
        /\ Piece(p, 28, AddHandler(5)) /\ Piece(p, 30, AddHandler(7))
    <2>1. /\ emitters_setup \in Seq(Steps) /\ EmitterHooks \in Seq(Steps)
          /\ AddHandler(5) \in Seq(Steps) /\ AddHandler(7) \in Seq(Steps)
      BY EmittersSetupIs, EmitterHooksAre, AddHandlerIs
    <2>. QED
      BY <1>3, <1>4, <2>1, EmittersSetupIs
  <1>6. /\ Piece(p, 32, <<Op("depot", 0)>>)
        /\ Piece(p, 33, Install("bundle_file_read_simple"))
        /\ Piece(p, 40, Install("bundle_file_read_complex"))
        /\ Piece(p, 47, AddHandler(10))
    <2>1. Op("depot", 0) \in Steps
      BY DEF Steps
    <2>2. /\ bundles_setup \in Seq(Steps) /\ <<Op("depot", 0)>> \in Seq(Steps)
          /\ Install("bundle_file_read_simple") \in Seq(Steps)
          /\ Install("bundle_file_read_complex") \in Seq(Steps)
          /\ AddHandler(10) \in Seq(Steps)
      BY <2>1, BundlesSetupIs, InstallIs, AddHandlerIs, HooksAre
    <2>3. PICK a : a = <<Op("depot", 0)>>
      OBVIOUS
    <2>4. Piece(p, 32, a)
      <3>1. a \in Seq(Steps) /\ Piece(bundles_setup, 0, a)
        BY <2>2, <2>3, BundlesSetupIs
      <3>. QED
        BY <1>3, <1>4, <2>2, <3>1
    <2>5. /\ Piece(p, 33, Install("bundle_file_read_simple"))
          /\ Piece(p, 40, Install("bundle_file_read_complex"))
          /\ Piece(p, 47, AddHandler(10))
      BY <1>3, <1>4, <2>2, BundlesSetupIs
    <2>. QED
      BY <2>3, <2>4, <2>5
  <1>7. /\ Piece(p, 2, Install("emitter_register")) /\ Piece(p, 8, Install("emitter_destruct"))
        /\ Piece(p, 15, Install("render_emitter_register"))
        /\ Piece(p, 22, Install("render_emitter_destruct"))
    <2>1. /\ EmitterHooks \in Seq(Steps) /\ \A h \in Hooks : Install(h) \in Seq(Steps)
      BY EmitterHooksAre, InstallIs
    <2>. QED
      BY <1>4, <1>5, <2>1, EmitterHooksAre, HooksAre
  <1>8. p[1] = Op("start", 0) /\ p[2] = Op("search", 0)
    <2>1. p[0 + 1] = Op("start", 0) /\ p[0 + 2] = Op("search", 0)
      BY <1>3 DEF Piece
    <2>. QED
      BY <2>1
  <1>9. /\ p[29] = Op("add", 5) /\ p[30] = Op("added", 5)
        /\ p[31] = Op("add", 7) /\ p[32] = Op("added", 7)
    <2>1. /\ p[28 + 1] = Op("add", 5) /\ p[28 + 2] = Op("added", 5)
          /\ p[30 + 1] = Op("add", 7) /\ p[30 + 2] = Op("added", 7)
      BY <1>5 DEF Piece, AddHandler
    <2>. QED
      BY <2>1
  <1>10. p[33] = Op("depot", 0) /\ p[48] = Op("add", 10) /\ p[49] = Op("added", 10)
    <2>1. p[32 + 1] = Op("depot", 0) /\ p[47 + 1] = Op("add", 10) /\ p[47 + 2] = Op("added", 10)
      BY <1>6 DEF Piece, AddHandler
    <2>. QED
      BY <2>1
  <1>11. ASSUME NEW h \in Hooks PROVE Installs(p, Begins[h], h)
    <2>1. \A o \in Nat : Piece(p, o, Install(h)) => Installs(p, o + 1, h)
      BY <1>2, InstallsPiece
    <2>2. PICK o \in Nat : Begins[h] = o + 1 /\ Piece(p, o, Install(h))
      BY SMT, <1>3, <1>6, <1>7, HooksAre DEF Begins
    <2>. QED
      BY <2>1, <2>2
  <1>. QED
    BY <1>1, <1>2, <1>8, <1>9, <1>10, <1>11

\* Where the Installs are among the steps.
LEMMA Layout ==
  /\ \A h \in Hooks : /\ Begins[h] \in 3 .. 50 /\ Closing(h) \in {5, 6}
                      /\ Hook[h].vtable <=> Closing(h) = 5
                      /\ Begins[h] + Closing(h) <= 56
                      /\ \A k \in {29, 30, 31, 32, 33, 48, 49} : k - Begins[h] \notin 0 .. Closing(h)
  /\ \A g, h \in Hooks : g # h => \/ Begins[g] + Closing(g) < Begins[h]
                                  \/ Begins[h] + Closing(h) < Begins[g]
  /\ \A k \in 1 .. 56 : \/ k \in {1, 2, 29, 30, 31, 32, 33, 48, 49}
                        \/ \E h \in Hooks : k - Begins[h] \in 0 .. Closing(h)
  <1>1. /\ Closing("emitter_register") = 5 /\ Closing("emitter_destruct") = 6
        /\ Closing("render_emitter_register") = 6 /\ Closing("render_emitter_destruct") = 5
        /\ Closing("bundle_file_read_simple") = 6 /\ Closing("bundle_file_read_complex") = 6
        /\ Closing("loop") = 6
    BY SMT, Sites DEF Closing
  <1>2. \A h \in Hooks : Hook[h].vtable <=> Closing(h) = 5
    BY SMT DEF Closing
  <1>3. \A h \in Hooks : /\ Begins[h] \in 3 .. 50 /\ Closing(h) \in {5, 6}
                         /\ Begins[h] + Closing(h) <= 56
                         /\ \A k \in {29, 30, 31, 32, 33, 48, 49} :
                              k - Begins[h] \notin 0 .. Closing(h)
    BY SMT, <1>1, HooksAre DEF Begins
  <1>4. \A g, h \in Hooks : g # h => \/ Begins[g] + Closing(g) < Begins[h]
                                     \/ Begins[h] + Closing(h) < Begins[g]
    BY SMT, <1>1, HooksAre DEF Begins
  <1>5. ASSUME NEW k \in 1 .. 56
        PROVE  \/ k \in {1, 2, 29, 30, 31, 32, 33, 48, 49}
               \/ \E h \in Hooks : k - Begins[h] \in 0 .. Closing(h)
    <2>1. /\ k \in 3 .. 8 => k - Begins["emitter_register"] \in 0 .. 5
          /\ k \in 9 .. 15 => k - Begins["emitter_destruct"] \in 0 .. 6
          /\ k \in 16 .. 22 => k - Begins["render_emitter_register"] \in 0 .. 6
          /\ k \in 23 .. 28 => k - Begins["render_emitter_destruct"] \in 0 .. 5
          /\ k \in 34 .. 40 => k - Begins["bundle_file_read_simple"] \in 0 .. 6
          /\ k \in 41 .. 47 => k - Begins["bundle_file_read_complex"] \in 0 .. 6
          /\ k \in 50 .. 56 => k - Begins["loop"] \in 0 .. 6
      BY SMT DEF Begins
    <2>2. \/ k \in {1, 2, 29, 30, 31, 32, 33, 48, 49}
          \/ k \in 3 .. 8 \/ k \in 9 .. 15 \/ k \in 16 .. 22 \/ k \in 23 .. 28
          \/ k \in 34 .. 40 \/ k \in 41 .. 47 \/ k \in 50 .. 56
      BY SMT
    <2>. QED
      BY SMT, <1>1, <2>1, <2>2, HooksAre
  <1>. QED
    BY <1>2, <1>3, <1>4, <1>5

LEMMA BeginsIn ==
  \A h \in Hooks : Begins[h] \in Nat /\ Begins[h] >= 3 /\ Begins[h] <= 50
  BY SMTT(30), Layout

LEMMA ClosingIn == \A h \in Hooks : Closing(h) \in {5, 6}
  BY Layout

LEMMA OpIs == \A op, arg, op2, arg2 : Op(op, arg) = Op(op2, arg2) => op = op2 /\ arg = arg2
  BY DEF Op

\* What the step of an operation is.
LEMMA StepIs ==
  ASSUME NEW k \in 1 .. 56, NEW h, NEW op, InitializeMod[k] = Op(op, h)
  PROVE  /\ op = "start" => k = 1
         /\ op = "search" => k = 2
         /\ op = "depot" => k = 33
         /\ op = "add" => <<k, h>> \in {<<29, 5>>, <<31, 7>>, <<48, 10>>}
         /\ op = "added" => <<k, h>> \in {<<30, 5>>, <<32, 7>>, <<49, 10>>}
         /\ op \in {"reserve", "emit", "modify", "opcode", "target", "leave"} =>
              /\ h \in Hooks
              /\ op = "reserve" => k = Begins[h]
              /\ op = "emit" => k = Begins[h] + 1
              /\ op = "modify" => k = Begins[h] + 2
              /\ op = "opcode" => k = Begins[h] + 3 /\ ~Hook[h].vtable
              /\ op = "target" => k = Begins[h] + (IF Hook[h].vtable THEN 3 ELSE 4)
              /\ op = "leave" => k - Begins[h] \in {Closing(h) - 1, Closing(h)}
  <1>1. CASE k \in {1, 2, 29, 30, 31, 32, 33, 48, 49}
    BY <1>1, Program DEF Op
  <1>2. CASE \E g \in Hooks : k - Begins[g] \in 0 .. Closing(g)
    <2>1. PICK g \in Hooks : k - Begins[g] \in 0 .. Closing(g)
      BY <1>2
    <2>2. PICK b \in Nat, c \in {5, 6} : b = Begins[g] /\ c = Closing(g)
      BY <2>1, Layout
    <2>3. PICK n \in Nat : n <= c /\ k = b + n
      <3>1. k - b \in 0 .. c
        BY <2>1, <2>2
      <3>. QED
        BY <2>2, <3>1
    <2>4. PICK s : s = InitializeMod /\ Installs(s, b, g)
      BY <2>2, Program
    <2>5. Hook[g].vtable <=> c = 5
      BY <2>1, <2>2, Layout
    <2>6. s[b + n] = Op(op, h)
      BY <2>3, <2>4
    <2>7. CASE c = 5
      <3>1. n \in {0, 1, 2, 3, 4, 5}
        BY <2>3, <2>7
      <3>2. /\ s[b + 0] = Op("reserve", g) /\ s[b + 1] = Op("emit", g)
            /\ s[b + 2] = Op("modify", g) /\ s[b + 3] = Op("target", g)
            /\ s[b + 4] = Op("leave", g) /\ s[b + 5] = Op("leave", g)
        BY <2>2, <2>4, <2>5, <2>7 DEF Installs
      <3>3. PICK a : a = s[b + n]
        OBVIOUS
      <3>4. a = Op(op, h)
        BY <2>6, <3>3
      <3>5. /\ n = 0 => a = Op("reserve", g)
            /\ n = 1 => a = Op("emit", g)
            /\ n = 2 => a = Op("modify", g)
            /\ n = 3 => a = Op("target", g)
            /\ n = 4 => a = Op("leave", g)
            /\ n = 5 => a = Op("leave", g)
        BY <3>2, <3>3
      <3>6. h = g
        BY <3>1, <3>4, <3>5, OpIs
      <3>7. /\ n = 0 => op = "reserve"
            /\ n = 1 => op = "emit"
            /\ n = 2 => op = "modify"
            /\ n = 3 => op = "target"
            /\ n = 4 => op = "leave"
            /\ n = 5 => op = "leave"
        BY <3>4, <3>5, OpIs
      <3>8. b = Begins[h] /\ c = Closing(h) /\ h \in Hooks
        BY <2>1, <2>2, <3>6
      <3>9. Hook[h].vtable <=> c = 5
        BY <2>5, <3>6
      <3>. QED
        BY SMT, <2>3, <2>7, <3>1, <3>8, <3>9, <3>7
    <2>8. CASE c = 6
      <3>1. n \in {0, 1, 2, 3, 4, 5, 6}
        BY <2>3, <2>8
      <3>2. /\ s[b + 0] = Op("reserve", g) /\ s[b + 1] = Op("emit", g)
            /\ s[b + 2] = Op("modify", g) /\ s[b + 3] = Op("opcode", g)
            /\ s[b + 4] = Op("target", g)
            /\ s[b + 5] = Op("leave", g) /\ s[b + 6] = Op("leave", g)
        BY <2>2, <2>4, <2>5, <2>8 DEF Installs
      <3>3. PICK a : a = s[b + n]
        OBVIOUS
      <3>4. a = Op(op, h)
        BY <2>6, <3>3
      <3>5. /\ n = 0 => a = Op("reserve", g)
            /\ n = 1 => a = Op("emit", g)
            /\ n = 2 => a = Op("modify", g)
            /\ n = 3 => a = Op("opcode", g)
            /\ n = 4 => a = Op("target", g)
            /\ n = 5 => a = Op("leave", g)
            /\ n = 6 => a = Op("leave", g)
        BY <3>2, <3>3
      <3>6. h = g
        BY <3>1, <3>4, <3>5, OpIs
      <3>7. /\ n = 0 => op = "reserve"
            /\ n = 1 => op = "emit"
            /\ n = 2 => op = "modify"
            /\ n = 3 => op = "opcode"
            /\ n = 4 => op = "target"
            /\ n = 5 => op = "leave"
            /\ n = 6 => op = "leave"
        BY <3>4, <3>5, OpIs
      <3>8. b = Begins[h] /\ c = Closing(h) /\ h \in Hooks
        BY <2>1, <2>2, <3>6
      <3>9. Hook[h].vtable <=> c = 5
        BY <2>5, <3>6
      <3>. QED
        BY SMT, <2>3, <2>8, <3>1, <3>8, <3>9, <3>7
    <2>. QED
      BY <2>2, <2>7, <2>8
  <1>. QED
    BY <1>1, <1>2, Layout

\* How much is reserved.
LEMMA UsedIs ==
  /\ \A h \in Hooks : /\ Used(Begins[h]) \in Nat /\ Used(Begins[h]) + ReserveSize <= Granule
                      /\ Used(Begins[h] + 1) = Used(Begins[h]) + ReserveSize
  /\ \A g, h \in Hooks : Used(Begins[g]) = Used(Begins[h]) => g = h
  /\ \A k \in 0 .. 56 : (\A h \in Hooks : k # Begins[h]) => Used(k + 1) = Used(k)
  /\ \A k \in 0 .. 57 : Used(k) \in Nat
  <1>1. ReserveSize \in Nat /\ ReserveSize > 0 /\ 7 * ReserveSize <= Granule
    BY InitializationAssumption
  <1>2. \A h \in Hooks : /\ Used(Begins[h]) \in Nat /\ Used(Begins[h]) + ReserveSize <= Granule
                         /\ Used(Begins[h] + 1) = Used(Begins[h]) + ReserveSize
    BY SMT, <1>1, HooksAre DEF Used, Begins, Granule
  <1>3. \A g, h \in Hooks : Used(Begins[g]) = Used(Begins[h]) => g = h
    BY SMT, <1>1, HooksAre DEF Used, Begins
  <1>4. \A k \in 0 .. 56 : (\A h \in Hooks : k # Begins[h]) => Used(k + 1) = Used(k)
    BY SMT, <1>1, HooksAre DEF Used, Begins
  <1>5. \A k \in 0 .. 57 : Used(k) \in Nat
    BY SMT, <1>1 DEF Used
  <1>. QED
    BY <1>2, <1>3, <1>4, <1>5

LEMMA StageStays ==
  ASSUME NEW h \in Hooks, NEW k \in Nat, k # Begins[h] + 3,
         k = Begins[h] + 4 => Hook[h].vtable
  PROVE  Stage(h, k + 1) = Stage(h, k)
  <1>1. PICK b \in Nat : b = Begins[h]
    BY Layout
  <1>2. /\ k < b + 4 <=> k + 1 < b + 4
        /\ k + 1 # b + 4 /\ (k = b + 4 => Hook[h].vtable)
    BY <1>1
  <1>. QED
    BY <1>1, <1>2 DEF Stage

\* A hook that is live stays so.
LEMMA StageGrows ==
  ASSUME NEW h \in Hooks, NEW k \in Nat, Stage(h, k) = "hook"
  PROVE  Stage(h, k + 1) = "hook" /\ k >= Begins[h] + 4
  <1>1. PICK b \in Nat : b = Begins[h]
    BY Layout
  <1>2. k >= b + 4 /\ k + 1 > b + 4
    BY <1>1 DEF Stage
  <1>. QED
    BY <1>1, <1>2 DEF Stage

-----------------------------------------------------------------------------
(* The pages of the space and those of the image.                             *)

LEMMA PageOf ==
  ASSUME NEW i \in Nat, NEW o \in Nat, o < 65536
  PROVE  /\ -(i * 65536) + o \in Int
         /\ (-(i * 65536) + o) \div 4096 = -(16 * i) + (o \div 4096)
         /\ o \div 4096 \in Nat /\ o \div 4096 <= 15
  BY SMT

LEMMA SpaceIs ==
  ASSUME tried \in Nat, 1 <= tried
  PROVE  /\ SpacePages \subseteq Int /\ \A a \in SpacePages : a < 0
         /\ \A h \in Hooks : Slot(h) \in Int /\ Page(Slot(h)) \in SpacePages
         /\ \A g, h \in Hooks : Slot(g) = Slot(h) => g = h
  <1>1. PICK i \in Nat : i = tried /\ 1 <= i /\ Space = -(i * 65536)
    BY DEF Space, Candidate, Granule
  <1>2. SpacePages = -(16 * i) .. -(16 * i) + 15
    <2>1. Page(Space) = -(16 * i)
      <3>1. (-(i * 65536) + 0) \div 4096 = -(16 * i) + (0 \div 4096)
        BY SMT
      <3>. QED
        BY SMT, <1>1, <3>1 DEF Page, PageSize
    <2>2. Page(Space + Granule - 1) = -(16 * i) + 15
      BY SMT, <1>1 DEF Page, PageSize, Granule
    <2>. QED
      BY <2>1, <2>2 DEF SpacePages
  <1>3. SpacePages \subseteq Int /\ \A a \in SpacePages : a < 0
    BY <1>1, <1>2
  <1>4. ASSUME NEW h \in Hooks PROVE Slot(h) \in Int /\ Page(Slot(h)) \in SpacePages
    <2>1. PICK o \in Nat : o = Used(Begins[h]) /\ o < 65536
      BY SMT, UsedIs, InitializationAssumption DEF Granule
    <2>2. Slot(h) = -(i * 65536) + o
      BY <1>1, <2>1 DEF Slot
    <2>3. Page(Slot(h)) = -(16 * i) + (o \div 4096)
      BY SMT, <2>1, <2>2, PageOf DEF Page, PageSize
    <2>. QED
      BY <1>2, <2>1, <2>2, <2>3, PageOf
  <1>5. ASSUME NEW g \in Hooks, NEW h \in Hooks, Slot(g) = Slot(h) PROVE g = h
    <2>1. PICK o \in Nat, q \in Nat : o = Used(Begins[g]) /\ q = Used(Begins[h])
      BY UsedIs
    <2>2. Slot(g) = -(i * 65536) + o /\ Slot(h) = -(i * 65536) + q
      BY <1>1, <2>1 DEF Slot
    <2>3. PICK x \in Int, y \in Int : x = -(i * 65536) + o /\ y = -(i * 65536) + q
      BY SMT
    <2>4. x = y
      <3>1. Slot(g) = x
        BY <2>2, <2>3
      <3>2. Slot(h) = y
        BY <2>2, <2>3
      <3>. QED
        BY <1>5, <3>1, <3>2
    <2>5. o = q
      BY SMT, <2>3, <2>4
    <2>. QED
      BY <2>1, <2>5, UsedIs
  <1>. QED
    BY <1>3, <1>4, <1>5

\* The image's pages count from zero, and those of a space from below.
LEMMA PagesApart ==
  /\ \A a \in Pages : a \in Int /\ a >= 0
  /\ \A h \in Hooks : Page(Hook[h].site) \in Pages /\ Page(Hook[h].resume) \in Pages
  /\ tried \in Nat /\ 1 <= tried => SpacePages \cap Pages = {}
  <1>1. ASSUME NEW h \in Hooks
        PROVE  /\ Page(Hook[h].site) \in Int /\ Page(Hook[h].site) >= 0
               /\ Page(Hook[h].resume) \in Int /\ Page(Hook[h].resume) >= 0
    <2>1. PICK x \in Nat, y \in Nat : x = Hook[h].site /\ y = Hook[h].resume
      BY Places
    <2>2. x \div 4096 \in Int /\ x \div 4096 >= 0 /\ y \div 4096 \in Int /\ y \div 4096 >= 0
      BY SMT
    <2>. QED
      BY <2>1, <2>2 DEF Page, PageSize
  <1>2. \A a \in Pages : a \in Int /\ a >= 0
    BY <1>1 DEF Pages
  <1>3. \A h \in Hooks : Page(Hook[h].site) \in Pages /\ Page(Hook[h].resume) \in Pages
    BY DEF Pages
  <1>4. ASSUME tried \in Nat, 1 <= tried PROVE SpacePages \cap Pages = {}
    <2>1. \A a \in SpacePages : a \in Int /\ a < 0
      BY <1>4, SpaceIs
    <2>. QED
      BY <1>2, <2>1
  <1>. QED
    BY <1>2, <1>3, <1>4

\* The jump at a live site leads to the hook's place in the space.
LEMMA TargetIs ==
  ASSUME tried \in Nat, 1 <= tried, tried <= Tries, NEW h \in Hooks,
         entry[h].to = Destination(h)
  PROVE  Target(h) = Slot(h)
  <1>1. CASE Hook[h].vtable
    BY <1>1 DEF Target, Destination
  <1>2. CASE ~Hook[h].vtable
    <2>1. PICK o \in Nat : o = Used(Begins[h]) /\ o < Granule
      BY SMT, UsedIs, InitializationAssumption DEF Granule
    <2>2. PICK s \in Nat : s = Hook[h].site + 1 /\ s <= 16384 * 65536
      BY SMT, Places
    <2>3. Slot(h) = Candidate(tried) + o
      BY <2>1 DEF Slot, Space
    <2>4. Follow(s, Offset32(s, Candidate(tried) + o)) = Candidate(tried) + o
      BY <2>1, <2>2, WrappersInReach
    <2>. QED
      BY <1>2, <2>2, <2>3, <2>4 DEF Target, Destination
  <1>. QED
    BY <1>1, <1>2

-----------------------------------------------------------------------------
(* What a step of InitializeMod keeps when it does not touch it.              *)

LEMMA DoingIs ==
  ASSUME NEW op, Doing(op)
  PROVE  pc \in 1 .. 56 /\ InitializeMod[pc] = Op(op, Arg) /\ pc \in Nat
  <1>1. pc \in 1 .. 56 /\ InitializeMod[pc].op = op /\ Len(InitializeMod) = 56
    BY Program DEF Doing
  <1>2. InitializeMod \in Seq(Steps)
    BY InitializeModIs
  <1>3. PICK i : i = InitializeMod[pc]
    OBVIOUS
  <1>4. i \in Steps
    BY <1>1, <1>2, <1>3, ElementOfSeq
  <1>5. i = Op(i.op, i.arg)
    BY <1>4 DEF Steps, Op
  <1>. QED
    BY <1>1, <1>3, <1>5 DEF Arg

\* During one Install no other is under way and no other step is due.
LEMMA OnlyOne ==
  ASSUME NEW h \in Hooks, NEW k \in Nat, k - Begins[h] \in 0 .. Closing(h)
  PROVE  /\ k \in 3 .. 56 /\ k \notin {29, 30, 31, 32, 33, 48, 49}
         /\ \A g \in Hooks : g # h => /\ k - Begins[g] \notin 0 .. Closing(g)
                                      /\ k - Begins[g] \notin {0, 1, 2, 3, 4}
                                      /\ k + 1 - Begins[g] \notin 1 .. Closing(g)
  <1>1. PICK b \in Nat, c \in {5, 6} : b = Begins[h] /\ c = Closing(h) /\ b >= 3 /\ b + c <= 56
    BY Layout
  <1>2. k \in 3 .. 56
    BY <1>1
  <1>3. k \notin {29, 30, 31, 32, 33, 48, 49}
    BY Layout
  <1>4. ASSUME NEW g \in Hooks, g # h
        PROVE  /\ k - Begins[g] \notin 0 .. Closing(g)
               /\ k - Begins[g] \notin {0, 1, 2, 3, 4}
               /\ k + 1 - Begins[g] \notin 1 .. Closing(g)
    <2>1. PICK d \in Nat, e \in {5, 6} : d = Begins[g] /\ e = Closing(g)
      BY Layout
    <2>2. b + c < d \/ d + e < b
      BY <1>1, <1>4, <2>1, Layout
    <2>3. k >= b /\ k <= b + c
      BY <1>1
    <2>. QED
      BY SMT, <2>1, <2>2, <2>3
  <1>. QED
    BY <1>2, <1>3, <1>4

LEMMA TableKept ==
  ASSUME TableRight, pc \in 1 .. 56, pc \notin {29, 30, 31, 32, 33, 48, 49},
         pc' = pc + 1, UNCHANGED <<static_depot_pointer, table>>
  PROVE  TableRight'
  BY DEF TableRight, table

LEMMA GameKept ==
  ASSUME GameRight, pc \in 1 .. 56, pc' \in {pc, pc + 1} \/ (pc = 2 /\ pc' = 0),
         UNCHANGED <<path, game>>
  PROVE  GameRight'
  <1>1. ~Done
    BY Program DEF Done
  <1>2. UNCHANGED <<path, depot, engine, tracked>>
    BY DEF game
  <1>3. ASSUME NEW t \in Engine, engine[t].at \in {"wrapper", "return"}
        PROVE  Stage(engine[t].hook, pc') = "hook"
    <2>1. PICK h \in Hooks, k \in Nat : h = engine[t].hook /\ k = pc
      BY DEF GameRight
    <2>2. Stage(h, k) = "hook"
      BY <1>3, <2>1 DEF GameRight
    <2>3. Stage(h, k + 1) = "hook" /\ k >= Begins[h] + 4 /\ Begins[h] >= 3
      BY <2>2, StageGrows, BeginsIn
    <2>4. pc' = k \/ pc' = k + 1
      BY <2>1, <2>3, BeginsIn
    <2>. QED
      BY <2>1, <2>2, <2>3, <2>4
  <1>. QED
    BY <1>1, <1>2, <1>3 DEF GameRight

LEMMA PeersKept ==
  ASSUME PeersRight, pc \in 1 .. 56, static_depot_pointer => static_depot_pointer', UNCHANGED peer
  PROVE  PeersRight'
  <1>1. ~Done
    BY Program DEF Done
  <1>. QED
    BY <1>1 DEF PeersRight

LEMMA EntriesKept ==
  ASSUME EntriesRight, pc \in 1 .. 56, pc' = pc + 1, UNCHANGED <<tried, entry>>,
         \A h \in Hooks : /\ pc - Begins[h] # 3
                          /\ pc - Begins[h] = 4 => Hook[h].vtable
  PROVE  EntriesRight'
  <1>1. PICK k \in Nat : k = pc
    OBVIOUS
  <1>2. \A h \in Hooks : Stage(h, k + 1) = Stage(h, k)
    <2>. SUFFICES ASSUME NEW h \in Hooks PROVE Stage(h, k + 1) = Stage(h, k)
      OBVIOUS
    <2>1. PICK b \in Nat : b = Begins[h] /\ k # b + 3 /\ (k = b + 4 => Hook[h].vtable)
      BY <1>1, BeginsIn
    <2>. QED
      BY <2>1, StageStays
  <1>3. \A h \in Hooks : Destination(h)' = Destination(h)
    BY DEF Slot, Space, Destination
  <1>. QED
    BY <1>1, <1>2, <1>3 DEF EntriesRight

LEMMA SlotsKept ==
  ASSUME SlotsRight, pc \in 1 .. 56, pc' = pc + 1, UNCHANGED <<tried, slots>>,
         \A h \in Hooks : pc - Begins[h] # 1
  PROVE  SlotsRight'
  <1>1. PICK k \in Nat : k = pc
    OBVIOUS
  <1>2. \A h \in Hooks : Slot(h)' = Slot(h)
    BY DEF Slot, Space
  <1>3. \A h \in Hooks : k + 1 >= Begins[h] + 2 => k >= Begins[h] + 2
    BY <1>1, BeginsIn
  <1>. QED
    BY <1>1, <1>2, <1>3 DEF SlotsRight

LEMMA UnusedKept ==
  ASSUME unused = Used(pc), pc \in 1 .. 56, pc' = pc + 1, UNCHANGED unused,
         \A h \in Hooks : pc - Begins[h] # 0
  PROVE  (unused = Used(pc))'
  <1>1. PICK k \in Nat : k = pc
    OBVIOUS
  <1>2. \A h \in Hooks : k # Begins[h]
    BY <1>1, BeginsIn
  <1>3. Used(k + 1) = Used(k)
    BY <1>1, <1>2, UsedIs
  <1>. QED
    BY <1>1, <1>3

\* Between the Installs nothing about the hooks changes.
LEMMA HooksKept ==
  ASSUME HooksRight, pc \in {1, 2, 29, 30, 31, 32, 33, 48, 49}, pc' = pc + 1,
         UNCHANGED <<tried, unused, slots, entry>>
  PROVE  HooksRight'
  <1>1. PICK k \in Nat : k = pc /\ k \in 1 .. 56
    OBVIOUS
  <1>2. \A h \in Hooks : k - Begins[h] \notin {0, 1, 3, 4}
    <2>. SUFFICES ASSUME NEW h \in Hooks PROVE k - Begins[h] \notin {0, 1, 3, 4}
      OBVIOUS
    <2>1. PICK b \in Nat, c \in {5, 6} : b = Begins[h] /\ c = Closing(h) /\ b >= 3
      BY BeginsIn, ClosingIn
    <2>2. CASE k \in {1, 2}
      BY SMT, <2>1, <2>2
    <2>3. CASE k \in {29, 30, 31, 32, 33, 48, 49}
      <3>1. k - b \notin 0 .. c
        BY <2>1, <2>3, Layout
      <3>. QED
        BY SMT, <2>1, <3>1
    <2>. QED
      BY <1>1, <2>2, <2>3
  <1>3. EntriesRight'
    BY <1>1, <1>2, EntriesKept DEF HooksRight
  <1>4. SlotsRight'
    BY <1>1, <1>2, SlotsKept DEF HooksRight
  <1>5. (unused = Used(pc))'
    BY <1>1, <1>2, UnusedKept DEF HooksRight
  <1>. QED
    BY <1>3, <1>4, <1>5 DEF HooksRight

LEMMA SearchKept ==
  ASSUME SearchRight, pc > 2, pc <= 56, pc' = pc + 1, UNCHANGED <<path, base, vacant, tried>>
  PROVE  SearchRight'
  BY DEF SearchRight

-----------------------------------------------------------------------------
(* Scopes and the protection of pages.                                        *)

LEMMA ToSetIs ==
  /\ ToSet(<<>>) = {}
  /\ \A c : ToSet(<<c>>) = {c}
  /\ \A c, d : ToSet(<<c, d>>) = {c, d}
  BY DEF ToSet

\* Two sequences of one element, joined.
LEMMA Joined == \A c, d : <<c>> \o <<>> = <<c>> /\ <<c>> \o <<d>> = <<c, d>>
  <1>. SUFFICES ASSUME NEW c, NEW d PROVE <<c>> \o <<>> = <<c>> /\ <<c>> \o <<d>> = <<c, d>>
    OBVIOUS
  <1>1. /\ <<c>> \in Seq({c, d}) /\ <<d>> \in Seq({c, d}) /\ <<c, d>> \in Seq({c, d})
        /\ Len(<<c>>) = 1 /\ Len(<<d>>) = 1 /\ Len(<<c, d>>) = 2
    OBVIOUS
  <1>2. <<c>> \o <<>> = <<c>>
    BY <1>1, ConcatEmptySeq
  <1>3. PICK u, v : u = <<c>> \o <<d>> /\ v = <<c, d>>
    OBVIOUS
  <1>4. /\ u \in Seq({c, d}) /\ Len(u) = 2 /\ u[1] = c /\ u[2] = d
    BY <1>1, <1>3, ConcatProperties
  <1>5. v \in Seq({c, d}) /\ Len(v) = 2 /\ v[1] = c /\ v[2] = d
    BY <1>1, <1>3
  <1>6. \A n \in 1 .. Len(u) : u[n] = v[n]
    BY <1>4, <1>5
  <1>7. u = v
    BY <1>4, <1>5, <1>6, SeqEqual
  <1>. QED
    BY <1>2, <1>3, <1>7

LEMMA ScopesDuring ==
  ASSUME NEW h \in Hooks, pc' \in Nat, pc' - Begins[h] \in 1 .. Closing(h),
         pc' - Begins[h] \in {1, 2, Closing(h)} => code' = <<WrapperScope(h)'>>,
         pc' - Begins[h] \in 3 .. Closing(h) - 1 => code' = <<SiteScope(h), WrapperScope(h)'>>
  PROVE  ScopesRight'
  <1>1. PICK k \in Nat : k = pc' /\ k - Begins[h] \in 1 .. Closing(h)
    OBVIOUS
  <1>2. k - Begins[h] \in 0 .. Closing(h)
    BY <1>1, Layout
  <1>3. \A g \in Hooks : g # h => k - Begins[g] \notin 0 .. Closing(g)
    BY <1>2, OnlyOne
  <1>4. ASSUME NEW g \in Hooks, g # h
        PROVE  /\ k - Begins[g] \notin {1, 2, Closing(g)}
               /\ k - Begins[g] \notin 3 .. Closing(g) - 1
    <2>1. PICK b \in Nat, c \in {5, 6} : b = Begins[g] /\ c = Closing(g)
      BY <1>4, BeginsIn, ClosingIn
    <2>2. k - b \notin 0 .. c
      BY <1>3, <1>4, <2>1
    <2>. QED
      BY SMT, <2>1, <2>2
  <1>5. ~\A g \in Hooks : k - Begins[g] \notin 1 .. Closing(g)
    BY <1>1
  <1>6. \A g \in Hooks :
          /\ k - Begins[g] \in {1, 2, Closing(g)} => code' = <<WrapperScope(g)'>>
          /\ k - Begins[g] \in 3 .. Closing(g) - 1 => code' = <<SiteScope(g), WrapperScope(g)'>>
    BY <1>1, <1>4
  <1>. QED
    BY <1>1, <1>5, <1>6 DEF ScopesRight

LEMMA ScopesOutside ==
  ASSUME pc' \in Nat, code' = <<>>, \A h \in Hooks : pc' - Begins[h] \notin 1 .. Closing(h)
  PROVE  ScopesRight'
  <1>1. PICK k \in Nat : k = pc'
    OBVIOUS
  <1>2. ASSUME NEW h \in Hooks
        PROVE  /\ k - Begins[h] \notin {1, 2, Closing(h)}
               /\ k - Begins[h] \notin 3 .. Closing(h) - 1
    <2>1. PICK b \in Nat, c \in {5, 6} : b = Begins[h] /\ c = Closing(h)
      BY BeginsIn, ClosingIn
    <2>2. k - b \notin 1 .. c
      BY <1>1, <2>1
    <2>. QED
      BY SMT, <2>1, <2>2
  <1>. QED
    BY <1>1, <1>2 DEF ScopesRight

\* Between the Installs nothing is open.
LEMMA ClosedAt ==
  ASSUME ScopesRight, pc \in Nat,
         pc \in {1, 2, 29, 30, 31, 32, 33, 48, 49, 57} \/ \E h \in Hooks : pc = Begins[h]
  PROVE  code = <<>>
  <1>1. PICK k \in Nat : k = pc
    OBVIOUS
  <1>. SUFFICES ASSUME NEW h \in Hooks PROVE k - Begins[h] \notin 1 .. Closing(h)
    BY <1>1 DEF ScopesRight
  <1>2. PICK b \in Nat, c \in {5, 6} : b = Begins[h] /\ c = Closing(h) /\ b >= 3 /\ b + c <= 56
    BY Layout
  <1>3. CASE k \in {1, 2, 57}
    BY SMT, <1>2, <1>3
  <1>4. CASE k \in {29, 30, 31, 32, 33, 48, 49}
    <2>1. k - b \notin 0 .. c
      BY <1>2, <1>4, Layout
    <2>. QED
      BY SMT, <1>2, <2>1
  <1>5. CASE \E g \in Hooks : k = Begins[g]
    <2>1. PICK g \in Hooks : k = Begins[g]
      BY <1>5
    <2>2. k - Begins[g] \in 0 .. Closing(g)
      BY <2>1, Layout
    <2>3. CASE g = h
      BY SMT, <1>2, <2>1, <2>3
    <2>4. CASE g # h
      <3>1. k - b \notin 0 .. c
        BY <1>2, <2>2, <2>4, OnlyOne
      <3>. QED
        BY SMT, <1>2, <3>1
    <2>. QED
      BY <2>3, <2>4
  <1>. QED
    BY <1>1, <1>3, <1>4, <1>5

LEMMA ScopesKept ==
  ASSUME ScopesRight, pc \in {1, 2, 29, 30, 31, 32, 33, 48, 49}, pc' = pc + 1, code' = code
  PROVE  ScopesRight'
  <1>1. PICK k \in Nat : k = pc /\ k \in {1, 2, 29, 30, 31, 32, 33, 48, 49}
    OBVIOUS
  <1>2. code' = <<>>
    BY <1>1, ClosedAt
  <1>3. PICK m \in Nat : m = k + 1 /\ pc' = m
    BY <1>1
  <1>4. ASSUME NEW h \in Hooks PROVE m - Begins[h] \notin 1 .. Closing(h)
    <2>1. PICK b \in Nat, c \in {5, 6} : b = Begins[h] /\ c = Closing(h) /\ b >= 3
      BY BeginsIn, ClosingIn
    <2>2. CASE k \in {1, 2}
      BY SMT, <1>3, <2>1, <2>2
    <2>3. CASE k \in {29, 30, 31, 32, 33, 48, 49}
      <3>1. k - b \notin 0 .. c
        BY <2>1, <2>3, Layout
      <3>. QED
        BY SMT, <1>3, <2>1, <3>1
    <2>. QED
      BY <1>1, <2>2, <2>3
  <1>5. \A h \in Hooks : pc' - Begins[h] \notin 1 .. Closing(h)
    BY <1>4, <1>3
  <1>. QED
    BY <1>2, <1>3, <1>5, ScopesOutside

LEMMA ProtectionKept ==
  ASSUME ProtectionRight, UNCHANGED <<code, protection, tried>>, pc > 2 <=> pc' > 2
  PROVE  ProtectionRight'
  <1>1. SpacePages' = SpacePages
    BY DEF SpacePages, Space
  <1>. QED
    BY <1>1 DEF ProtectionRight

\* A scope is opened on a page that no other scope is open on.
LEMMA ProtectionOpened ==
  ASSUME ProtectionRight, pc > 2, pc' > 2, UNCHANGED tried, NEW address, Open(address),
         NEW inner, code = <<>> \/ (code = <<inner>> /\ Page(inner.address) # Page(address)),
         Page(address) \in Pages \cup SpacePages
  PROVE  /\ ProtectionRight'
         /\ code' = IF code = <<>>
                    THEN <<[address |-> address, previous |-> Original(Page(address))]>>
                    ELSE <<[address |-> address, previous |-> Original(Page(address))], inner>>
  <1>1. SpacePages' = SpacePages
    BY DEF SpacePages, Space
  <1>2. PICK r : r = [address |-> address, previous |-> protection[Page(address)]]
    OBVIOUS
  <1>3. PICK a : a = Page(address)
    OBVIOUS
  <1>4. \A c \in ToSet(code) : Page(c.address) # a
    BY <1>3, ToSetIs
  <1>5. protection[a] = Original(a)
    BY <1>3, <1>4 DEF ProtectionRight
  <1>6. code' = IF code = <<>> THEN <<r>> ELSE <<r, inner>>
    <2>1. code' = <<r>> \o code
      BY <1>2 DEF Open
    <2>2. <<r>> \o <<>> = <<r>> /\ <<r>> \o <<inner>> = <<r, inner>>
      BY Joined
    <2>3. <<inner>> # <<>>
      OBVIOUS
    <2>. QED
      BY <2>1, <2>2, <2>3
  <1>7. ToSet(code') = {r} \cup ToSet(code)
    <2>1. CASE code = <<>>
      BY <1>6, <2>1, ToSetIs
    <2>2. CASE code # <<>>
      <3>1. ToSet(<<r, inner>>) = {r} \cup ToSet(<<inner>>)
        BY ToSetIs
      <3>. QED
        BY <1>6, <2>2, <3>1
    <2>. QED
      BY <2>1, <2>2
  <1>8. \A b : (\E c \in ToSet(code') : Page(c.address) = b)
               <=> b = a \/ \E c \in ToSet(code) : Page(c.address) = b
    BY <1>2, <1>3, <1>7
  <1>9. protection' = [protection EXCEPT ![a] = "RW"]
    BY <1>3 DEF Open
  <1>10. ProtectionRight'
    BY <1>1, <1>3, <1>8, <1>9 DEF ProtectionRight
  <1>. QED
    BY <1>2, <1>3, <1>5, <1>6, <1>10

\* What a scope restores is what was there before any scope was opened.
LEMMA ProtectionClosed ==
  ASSUME ProtectionRight, pc > 2, pc' > 2, UNCHANGED tried, NEW scope, NEW inner,
         scope.previous = Original(Page(scope.address)),
         \/ code = <<scope>>
         \/ code = <<scope, inner>> /\ Page(inner.address) # Page(scope.address),
         protection' = [protection EXCEPT ![Page(Head(code).address)] = Previous(Head(code))],
         code' = Tail(code)
  PROVE  ProtectionRight' /\ code' = IF code = <<scope>> THEN <<>> ELSE <<inner>>
  <1>1. SpacePages' = SpacePages
    BY DEF SpacePages, Space
  <1>2. PICK a : a = Page(scope.address)
    OBVIOUS
  <1>3. /\ Head(code) = scope /\ code' = IF code = <<scope>> THEN <<>> ELSE <<inner>>
        /\ ToSet(code) = {scope} \cup ToSet(code') /\ \A c \in ToSet(code') : Page(c.address) # a
    <2>1. <<scope>> # <<scope, inner>>
      OBVIOUS
    <2>2. CASE code = <<scope>>
      <3>1. Head(code) = scope /\ Tail(code) = <<>>
        BY <2>2
      <3>. QED
        BY <2>2, <3>1, ToSetIs
    <2>3. CASE code = <<scope, inner>> /\ Page(inner.address) # Page(scope.address)
      <3>1. Head(code) = scope /\ Tail(code) = <<inner>>
        BY <2>3
      <3>2. ToSet(<<scope, inner>>) = {scope} \cup ToSet(<<inner>>) /\ ToSet(<<inner>>) = {inner}
        BY ToSetIs
      <3>. QED
        BY <1>2, <2>1, <2>3, <3>1, <3>2
    <2>. QED
      BY <2>2, <2>3
  <1>4. \A b : (\E c \in ToSet(code') : Page(c.address) = b)
               <=> b # a /\ \E c \in ToSet(code) : Page(c.address) = b
    BY <1>2, <1>3
  <1>5. protection' = [protection EXCEPT ![a] = Original(a)]
    BY <1>2, <1>3 DEF Previous
  <1>6. ProtectionRight'
    BY SMTT(30), <1>1, <1>4, <1>5 DEF ProtectionRight
  <1>. QED
    BY <1>3, <1>6

-----------------------------------------------------------------------------
(* The invariant is inductive: InitializeMod.                                 *)

LEMMA InitRight == Init => Inv
  <1>. SUFFICES ASSUME Init PROVE Inv
    OBVIOUS
  <1>. USE DEF Init
  <1>1. SearchRight
    BY DEF SearchRight, Tries
  <1>2. HooksRight
    <2>1. \A h \in Hooks : Stage(h, 1) = "engine" /\ ~(1 >= Begins[h] + 2)
      BY BeginsIn DEF Stage
    <2>2. Used(1) = 0
      BY DEF Used
    <2>. QED
      BY <2>1, <2>2 DEF HooksRight, EntriesRight, SlotsRight
  <1>3. ScopesRight
    <2>1. ASSUME NEW h \in Hooks
          PROVE  1 - Begins[h] \notin {1, 2, Closing(h)} /\ 1 - Begins[h] \notin 3 .. Closing(h) - 1
      <3>1. PICK b \in Nat, c \in {5, 6} : b = Begins[h] /\ c = Closing(h) /\ b >= 3
        BY BeginsIn, ClosingIn
      <3>. QED
        BY SMT, <3>1
    <2>. QED
      BY <2>1 DEF ScopesRight
  <1>4. ProtectionRight
    BY ToSetIs DEF ProtectionRight, Original
  <1>5. TableRight
    <2>1. pc = 1 /\ static_depot_pointer \in BOOLEAN /\ ~static_depot_pointer
      OBVIOUS
    <2>2. handlers = {} /\ adding = 0
      OBVIOUS
    <2>. HIDE DEF Init
    <2>3. ~(pc > 33)
      BY <2>1
    <2>4. static_depot_pointer <=> pc > 33
      BY <2>1, <2>3
    <2>. QED
      BY <2>1, <2>2, <2>4 DEF TableRight
  <1>6. GameRight
    <2>1. "loop" \in Hooks
      BY HooksAre
    <2>. QED
      BY <2>1 DEF GameRight
  <1>7. PeersRight
    BY DEF PeersRight
  <1>. QED
    BY <1>1, <1>2, <1>3, <1>4, <1>5, <1>6, <1>7 DEF Inv

LEMMA StartServerKeeps ==
  ASSUME Inv, StartServer
  PROVE  Inv'
  <1>1. pc = 1 /\ pc' = 2
    BY DoingIs, StepIs DEF StartServer
  <1>2. SearchRight'
    BY <1>1 DEF Inv, SearchRight, StartServer, Loader
  <1>3. HooksRight'
    BY <1>1, HooksKept DEF Inv, StartServer
  <1>4. ScopesRight'
    BY <1>1, ScopesKept DEF Inv, StartServer
  <1>5. ProtectionRight'
    BY <1>1, ProtectionKept DEF Inv, StartServer
  <1>6. TableRight'
    BY <1>1 DEF Inv, StartServer, TableRight
  <1>7. GameRight'
    BY <1>1, GameKept DEF Inv, StartServer, Loader
  <1>8. PeersRight'
    BY <1>1, PeersKept DEF Inv, StartServer
  <1>. QED
    BY <1>2, <1>3, <1>4, <1>5, <1>6, <1>7, <1>8 DEF Inv

LEMMA SearchKeeps ==
  ASSUME Inv, create_wrapper_space
  PROVE  Inv'
  <1>1. pc = 2
    BY DoingIs, StepIs DEF create_wrapper_space
  <1>. USE DEF create_wrapper_space, Loader
  <1>2. tried \in Nat /\ 1 <= tried /\ tried <= Tries + 1 /\ Tries = 511 /\ base \in Nat
    BY InitializationAssumption DEF Inv, SearchRight, Tries
  <1>3. code = <<>> /\ code' = <<>>
    BY <1>1, ClosedAt DEF Inv
  <1>4. pc' \in {0, 2, 3}
    BY <1>1
  <1>5. SearchRight'
    BY <1>1, <1>2 DEF Inv, SearchRight, InRange
  <1>6. HooksRight'
    <2>1. CASE pc' = 3
      BY <1>1, <2>1, HooksKept DEF Inv
    <2>2. CASE pc' \in {0, 2}
      <3>1. PICK k \in {0, 2} : k = pc'
        BY <2>2
      <3>2. \A h \in Hooks : /\ Stage(h, 2) = "engine" /\ Stage(h, k) = "engine"
                             /\ ~(k >= Begins[h] + 2)
        BY <3>1, BeginsIn DEF Stage
      <3>3. Used(2) = 0 /\ Used(k) = 0
        BY DEF Used
      <3>. QED
        BY <1>1, <3>1, <3>2, <3>3 DEF Inv, HooksRight, EntriesRight, SlotsRight
    <2>. QED
      BY <1>4, <2>1, <2>2
  <1>7. ScopesRight'
    <2>1. \A k \in {0, 2, 3}, h \in Hooks : k - Begins[h] \notin 1 .. Closing(h)
      BY BeginsIn, ClosingIn
    <2>. QED
      BY <1>3, <1>4, <2>1, ScopesOutside
  <1>8. ProtectionRight'
    <2>1. DOMAIN protection = Pages /\ \A a \in Pages : protection[a] = Original(a)
      BY <1>1, <1>3, ToSetIs DEF Inv, ProtectionRight
    <2>2. CASE pc' = 3
      <3>1. SpacePages' = SpacePages
        BY <1>1, <2>2 DEF SpacePages, Space
      <3>2. \A a \in SpacePages : Original(a) = "RX"
        BY <1>2, SpaceIs, OriginalPages
      <3>3. protection' = Over([a \in SpacePages |-> "RX"], protection)
        BY <1>1, <2>2
      <3>4. /\ DOMAIN protection' = Pages \cup SpacePages
            /\ \A a \in DOMAIN protection' : protection'[a] = Original(a)
        BY <2>1, <3>2, <3>3 DEF Over
      <3>. QED
        BY <1>3, <2>2, <3>1, <3>4, ToSetIs DEF ProtectionRight
    <2>3. CASE pc' \in {0, 2}
      <3>1. ~(pc' > 2) /\ protection' = protection
        BY <1>1, <2>3
      <3>. QED
        BY <1>3, <2>1, <3>1, ToSetIs DEF ProtectionRight
    <2>. QED
      BY <1>4, <2>2, <2>3
  <1>9. TableRight'
    BY <1>1, <1>4 DEF Inv, TableRight, table
  <1>10. GameRight'
    BY <1>1, <1>4, GameKept DEF Inv
  <1>11. PeersRight'
    BY <1>1, PeersKept DEF Inv
  <1>. QED
    BY <1>5, <1>6, <1>7, <1>8, <1>9, <1>10, <1>11 DEF Inv

\* Where the thread is in an Install when it does one of its steps.
LEMMA Installing ==
  ASSUME SearchRight, ScopesRight, NEW n \in 0 .. 6, NEW h \in Hooks, pc \in 1 .. 56,
         pc - Begins[h] = n, n <= Closing(h)
  PROVE  /\ pc \in Nat /\ pc > 2 /\ pc <= 56 /\ pc \notin {29, 30, 31, 32, 33, 48, 49}
         /\ Begins[h] \in Nat /\ tried \in Nat /\ 1 <= tried /\ tried <= Tries
         /\ \A g \in Hooks : g # h => /\ pc - Begins[g] \notin {0, 1, 2, 3, 4}
                                      /\ pc + 1 - Begins[g] \notin 1 .. Closing(g)
         /\ n \in {1, 2, Closing(h)} => code = <<WrapperScope(h)>>
         /\ n \in 3 .. Closing(h) - 1 => code = <<SiteScope(h), WrapperScope(h)>>
  <1>1. PICK k \in Nat : k = pc
    OBVIOUS
  <1>2. k - Begins[h] \in 0 .. Closing(h)
    BY <1>1, ClosingIn
  <1>3. /\ k \in 3 .. 56 /\ k \notin {29, 30, 31, 32, 33, 48, 49}
        /\ \A g \in Hooks : g # h => /\ k - Begins[g] \notin {0, 1, 2, 3, 4}
                                     /\ k + 1 - Begins[g] \notin 1 .. Closing(g)
    BY <1>2, OnlyOne
  <1>4. tried \in Nat /\ 1 <= tried /\ tried <= Tries
    BY <1>1, <1>3 DEF SearchRight, Tries
  <1>. QED
    BY <1>1, <1>3, <1>4, BeginsIn DEF ScopesRight

\* What an Install does not touch.
LEMMA InstallKeeps ==
  ASSUME Inv, pc > 2, pc \in 1 .. 56, pc \notin {29, 30, 31, 32, 33, 48, 49}, pc' = pc + 1,
         Loader, UNCHANGED <<tried, static_depot_pointer, table, peer>>
  PROVE  SearchRight' /\ TableRight' /\ GameRight' /\ PeersRight'
  <1>1. SearchRight'
    BY SearchKept DEF Inv, Loader
  <1>2. TableRight'
    BY TableKept DEF Inv
  <1>3. GameRight'
    BY GameKept DEF Inv, Loader
  <1>4. PeersRight'
    BY PeersKept DEF Inv
  <1>. QED
    BY <1>1, <1>2, <1>3, <1>4

\* There is room for every wrapper.
LEMMA ReserveKeeps ==
  ASSUME Inv, Reserve
  PROVE  Inv' /\ pc' # 0
  <1>. USE DEF Inv
  <1>1. PICK h \in Hooks : h = Arg /\ pc - Begins[h] = 0 /\ pc \in 1 .. 56 /\ 0 \in 0 .. 6
                           /\ 0 <= Closing(h)
    BY DoingIs, StepIs, BeginsIn, ClosingIn DEF Reserve
  <1>2. /\ pc \in Nat /\ pc > 2 /\ pc <= 56 /\ pc \notin {29, 30, 31, 32, 33, 48, 49}
        /\ Begins[h] \in Nat /\ tried \in Nat /\ 1 <= tried /\ tried <= Tries
        /\ \A g \in Hooks : g # h => /\ pc - Begins[g] \notin {0, 1, 2, 3, 4}
                                     /\ pc + 1 - Begins[g] \notin 1 .. Closing(g)
    BY <1>1, Installing
  <1>3. pc = Begins[h]
    BY <1>1, <1>2
  <1>4. unused = Used(Begins[h]) /\ ReserveSize \in Nat /\ Granule \in Nat
    BY <1>3, InitializationAssumption DEF HooksRight, Granule
  <1>5. ~(unused + ReserveSize > Granule)
    BY <1>4, UsedIs
  <1>6. pc' = pc + 1 /\ unused' = unused + ReserveSize /\ Open(Slot(h))
    BY <1>4, <1>5 DEF Reserve, Advanced, Slot
  <1>7. UNCHANGED <<tried, slots, entry>>
    BY DEF Reserve
  <1>8. HooksRight'
    <2>1. \A g \in Hooks : pc - Begins[g] \notin {1, 3, 4}
      BY <1>1, <1>2
    <2>2. EntriesRight' /\ SlotsRight'
      BY <1>2, <1>6, <1>7, <2>1, EntriesKept, SlotsKept DEF HooksRight
    <2>3. unused' = Used(Begins[h] + 1) /\ pc' = Begins[h] + 1
      BY <1>3, <1>4, <1>6, UsedIs
    <2>. QED
      BY <2>2, <2>3 DEF HooksRight
  <1>9. code = <<>>
    BY <1>2, <1>3, ClosedAt
  <1>10. Original(Page(Slot(h))) = "RX" /\ Page(Slot(h)) \in SpacePages
    BY <1>2, SpaceIs, OriginalPages
  <1>11. ProtectionRight' /\ code' = <<WrapperScope(h)>>
    <2>1. pc' > 2
      BY <1>2, <1>6
    <2>2. /\ ProtectionRight'
          /\ code' = <<[address |-> Slot(h), previous |-> Original(Page(Slot(h)))]>>
      BY <1>2, <1>6, <1>7, <1>9, <1>10, <2>1, ProtectionOpened
    <2>. QED
      BY <1>10, <2>2 DEF WrapperScope
  <1>12. ScopesRight'
    <2>1. WrapperScope(h)' = WrapperScope(h)
      BY <1>7 DEF WrapperScope, Slot, Space
    <2>2. pc' \in Nat /\ pc' - Begins[h] = 1
      BY <1>2, <1>3, <1>6
    <2>3. /\ pc' - Begins[h] \in 1 .. Closing(h)
          /\ pc' - Begins[h] \notin 3 .. Closing(h) - 1
      BY <2>2, ClosingIn
    <2>. QED
      BY <1>11, <2>1, <2>2, <2>3, ScopesDuring
  <1>13. SearchRight' /\ TableRight' /\ GameRight' /\ PeersRight'
    BY <1>1, <1>2, <1>6, InstallKeeps DEF Reserve
  <1>. QED
    BY <1>2, <1>6, <1>8, <1>11, <1>12, <1>13

LEMMA LastIs == /\ \A c : Last(<<c>>) = c
                /\ \A c, d : Last(<<c, d>>) = d
  BY DEF Last

LEMMA EmitKeeps ==
  ASSUME Inv, EmitWrapper
  PROVE  Inv'
  <1>. USE DEF Inv
  <1>1. PICK h \in Hooks : h = Arg /\ pc - Begins[h] = 1 /\ pc \in 1 .. 56 /\ 1 \in 0 .. 6
                           /\ 1 <= Closing(h)
    BY DoingIs, StepIs, BeginsIn, ClosingIn DEF EmitWrapper
  <1>2. /\ pc \in Nat /\ pc > 2 /\ pc <= 56 /\ pc \notin {29, 30, 31, 32, 33, 48, 49}
        /\ Begins[h] \in Nat /\ tried \in Nat /\ 1 <= tried /\ tried <= Tries
        /\ \A g \in Hooks : g # h => /\ pc - Begins[g] \notin {0, 1, 2, 3, 4}
                                     /\ pc + 1 - Begins[g] \notin 1 .. Closing(g)
        /\ code = <<WrapperScope(h)>>
    BY <1>1, Installing
  <1>3. pc = Begins[h] + 1
    BY <1>1, <1>2
  <1>4. /\ pc' = pc + 1 /\ UNCHANGED <<tried, unused, code, entry, protection>>
        /\ slots' = Over([a \in {Slot(h)} |-> h], slots)
    <2>1. Last(code).address = Slot(h)
      BY <1>2, LastIs DEF WrapperScope
    <2>. QED
      BY <1>1, <2>1 DEF EmitWrapper
  <1>5. pc' > 2 /\ pc' \in Nat /\ pc' - Begins[h] = 2
    BY <1>2, <1>3, <1>4
  <1>6. HooksRight'
    <2>1. \A g \in Hooks : pc - Begins[g] \notin {0, 3, 4}
      BY <1>1, <1>2
    <2>2. EntriesRight' /\ (unused = Used(pc))'
      BY <1>1, <1>4, <2>1, EntriesKept, UnusedKept DEF HooksRight
    <2>3. /\ Slot(h) \in DOMAIN slots' /\ slots'[Slot(h)] = h
          /\ \A a \in DOMAIN slots : a # Slot(h) => a \in DOMAIN slots' /\ slots'[a] = slots[a]
          /\ \A a \in DOMAIN slots' : a = Slot(h) \/ (a \in DOMAIN slots /\ slots'[a] = slots[a])
      BY <1>4 DEF Over
    <2>4. \A g \in Hooks : Slot(g)' = Slot(g)
      BY <1>4 DEF Slot, Space
    <2>5. ASSUME NEW g \in Hooks, pc' >= Begins[g] + 2
          PROVE  Slot(g) \in DOMAIN slots' /\ slots'[Slot(g)] = g
      <3>1. CASE g = h
        BY <2>3, <3>1
      <3>2. CASE g # h
        <4>1. Slot(g) # Slot(h)
          BY <1>2, <3>2, SpaceIs
        <4>2. pc >= Begins[g] + 2
          <5>1. PICK b \in Nat : b = Begins[g] /\ pc - b # 1
            BY <1>2, <3>2, BeginsIn
          <5>. QED
            BY <1>2, <1>4, <2>5, <5>1
        <4>3. Slot(g) \in DOMAIN slots /\ slots[Slot(g)] = g
          BY <4>2 DEF HooksRight, SlotsRight
        <4>. QED
          BY <2>3, <4>1, <4>3
      <3>. QED
        BY <3>1, <3>2
    <2>6. SlotsRight'
      BY <2>3, <2>4, <2>5 DEF HooksRight, SlotsRight
    <2>. QED
      BY <2>2, <2>6 DEF HooksRight
  <1>7. ScopesRight'
    <2>1. WrapperScope(h)' = WrapperScope(h)
      BY <1>4 DEF WrapperScope, Slot, Space
    <2>2. /\ pc' - Begins[h] \in 1 .. Closing(h)
          /\ pc' - Begins[h] \notin 3 .. Closing(h) - 1
      BY <1>5, ClosingIn
    <2>. QED
      BY <1>2, <1>4, <1>5, <2>1, <2>2, ScopesDuring
  <1>8. ProtectionRight'
    BY <1>2, <1>4, <1>5, ProtectionKept
  <1>9. SearchRight' /\ TableRight' /\ GameRight' /\ PeersRight'
    BY <1>1, <1>2, <1>4, InstallKeeps DEF EmitWrapper
  <1>. QED
    BY <1>6, <1>7, <1>8, <1>9

LEMMA ModifyKeeps ==
  ASSUME Inv, ModifyCode
  PROVE  Inv'
  <1>. USE DEF Inv
  <1>1. PICK h \in Hooks : h = Arg /\ pc - Begins[h] = 2 /\ pc \in 1 .. 56 /\ 2 \in 0 .. 6
                           /\ 2 <= Closing(h)
    BY DoingIs, StepIs, BeginsIn, ClosingIn DEF ModifyCode
  <1>2. /\ pc \in Nat /\ pc > 2 /\ pc <= 56 /\ pc \notin {29, 30, 31, 32, 33, 48, 49}
        /\ Begins[h] \in Nat /\ tried \in Nat /\ 1 <= tried /\ tried <= Tries
        /\ \A g \in Hooks : g # h => /\ pc - Begins[g] \notin {0, 1, 2, 3, 4}
                                     /\ pc + 1 - Begins[g] \notin 1 .. Closing(g)
        /\ code = <<WrapperScope(h)>>
    BY <1>1, Installing
  <1>3. pc = Begins[h] + 2
    BY <1>1, <1>2
  <1>4. pc' = pc + 1 /\ UNCHANGED <<tried, unused, slots, entry>> /\ Open(Hook[h].site)
    BY <1>1 DEF ModifyCode
  <1>5. pc' > 2 /\ pc' \in Nat /\ pc' - Begins[h] = 3
    BY <1>2, <1>3, <1>4
  <1>6. HooksRight'
    <2>1. \A g \in Hooks : pc - Begins[g] \notin {0, 1, 3, 4}
      BY <1>1, <1>2
    <2>. QED
      BY <1>1, <1>4, <2>1, EntriesKept, SlotsKept, UnusedKept DEF HooksRight
  <1>7. ProtectionRight' /\ code' = <<SiteScope(h), WrapperScope(h)>>
    <2>1. Page(WrapperScope(h).address) # Page(Hook[h].site) /\ Page(Hook[h].site) \in Pages
      BY <1>2, SpaceIs, PagesApart DEF WrapperScope
    <2>2. code # <<>>
      BY <1>2
    <2>3. /\ ProtectionRight'
          /\ code' = <<[address |-> Hook[h].site, previous |-> Original(Page(Hook[h].site))],
                       WrapperScope(h)>>
      BY <1>2, <1>4, <1>5, <2>1, <2>2, ProtectionOpened
    <2>. QED
      BY <2>3 DEF SiteScope
  <1>8. ScopesRight'
    <2>1. WrapperScope(h)' = WrapperScope(h)
      BY <1>4 DEF WrapperScope, Slot, Space
    <2>2. /\ pc' - Begins[h] \in 1 .. Closing(h)
          /\ pc' - Begins[h] \notin {1, 2, Closing(h)}
      BY <1>5, ClosingIn
    <2>. QED
      BY <1>5, <1>7, <2>1, <2>2, ScopesDuring
  <1>9. SearchRight' /\ TableRight' /\ GameRight' /\ PeersRight'
    BY <1>1, <1>2, <1>4, InstallKeeps DEF ModifyCode
  <1>. QED
    BY <1>6, <1>7, <1>8, <1>9

LEMMA StageAt ==
  ASSUME NEW h \in Hooks, NEW k \in Nat
  PROVE  /\ k = Begins[h] + 3 => Stage(h, k) = "engine"
         /\ k = Begins[h] + 4 => Stage(h, k) = IF Hook[h].vtable THEN "hook" ELSE "half"
         /\ k >= Begins[h] + 5 => Stage(h, k) = "hook"
  <1>1. PICK b \in Nat : b = Begins[h]
    BY BeginsIn
  <1>2. (k >= b + 5 => ~(k < b + 4) /\ k # b + 4) /\ ~(b + 4 < b + 4)
    BY <1>1
  <1>3. CASE Hook[h].vtable
    BY <1>1, <1>2, <1>3 DEF Stage
  <1>4. CASE ~Hook[h].vtable
    BY <1>1, <1>2, <1>4 DEF Stage
  <1>. QED
    BY <1>3, <1>4

\* The wrapper is complete before anything leads to it.
LEMMA WriteKeeps ==
  ASSUME Inv, WriteJump
  PROVE  Inv'
  <1>. USE DEF Inv
  <1>1. PICK h \in Hooks, n \in {3, 4} :
          /\ h = Arg /\ pc - Begins[h] = n /\ pc \in 1 .. 56 /\ n \in 0 .. 6 /\ n \in 3 .. Closing(h) - 1
          /\ n = 4 => ~Hook[h].vtable
          /\ Doing("opcode") => n = 3 /\ ~Hook[h].vtable
          /\ Doing("target") => n = IF Hook[h].vtable THEN 3 ELSE 4
    <2>1. CASE Doing("opcode")
      <3>1. /\ Arg \in Hooks /\ pc \in 1 .. 56 /\ pc = Begins[Arg] + 3 /\ ~Hook[Arg].vtable
        BY <2>1, DoingIs, StepIs
      <3>2. ~Doing("target")
        BY <2>1 DEF Doing
      <3>. QED
        BY <3>1, <3>2, BeginsIn, Layout
    <2>2. CASE Doing("target")
      <3>1. /\ Arg \in Hooks /\ pc \in 1 .. 56
            /\ pc = Begins[Arg] + (IF Hook[Arg].vtable THEN 3 ELSE 4)
        BY <2>2, DoingIs, StepIs
      <3>2. ~Doing("opcode")
        BY <2>2 DEF Doing
      <3>3. CASE Hook[Arg].vtable
        BY <3>1, <3>2, <3>3, BeginsIn, Layout
      <3>4. CASE ~Hook[Arg].vtable
        BY <3>1, <3>2, <3>4, BeginsIn, Layout
      <3>. QED
        BY <3>3, <3>4
    <2>. QED
      BY <2>1, <2>2 DEF WriteJump
  <1>2. /\ pc \in Nat /\ pc > 2 /\ pc <= 56 /\ pc \notin {29, 30, 31, 32, 33, 48, 49}
        /\ Begins[h] \in Nat /\ tried \in Nat /\ 1 <= tried /\ tried <= Tries
        /\ \A g \in Hooks : g # h => /\ pc - Begins[g] \notin {0, 1, 2, 3, 4}
                                     /\ pc + 1 - Begins[g] \notin 1 .. Closing(g)
        /\ code = <<SiteScope(h), WrapperScope(h)>>
    <2>1. n <= Closing(h)
      BY <1>1, ClosingIn
    <2>. QED
      BY <1>1, <2>1, Installing
  <1>3. pc = Begins[h] + n
    BY <1>1, <1>2
  <1>4. pc' = pc + 1 /\ UNCHANGED <<tried, unused, code, slots, protection>>
    BY DEF WriteJump
  <1>5. pc' > 2 /\ pc' \in Nat /\ pc' - Begins[h] = n + 1
    BY <1>1, <1>2, <1>3, <1>4
  <1>6. EntriesRight'
    <2>1. PICK k \in Nat : k = pc
      BY <1>2
    <2>2. \A g \in Hooks : Destination(g)' = Destination(g)
      BY <1>4 DEF Slot, Space, Destination
    <2>3. Last(code).address = Slot(h)
      BY <1>2, LastIs DEF WrapperScope
    <2>4. DOMAIN entry = Hooks /\ entry[h] = [is |-> Stage(h, k),
             to |-> IF Stage(h, k) = "hook" THEN Destination(h) ELSE 0]
      BY <2>1 DEF HooksRight, EntriesRight
    <2>5. entry' = [entry EXCEPT ![h] =
             [is |-> Stage(h, k + 1),
              to |-> IF Stage(h, k + 1) = "hook" THEN Destination(h) ELSE 0]]
      <3>1. CASE Doing("opcode")
        <4>1. Stage(h, k) = "engine" /\ Stage(h, k + 1) = "half"
          BY <1>1, <1>3, <2>1, <3>1, StageAt, BeginsIn
        <4>2. entry[h] = [is |-> "engine", to |-> 0]
          BY <2>4, <4>1
        <4>3. ~Doing("target")
          BY <3>1 DEF Doing
        <4>4. entry' = [entry EXCEPT ![h].is = "half"]
          BY <1>1, <3>1, <4>3 DEF WriteJump
        <4>5. [[is |-> "engine", to |-> 0] EXCEPT !.is = "half"] = [is |-> "half", to |-> 0]
          OBVIOUS
        <4>6. PICK r : r = [entry[h] EXCEPT !.is = "half"]
          OBVIOUS
        <4>7. entry' = [entry EXCEPT ![h] = r]
          BY <4>4, <4>6
        <4>8. entry' = [entry EXCEPT ![h] = [is |-> "half", to |-> 0]]
          BY <4>2, <4>5, <4>6, <4>7
        <4>. QED
          BY <4>1, <4>8
      <3>2. CASE Doing("target")
        <4>1. Stage(h, k + 1) = "hook"
          <5>1. CASE Hook[h].vtable
            BY <1>1, <1>3, <2>1, <3>2, <5>1, StageAt, BeginsIn
          <5>2. CASE ~Hook[h].vtable
            BY <1>1, <1>3, <2>1, <3>2, <5>2, StageAt, BeginsIn
          <5>. QED
            BY <5>1, <5>2
        <4>2. ~Doing("opcode")
          BY <3>2 DEF Doing
        <4>3. entry' = [entry EXCEPT ![h] = [is |-> "hook", to |-> Destination(h)]]
          BY <1>1, <2>3, <3>2, <4>2 DEF WriteJump, Destination
        <4>. QED
          BY <4>1, <4>3
      <3>. QED
        BY <3>1, <3>2 DEF WriteJump
    <2>6. \A g \in Hooks : g # h => Stage(g, k + 1) = Stage(g, k)
      <3>. SUFFICES ASSUME NEW g \in Hooks, g # h PROVE Stage(g, k + 1) = Stage(g, k)
        OBVIOUS
      <3>1. PICK b \in Nat : b = Begins[g] /\ k # b + 3 /\ k # b + 4
        BY <1>2, <2>1, BeginsIn
      <3>. QED
        BY <3>1, StageStays
    <2>7. pc' = k + 1
      BY <1>4, <2>1
    <2>. QED
      BY <2>1, <2>2, <2>4, <2>5, <2>6, <2>7 DEF HooksRight, EntriesRight
  <1>7. HooksRight'
    <2>1. \A g \in Hooks : pc - Begins[g] \notin {0, 1}
      BY <1>1, <1>2
    <2>2. SlotsRight' /\ (unused = Used(pc))'
      BY <1>1, <1>4, <2>1, SlotsKept, UnusedKept DEF HooksRight
    <2>. QED
      BY <1>6, <2>2 DEF HooksRight
  <1>8. ScopesRight'
    <2>1. WrapperScope(h)' = WrapperScope(h)
      BY <1>4 DEF WrapperScope, Slot, Space
    <2>2. n + 1 \in 1 .. Closing(h) /\ n + 1 \notin {1, 2}
      BY <1>1, ClosingIn
    <2>3. n + 1 # Closing(h)
      <3>1. CASE Hook[h].vtable
        BY <1>1, <3>1 DEF Closing
      <3>2. CASE ~Hook[h].vtable
        BY <1>1, <3>2 DEF Closing
      <3>. QED
        BY <3>1, <3>2
    <2>. QED
      BY <1>2, <1>4, <1>5, <2>1, <2>2, <2>3, ScopesDuring
  <1>9. ProtectionRight'
    BY <1>2, <1>4, <1>5, ProtectionKept
  <1>10. SearchRight' /\ TableRight' /\ GameRight' /\ PeersRight'
    BY <1>1, <1>2, <1>4, InstallKeeps DEF WriteJump
  <1>. QED
    BY <1>7, <1>8, <1>9, <1>10

LEMMA LeaveKeeps ==
  ASSUME Inv, LeaveScope
  PROVE  Inv'
  <1>. USE DEF Inv
  <1>1. PICK h \in Hooks, c \in {5, 6}, n \in {4, 5, 6} :
          /\ c = Closing(h) /\ pc - Begins[h] = n /\ pc \in 1 .. 56 /\ n \in {c - 1, c}
          /\ n \in 0 .. 6 /\ n <= Closing(h)
    <2>1. Arg \in Hooks /\ pc \in 1 .. 56 /\ pc - Begins[Arg] \in {Closing(Arg) - 1, Closing(Arg)}
      <3>1. pc \in 1 .. 56 /\ InitializeMod[pc] = Op("leave", Arg)
        BY DoingIs DEF LeaveScope
      <3>2. PICK k, g : k \in 1 .. 56 /\ k = pc /\ g = Arg /\ InitializeMod[k] = Op("leave", g)
        BY <3>1
      <3>3. g \in Hooks /\ k - Begins[g] \in {Closing(g) - 1, Closing(g)}
        BY <3>2, StepIs
      <3>. QED
        BY <3>2, <3>3
    <2>2. PICK c \in {5, 6} : c = Closing(Arg)
      BY <2>1, ClosingIn
    <2>3. PICK n \in {4, 5, 6} : n = pc - Begins[Arg] /\ n \in {c - 1, c} /\ n \in 0 .. 6 /\ n <= c
      BY <2>1, <2>2
    <2>. QED
      BY <2>1, <2>2, <2>3
  <1>2. /\ pc \in Nat /\ pc > 2 /\ pc <= 56 /\ pc \notin {29, 30, 31, 32, 33, 48, 49}
        /\ Begins[h] \in Nat /\ tried \in Nat /\ 1 <= tried /\ tried <= Tries
        /\ \A g \in Hooks : g # h => /\ pc - Begins[g] \notin {0, 1, 2, 3, 4}
                                     /\ pc + 1 - Begins[g] \notin 1 .. Closing(g)
        /\ n \in {1, 2, Closing(h)} => code = <<WrapperScope(h)>>
        /\ n \in 3 .. Closing(h) - 1 => code = <<SiteScope(h), WrapperScope(h)>>
    BY <1>1, Installing
  <1>3. pc = Begins[h] + n
    BY <1>1, <1>2
  <1>4. /\ pc' = pc + 1 /\ UNCHANGED <<tried, unused, slots, entry>>
        /\ protection' = [protection EXCEPT ![Page(Head(code).address)] = Previous(Head(code))]
        /\ code' = Tail(code)
    BY DEF LeaveScope
  <1>5. pc' > 2 /\ pc' \in Nat /\ pc' - Begins[h] = n + 1
    <2>1. PICK b \in Nat, m \in Nat : b = Begins[h] /\ m = n /\ pc = b + m
      BY <1>2, <1>3
    <2>2. pc \in Nat /\ pc > 2 /\ pc' = pc + 1
      BY <1>2, <1>4
    <2>3. pc' = b + m + 1 /\ pc' > 2 /\ pc' \in Nat
      BY <2>1, <2>2
    <2>4. pc' - b = m + 1
      BY <2>3
    <2>. QED
      BY <2>1, <2>3, <2>4
  <1>6. HooksRight'
    <2>1. \A g \in Hooks : /\ pc - Begins[g] \notin {0, 1, 3}
                           /\ pc - Begins[g] = 4 => Hook[g].vtable
      <3>1. n = 4 => Hook[h].vtable
        BY <1>1, Layout
      <3>. QED
        BY <1>1, <1>2, <3>1
    <2>. QED
      BY <1>1, <1>4, <2>1, EntriesKept, SlotsKept, UnusedKept DEF HooksRight
  <1>7. /\ Page(WrapperScope(h).address) # Page(SiteScope(h).address)
        /\ WrapperScope(h).previous = Original(Page(WrapperScope(h).address))
        /\ SiteScope(h).previous = Original(Page(SiteScope(h).address))
    <2>1. /\ Page(Slot(h)) # Page(Hook[h].site) /\ Original(Page(Slot(h))) = "RX"
      BY <1>2, SpaceIs, PagesApart, OriginalPages
    <2>. QED
      BY <2>1 DEF WrapperScope, SiteScope
  <1>8. <<SiteScope(h), WrapperScope(h)>> # <<SiteScope(h)>>
    OBVIOUS
  <1>9. ProtectionRight' /\ code' = IF n = c THEN <<>> ELSE <<WrapperScope(h)>>
    <2>1. CASE n = c
      <3>1. code = <<WrapperScope(h)>>
        BY <1>1, <1>2, <2>1
      <3>2. PICK w : w = WrapperScope(h)
        OBVIOUS
      <3>3. w.previous = Original(Page(w.address)) /\ code = <<w>>
        BY <1>7, <3>1, <3>2
      <3>4. ProtectionRight' /\ code' = <<>>
        BY <1>2, <1>4, <1>5, <3>3, ProtectionClosed
      <3>. QED
        BY <2>1, <3>4
    <2>2. CASE n = c - 1
      <3>1. code = <<SiteScope(h), WrapperScope(h)>>
        BY <1>1, <1>2, <2>2
      <3>2. PICK w, s : w = WrapperScope(h) /\ s = SiteScope(h)
        OBVIOUS
      <3>3. /\ s.previous = Original(Page(s.address)) /\ code = <<s, w>> /\ <<s, w>> # <<s>>
            /\ Page(w.address) # Page(s.address)
        BY <1>7, <1>8, <3>1, <3>2
      <3>4. ProtectionRight' /\ code' = <<w>>
        BY <1>2, <1>4, <1>5, <3>3, ProtectionClosed
      <3>. QED
        BY <1>1, <2>2, <3>2, <3>4
    <2>. QED
      BY <1>1, <2>1, <2>2
  <1>10. ScopesRight'
    <2>1. WrapperScope(h)' = WrapperScope(h)
      BY <1>4 DEF WrapperScope, Slot, Space
    <2>2. CASE n = c
      <3>1. PICK k \in Nat : k = pc + 1 /\ k = pc'
        BY <1>4, <1>5
      <3>2. \A g \in Hooks : k - Begins[g] \notin 1 .. Closing(g)
        <4>1. k - Begins[h] \notin 1 .. Closing(h)
          <5>1. k - Begins[h] = n + 1
            BY <1>5, <3>1
          <5>. QED
            BY <1>1, <2>2, <5>1
        <4>2. \A g \in Hooks : g # h => pc + 1 - Begins[g] \notin 1 .. Closing(g)
          BY <1>2
        <4>3. \A g \in Hooks : g # h => k - Begins[g] \notin 1 .. Closing(g)
          <5>1. pc \in Nat
            BY <1>2
          <5>. QED
            BY <3>1, <4>2, <5>1, BeginsIn
        <4>. QED
          BY <4>1, <4>3
      <3>. QED
        BY <1>9, <2>2, <3>1, <3>2, ScopesOutside
    <2>3. CASE n = c - 1
      <3>1. /\ pc' - Begins[h] = Closing(h) /\ Closing(h) \in 1 .. Closing(h)
            /\ Closing(h) \notin 3 .. Closing(h) - 1 /\ n # c
        BY <1>1, <1>5, <2>3
      <3>. QED
        BY <1>5, <1>9, <2>1, <3>1, ScopesDuring
    <2>. QED
      BY <1>1, <2>2, <2>3
  <1>11. SearchRight' /\ TableRight' /\ GameRight' /\ PeersRight'
    BY <1>1, <1>2, <1>4, InstallKeeps DEF LeaveScope
  <1>. QED
    BY <1>6, <1>9, <1>10, <1>11

LEMMA FindDepotKeeps ==
  ASSUME Inv, FindDepot
  PROVE  Inv'
  <1>. USE DEF Inv
  <1>1. pc = 33
    BY DoingIs, StepIs DEF FindDepot
  <1>2. /\ pc' = 34 /\ static_depot_pointer' = TRUE
        /\ UNCHANGED <<path, base, vacant, game, tried, unused, code, slots, entry, protection,
                       table, peer>>
    BY <1>1 DEF FindDepot, Loader
  <1>3. SearchRight' /\ HooksRight' /\ ScopesRight' /\ ProtectionRight' /\ GameRight'
    BY <1>1, <1>2, SearchKept, HooksKept, ScopesKept, ProtectionKept, GameKept
  <1>4. TableRight'
    <2>1. static_depot_pointer' \in BOOLEAN /\ static_depot_pointer'
      BY <1>2
    <2>2. pc' > 33
      BY <1>2
    <2>3. static_depot_pointer' <=> pc' > 33
      BY <2>1, <2>2
    <2>. QED
      BY <1>1, <1>2, <2>1, <2>3 DEF TableRight, table
  <1>5. PeersRight'
    BY <1>1, <1>2, PeersKept
  <1>. QED
    BY <1>3, <1>4, <1>5

LEMMA AddHandlerKeeps ==
  ASSUME Inv, add_handler
  PROVE  Inv'
  <1>. USE DEF Inv
  <1>1. PICK type \in {5, 7, 10} :
          /\ type = Arg
          /\ Doing("add") => <<pc, type>> \in {<<29, 5>>, <<31, 7>>, <<48, 10>>}
          /\ Doing("added") => <<pc, type>> \in {<<30, 5>>, <<32, 7>>, <<49, 10>>}
    <2>1. CASE Doing("add")
      <3>1. <<pc, Arg>> \in {<<29, 5>>, <<31, 7>>, <<48, 10>>}
        BY <2>1, DoingIs, StepIs
      <3>2. ~Doing("added")
        BY <2>1 DEF Doing
      <3>. QED
        BY <3>1, <3>2
    <2>2. CASE Doing("added")
      <3>1. <<pc, Arg>> \in {<<30, 5>>, <<32, 7>>, <<49, 10>>}
        BY <2>2, DoingIs, StepIs
      <3>2. ~Doing("add")
        BY <2>2 DEF Doing
      <3>. QED
        BY <3>1, <3>2
    <2>. QED
      BY <2>1, <2>2 DEF add_handler
  <1>2. pc \in {29, 30, 31, 32, 48, 49}
    BY <1>1 DEF add_handler
  <1>3. /\ pc' = pc + 1
        /\ UNCHANGED <<path, base, vacant, game, tried, unused, code, slots, entry, protection,
                       static_depot_pointer>>
    BY DEF add_handler, Loader
  <1>4. SearchRight' /\ HooksRight' /\ ScopesRight' /\ ProtectionRight' /\ GameRight'
    <2>1. pc > 2 /\ pc' > 2 /\ pc <= 56 /\ pc \in 1 .. 56
      BY <1>2, <1>3
    <2>. QED
      BY <1>2, <1>3, <2>1, SearchKept, HooksKept, ScopesKept, ProtectionKept, GameKept
  <1>5. TableRight'
    <2>1. (static_depot_pointer <=> pc > 33) /\ pc # 33 /\ (pc > 33 <=> pc' > 33)
      BY <1>2, <1>3 DEF TableRight
    <2>2. static_depot_pointer' \in BOOLEAN /\ (static_depot_pointer' <=> pc' > 33)
      BY <1>3, <2>1 DEF TableRight
    <2>3. CASE Doing("add")
      <3>1. adding' = type /\ handlers' = handlers
        BY <1>1, <2>3 DEF add_handler, Doing
      <3>2. (pc = 29 /\ type = 5) \/ (pc = 31 /\ type = 7) \/ (pc = 48 /\ type = 10)
        BY <1>1, <2>3
      <3>. QED
        BY <1>3, <2>2, <3>1, <3>2 DEF TableRight
    <2>4. CASE Doing("added")
      <3>1. adding' = 0 /\ handlers' = handlers \cup {type}
        BY <1>1, <2>4 DEF add_handler, Doing
      <3>2. (pc = 30 /\ type = 5) \/ (pc = 32 /\ type = 7) \/ (pc = 49 /\ type = 10)
        BY <1>1, <2>4
      <3>. QED
        BY <1>3, <2>2, <3>1, <3>2 DEF TableRight
    <2>. QED
      BY <2>3, <2>4 DEF add_handler
  <1>6. PeersRight'
    <2>1. ~Done
      BY <1>2, Program DEF Done
    <2>2. CASE Doing("add")
      <3>1. peer' = [p \in Peers |->
              IF peer[p].at = "find" THEN [peer[p] EXCEPT !.racing = TRUE] ELSE peer[p]]
        BY <2>2 DEF add_handler, Doing
      <3>2. ASSUME NEW p \in Peers
            PROVE  /\ peer'[p] \in [at : {"idle", "find", "handle", "unknown", "crash", "content"},
                                    type : {0, 5, 7, 10}, racing : BOOLEAN, up : BOOLEAN, stored : BOOLEAN]
                   /\ peer'[p].at = peer[p].at /\ peer'[p].type = peer[p].type
                   /\ ~peer'[p].up
        <4>1. PICK r \in [at : {"idle", "find", "handle", "unknown", "crash", "content"},
                          type : {0, 5, 7, 10}, racing : BOOLEAN, up : BOOLEAN, stored : BOOLEAN] : r = peer[p]
          BY DEF PeersRight
        <4>2. ~r.up
          BY <2>1, <4>1 DEF PeersRight
        <4>3. PICK x : x = [r EXCEPT !.racing = TRUE]
          OBVIOUS
        <4>4. /\ x \in [at : {"idle", "find", "handle", "unknown", "crash", "content"},
                        type : {0, 5, 7, 10}, racing : BOOLEAN, up : BOOLEAN, stored : BOOLEAN]
              /\ x.at = r.at /\ x.type = r.type /\ x.up = r.up
          BY <4>3
        <4>5. peer'[p] = x \/ peer'[p] = r
          BY <3>1, <4>1, <4>3
        <4>. QED
          BY <4>1, <4>2, <4>4, <4>5
      <3>3. DOMAIN peer' = Peers
        BY <3>1
      <3>4. UNCHANGED static_depot_pointer
        BY <1>3
      <3>. QED
        BY <3>2, <3>3, <3>4 DEF PeersRight
    <2>3. CASE Doing("added")
      <3>1. UNCHANGED peer /\ pc \in 1 .. 56
        BY <1>2, <2>3 DEF add_handler, Doing
      <3>. QED
        BY <1>3, <3>1, PeersKept
    <2>. QED
      BY <2>2, <2>3 DEF add_handler
  <1>. QED
    BY <1>4, <1>5, <1>6

-----------------------------------------------------------------------------
(* The invariant is inductive: the engine and the peers.                      *)

LEMMA LoaderStays ==
  ASSUME Inv, UNCHANGED <<path, base, vacant, loader, table>>
  PROVE  SearchRight' /\ HooksRight' /\ ScopesRight' /\ ProtectionRight' /\ TableRight'
  <1>. USE DEF Inv
  <1>1. UNCHANGED <<pc, tried, unused, code, slots, entry, protection, static_depot_pointer>>
    BY DEF loader
  <1>2. SearchRight'
    BY <1>1 DEF SearchRight
  <1>3. \A h \in Hooks : Slot(h)' = Slot(h) /\ Destination(h)' = Destination(h)
    BY <1>1 DEF Slot, Space, Destination
  <1>4. HooksRight'
    BY <1>1, <1>3 DEF HooksRight, EntriesRight, SlotsRight
  <1>5. ScopesRight'
    <2>1. \A h \in Hooks : WrapperScope(h)' = WrapperScope(h)
      BY <1>3 DEF WrapperScope
    <2>. QED
      BY <1>1, <2>1 DEF ScopesRight
  <1>6. ProtectionRight'
    BY <1>1, ProtectionKept
  <1>7. TableRight'
    BY <1>1 DEF TableRight, table
  <1>. QED
    BY <1>2, <1>4, <1>5, <1>6, <1>7

LEMMA PeersStay ==
  ASSUME PeersRight, UNCHANGED <<pc, static_depot_pointer, peer>>
  PROVE  PeersRight'
  <1>1. Done' <=> Done
    BY DEF Done
  <1>. QED
    BY <1>1 DEF PeersRight

\* A live hook's jump leads to its complete wrapper, and what its hook needs is there.
LEMMA Live ==
  ASSUME Inv, NEW h \in Hooks, Stage(h, pc) = "hook"
  PROVE  /\ pc \in Nat /\ pc > 2 /\ tried \in Nat /\ 1 <= tried /\ tried <= Tries
         /\ Target(h) = Slot(h) /\ Slot(h) \in DOMAIN slots /\ slots[Slot(h)] = h
         /\ h \in {"bundle_file_read_simple", "bundle_file_read_complex"} => static_depot_pointer
  <1>. USE DEF Inv
  <1>1. PICK k \in Nat : k = pc
    BY DEF SearchRight
  <1>2. PICK b \in Nat : b = Begins[h] /\ k >= b + 4 /\ b >= 3
    BY <1>1, StageGrows, BeginsIn
  <1>3. tried \in Nat /\ 1 <= tried /\ tried <= Tries
    BY <1>1, <1>2 DEF SearchRight, Tries
  <1>4. entry[h].to = Destination(h)
    BY DEF HooksRight, EntriesRight
  <1>5. Target(h) = Slot(h)
    BY <1>3, <1>4, TargetIs
  <1>6. Slot(h) \in DOMAIN slots /\ slots[Slot(h)] = h
    BY <1>1, <1>2 DEF HooksRight, SlotsRight
  <1>7. ASSUME h \in {"bundle_file_read_simple", "bundle_file_read_complex"}
        PROVE  static_depot_pointer
    <2>1. b >= 34
      BY SMT, <1>2, <1>7 DEF Begins
    <2>2. pc > 33
      BY <1>1, <1>2, <2>1
    <2>. QED
      BY <2>2 DEF TableRight
  <1>. QED
    BY <1>1, <1>2, <1>3, <1>5, <1>6, <1>7

\* A page of code that does not run is one that is being written.
LEMMA Unwritten ==
  ASSUME Inv, NEW address, Page(address) \in DOMAIN protection, Original(Page(address)) = "RX",
         ~Runs(address)
  PROVE  BeingWritten(address) /\ ~Done
  <1>. USE DEF Inv
  <1>1. PICK a : a = Page(address)
    OBVIOUS
  <1>2. protection[a] # "RX"
    BY <1>1 DEF Runs
  <1>3. \E c \in ToSet(code) : Page(c.address) = a
    BY <1>1, <1>2 DEF ProtectionRight
  <1>4. code # <<>>
    BY <1>3, ToSetIs
  <1>5. ~Done
    <2>1. Done => pc = 57 /\ pc \in Nat
      BY Program DEF Done
    <2>. QED
      BY <1>4, <2>1, ClosedAt
  <1>. QED
    BY <1>1, <1>3, <1>5 DEF BeingWritten

LEMMA AllLive == Done => \A h \in Hooks : Stage(h, pc) = "hook"
  <1>. SUFFICES ASSUME Done, NEW h \in Hooks PROVE Stage(h, pc) = "hook"
    OBVIOUS
  <1>1. pc = 57
    BY Program DEF Done
  <1>2. 57 >= Begins[h] + 5
    BY BeginsIn
  <1>. QED
    BY <1>1, <1>2, StageAt

\* The engine goes from one place to the next.
LEMMA GoToKeeps ==
  ASSUME Inv, NEW t \in Engine,
         NEW place \in {"away", "site", "middle", "wrapper", "return", "resume", "fault", "threw"},
         GoTo(t, place), engine[t].at # "away", UNCHANGED <<path, pc, depot>>, tracked' \in BOOLEAN,
         place = "middle" => path = "dinput",
         place \in {"wrapper", "return"} => Stage(engine[t].hook, pc) = "hook"
  PROVE  /\ GameRight'
         /\ engine'[t].at = place
         /\ \A u \in Engine : u # t => engine'[u] = engine[u]
  <1>1. PICK r \in [at : {"away", "site", "middle", "wrapper", "return", "resume", "fault", "threw"},
                    hook : Hooks] : r = engine[t]
    BY DEF Inv, GameRight
  <1>2. PICK x : x = [r EXCEPT !.at = place]
    OBVIOUS
  <1>3. /\ x \in [at : {"away", "site", "middle", "wrapper", "return", "resume", "fault", "threw"},
                  hook : Hooks]
        /\ x.at = place /\ x.hook = r.hook
    BY <1>2
  <1>4. DOMAIN engine = Engine
    BY DEF Inv, GameRight
  <1>5. /\ DOMAIN engine' = Engine /\ engine'[t] = x
        /\ \A u \in Engine : u # t => engine'[u] = engine[u]
    BY <1>1, <1>2, <1>4 DEF GoTo
  <1>6. depot /\ (path = "startup" => Done)
    BY DEF Inv, GameRight
  <1>7. depot' /\ depot' \in BOOLEAN /\ Done' = Done
    BY <1>6 DEF Done, Inv, GameRight
  <1>8. \A u \in Engine :
          /\ engine'[u] \in [at : {"away", "site", "middle", "wrapper", "return", "resume", "fault", "threw"},
                             hook : Hooks]
          /\ engine'[u].at = "middle" => path = "dinput"
          /\ engine'[u].at \in {"wrapper", "return"} => Stage(engine'[u].hook, pc) = "hook"
    BY <1>1, <1>3, <1>5 DEF Inv, GameRight
  <1>9. GameRight'
    BY <1>5, <1>6, <1>7, <1>8 DEF GameRight, Inv
  <1>. QED
    BY <1>3, <1>5, <1>9

LEMMA CreateDepotKeeps ==
  ASSUME Inv, CreateDepot
  PROVE  Inv' /\ UNCHANGED <<engine, peer>>
  <1>1. UNCHANGED <<path, base, vacant, loader, table, peer, engine, tracked>> /\ Done
    BY DEF CreateDepot, Game
  <1>2. UNCHANGED <<pc, static_depot_pointer>> /\ depot' = TRUE
    BY <1>1 DEF loader, CreateDepot
  <1>3. Done'
    BY <1>1, <1>2 DEF Done
  <1>4. GameRight'
    BY <1>1, <1>2, <1>3 DEF Inv, GameRight
  <1>. QED
    BY <1>1, <1>2, <1>4, LoaderStays, PeersStay DEF Inv

LEMMA EnterKeeps ==
  ASSUME Inv, NEW t \in Engine, NEW h \in Hooks, Enter(t, h)
  PROVE  /\ Inv' /\ UNCHANGED peer
         /\ \A u \in Engine :
              /\ engine'[u].at = "fault" => engine[u].at = "fault"
              /\ engine'[u].at = "threw" => engine[u].at = "threw"
  <1>1. UNCHANGED <<path, base, vacant, loader, table, peer, depot, tracked>> /\ depot
    BY DEF Enter, Game
  <1>2. UNCHANGED <<pc, static_depot_pointer>>
    BY <1>1 DEF loader
  <1>3. /\ engine' = [engine EXCEPT ![t] = [at |-> "site", hook |-> h]]
        /\ DOMAIN engine = Engine
    BY DEF Enter, Inv, GameRight
  <1>4. PICK x : x = [at |-> "site", hook |-> h]
    OBVIOUS
  <1>5. /\ DOMAIN engine' = Engine /\ engine'[t] = x
        /\ \A u \in Engine : u # t => engine'[u] = engine[u]
    BY <1>3, <1>4
  <1>6. /\ x \in [at : {"away", "site", "middle", "wrapper", "return", "resume", "fault", "threw"},
                  hook : Hooks]
        /\ x.at = "site" /\ x.hook = h
    BY <1>4
  <1>7. Done' = Done
    BY <1>2 DEF Done
  <1>8. GameRight'
    BY <1>1, <1>2, <1>5, <1>6, <1>7 DEF Inv, GameRight
  <1>. QED
    BY <1>1, <1>2, <1>5, <1>6, <1>8, LoaderStays, PeersStay DEF Inv

\* What FaultsExplained allows.
Explained(t) ==
  path = "dinput" /\ (engine[t].at = "middle" \/ (~Done /\ BeingWritten(Location(t))))
Thrown(t) == engine[t].hook \in Reads /\ static_depot_pointer

LEMMA AwayOnly ==
  ASSUME Inv, NEW t \in Engine, engine[t].at # "away"
  PROVE  /\ engine[t].hook \in Hooks /\ (path = "dinput" \/ (path = "startup" /\ Done))
         /\ engine[t].at = "middle" => path = "dinput"
         /\ engine[t].at \in {"wrapper", "return"} => Stage(engine[t].hook, pc) = "hook"
  <1>1. path \in {"startup", "dinput"}
    BY DEF Inv, SearchRight
  <1>2. /\ engine[t] \in [at : {"away", "site", "middle", "wrapper", "return", "resume", "fault", "threw"},
                          hook : Hooks]
        /\ depot
    BY DEF Inv, GameRight
  <1>3. path = "startup" => Done
    BY <1>2 DEF Inv, GameRight
  <1>. QED
    BY <1>1, <1>2, <1>3 DEF Inv, GameRight

\* A page of code that does not run is met only on a late load.
LEMMA Written ==
  ASSUME Inv, NEW t \in Engine, engine[t].at # "away", NEW address,
         Page(address) \in DOMAIN protection, Original(Page(address)) = "RX",
         ~Runs(address), address = Location(t)
  PROVE  Explained(t)
  <1>1. BeingWritten(Location(t)) /\ ~Done
    BY Unwritten
  <1>. QED
    BY <1>1, AwayOnly DEF Explained

LEMMA ImageProtected ==
  ASSUME Inv, NEW h \in Hooks
  PROVE  Page(Hook[h].site) \in DOMAIN protection /\ Page(Hook[h].resume) \in DOMAIN protection
  BY PagesApart DEF Inv, ProtectionRight

\* The wrapper of a live hook is on a page of code.
LEMMA WrapperProtected ==
  ASSUME Inv, NEW h \in Hooks, Stage(h, pc) = "hook"
  PROVE  Page(Target(h)) \in DOMAIN protection /\ Original(Page(Target(h))) = "RX"
  <1>1. /\ pc > 2 /\ tried \in Nat /\ 1 <= tried /\ tried <= Tries /\ Target(h) = Slot(h)
    BY Live
  <1>2. Page(Slot(h)) \in SpacePages /\ Original(Page(Slot(h))) = "RX"
    BY <1>1, SpaceIs, OriginalPages
  <1>. QED
    BY <1>1, <1>2 DEF Inv, ProtectionRight

LEMMA GameOnly ==
  ASSUME Inv, Game
  PROVE  /\ UNCHANGED <<path, pc, peer>>
         /\ GameRight' => Inv'
  <1>1. UNCHANGED <<path, base, vacant, loader, table, peer>>
    BY DEF Game
  <1>2. UNCHANGED <<pc, static_depot_pointer>>
    BY <1>1 DEF loader
  <1>. QED
    BY <1>1, <1>2, LoaderStays, PeersStay DEF Inv

LEMMA AtSiteKeeps ==
  ASSUME Inv, NEW t \in Engine, AtSite(t)
  PROVE  /\ Inv' /\ UNCHANGED peer
         /\ \A u \in Engine :
              /\ engine[u].at # "fault" /\ engine'[u].at = "fault" => Explained(u)
              /\ engine[u].at # "threw" /\ engine'[u].at = "threw" => Thrown(u)
  <1>1. PICK h : h = engine[t].hook
    OBVIOUS
  <1>2. PICK place :
          place = CASE ~Hook[h].vtable /\ (~Runs(Hook[h].site) \/ entry[h].is = "half") -> "fault"
                    [] entry[h].is = "hook" -> "wrapper"
                    [] OTHER -> IF Len(Hook[h].again) > 1 THEN "middle" ELSE "away"
    OBVIOUS
  <1>3. /\ Game /\ engine[t].at = "site" /\ GoTo(t, place) /\ UNCHANGED <<depot, tracked>>
    BY <1>1, <1>2 DEF AtSite
  <1>4. h \in Hooks /\ (path = "dinput" \/ (path = "startup" /\ Done))
    BY <1>1, <1>3, AwayOnly
  <1>5. entry[h].is = Stage(h, pc)
    BY <1>4 DEF Inv, HooksRight, EntriesRight
  <1>6. /\ place \in {"fault", "wrapper", "middle", "away"}
        /\ place = "wrapper" => entry[h].is = "hook"
        /\ place = "middle" => entry[h].is # "hook"
        /\ place = "fault" => ~Hook[h].vtable /\ (~Runs(Hook[h].site) \/ entry[h].is = "half")
    BY <1>2
  <1>7. place = "middle" => path = "dinput"
    BY <1>4, <1>5, <1>6, AllLive
  <1>8. UNCHANGED <<path, pc, peer>> /\ (GameRight' => Inv')
    BY <1>3, GameOnly
  <1>9. tracked' \in BOOLEAN
    BY <1>3 DEF Inv, GameRight
  <1>10. /\ GameRight' /\ engine'[t].at = place
         /\ \A u \in Engine : u # t => engine'[u] = engine[u]
    BY <1>1, <1>3, <1>5, <1>6, <1>7, <1>8, <1>9, GoToKeeps
  <1>11. ASSUME place = "fault" PROVE Explained(t)
    <2>1. Location(t) = Hook[h].site
      BY <1>1, <1>3 DEF Location
    <2>2. /\ Page(Hook[h].site) \in DOMAIN protection
          /\ Original(Page(Hook[h].site)) = "RX"
      BY <1>4, <1>6, <1>11, ImageProtected, OriginalPages
    <2>3. ~Runs(Hook[h].site)
      <3>1. CASE entry[h].is = "half"
        <4>1. PICK k \in Nat : k = pc /\ pc \in 0 .. 57
          BY DEF Inv, SearchRight
        <4>2. PICK b \in Nat : b = Begins[h] /\ k = b + 4 /\ b >= 3 /\ b <= 50
          BY <1>4, <1>5, <3>1, <4>1, BeginsIn DEF Stage
        <4>3. /\ 4 \in 0 .. 6 /\ pc \in 1 .. 56 /\ pc - Begins[h] = 4 /\ 4 <= Closing(h)
          BY <1>4, <4>1, <4>2, ClosingIn
        <4>4. Closing(h) = 6
          BY <1>6, <1>11 DEF Closing
        <4>5. code = <<SiteScope(h), WrapperScope(h)>>
          BY <1>4, <4>3, <4>4, Installing DEF Inv
        <4>6. SiteScope(h) \in ToSet(code) /\ SiteScope(h).address = Hook[h].site
          BY <4>5, ToSetIs DEF SiteScope
        <4>7. protection[Page(Hook[h].site)] = "RW"
          BY <2>2, <4>6 DEF Inv, ProtectionRight
        <4>. QED
          BY <4>7 DEF Runs
      <3>2. CASE entry[h].is # "half"
        BY <1>6, <1>11, <3>2
      <3>. QED
        BY <3>1, <3>2
    <2>. QED
      BY <1>3, <2>1, <2>2, <2>3, Written
  <1>. QED
    BY <1>6, <1>8, <1>10, <1>11

LEMMA InMiddleKeeps ==
  ASSUME Inv, NEW t \in Engine, InMiddle(t)
  PROVE  /\ Inv' /\ UNCHANGED peer
         /\ \A u \in Engine :
              /\ engine[u].at # "fault" /\ engine'[u].at = "fault" => Explained(u)
              /\ engine[u].at # "threw" /\ engine'[u].at = "threw" => Thrown(u)
  <1>1. PICK place \in {"fault", "away"} : GoTo(t, place)
    BY DEF InMiddle
  <1>2. Game /\ engine[t].at = "middle" /\ UNCHANGED <<depot, tracked>>
    BY DEF InMiddle
  <1>3. UNCHANGED <<path, pc, peer>> /\ (GameRight' => Inv')
    BY <1>2, GameOnly
  <1>4. tracked' \in BOOLEAN
    BY <1>2 DEF Inv, GameRight
  <1>5. /\ GameRight' /\ engine'[t].at = place
        /\ \A u \in Engine : u # t => engine'[u] = engine[u]
    BY <1>1, <1>2, <1>3, <1>4, GoToKeeps
  <1>6. Explained(t)
    BY <1>2, AwayOnly DEF Explained
  <1>. QED
    BY <1>3, <1>5, <1>6

LEMMA InWrapperKeeps ==
  ASSUME Inv, NEW t \in Engine, InWrapper(t)
  PROVE  /\ Inv' /\ UNCHANGED peer
         /\ \A u \in Engine :
              /\ engine[u].at # "fault" /\ engine'[u].at = "fault" => Explained(u)
              /\ engine[u].at # "threw" /\ engine'[u].at = "threw" => Thrown(u)
  <1>1. PICK h : h = engine[t].hook
    OBVIOUS
  <1>2. Game /\ engine[t].at = "wrapper" /\ UNCHANGED depot
    BY DEF InWrapper
  <1>3. h \in Hooks /\ Stage(h, pc) = "hook"
    BY <1>1, <1>2, AwayOnly
  <1>4. /\ Target(h) = Slot(h) /\ Slot(h) \in DOMAIN slots /\ slots[Slot(h)] = h
        /\ h \in {"bundle_file_read_simple", "bundle_file_read_complex"} => static_depot_pointer
    BY <1>3, Live
  <1>5. PICK place \in {"return", "fault", "threw"} :
          /\ GoTo(t, place)
          /\ place = "fault" => ~Runs(Target(h))
          /\ place = "threw" => h \in Reads
          /\ \/ tracked' = IF h = "render_emitter_register" THEN TRUE
                           ELSE tracked /\ h # "render_emitter_destruct"
             \/ tracked' = tracked
    BY <1>1, <1>4 DEF InWrapper, Called, Reads
  <1>6. UNCHANGED <<path, pc, peer>> /\ (GameRight' => Inv')
    BY <1>2, GameOnly
  <1>7. tracked' \in BOOLEAN
    BY <1>5 DEF Inv, GameRight
  <1>8. /\ GameRight' /\ engine'[t].at = place
        /\ \A u \in Engine : u # t => engine'[u] = engine[u]
    BY <1>1, <1>2, <1>3, <1>5, <1>6, <1>7, GoToKeeps
  <1>9. ASSUME place = "fault" PROVE Explained(t)
    <2>1. Location(t) = Target(h)
      BY <1>1, <1>2 DEF Location
    <2>. QED
      BY <1>2, <1>3, <1>5, <1>9, <2>1, WrapperProtected, Written
  <1>10. ASSUME place = "threw" PROVE Thrown(t)
    BY <1>1, <1>4, <1>5, <1>10 DEF Thrown, Reads
  <1>. QED
    BY <1>6, <1>8, <1>9, <1>10

LEMMA ReturnKeeps ==
  ASSUME Inv, NEW t \in Engine, Return(t)
  PROVE  /\ Inv' /\ UNCHANGED peer
         /\ \A u \in Engine :
              /\ engine[u].at # "fault" /\ engine'[u].at = "fault" => Explained(u)
              /\ engine[u].at # "threw" /\ engine'[u].at = "threw" => Thrown(u)
  <1>1. PICK h : h = engine[t].hook
    OBVIOUS
  <1>2. Game /\ engine[t].at \in {"return", "resume"} /\ UNCHANGED <<depot, tracked>>
    BY DEF Return
  <1>3. h \in Hooks /\ (engine[t].at = "return" => Stage(h, pc) = "hook")
    BY <1>1, <1>2, AwayOnly
  <1>4. PICK place \in {"resume", "away", "fault"} :
          /\ GoTo(t, place)
          /\ place = "fault" => \/ engine[t].at = "return" /\ ~Runs(Target(h))
                                \/ engine[t].at = "resume" /\ ~Runs(Hook[h].resume)
    BY <1>1 DEF Return
  <1>5. UNCHANGED <<path, pc, peer>> /\ (GameRight' => Inv')
    BY <1>2, GameOnly
  <1>6. tracked' \in BOOLEAN
    BY <1>2 DEF Inv, GameRight
  <1>7. /\ GameRight' /\ engine'[t].at = place
        /\ \A u \in Engine : u # t => engine'[u] = engine[u]
    BY <1>2, <1>4, <1>5, <1>6, GoToKeeps
  <1>8. ASSUME place = "fault" PROVE Explained(t)
    <2>1. CASE engine[t].at = "return" /\ ~Runs(Target(h))
      <3>1. Location(t) = Target(h)
        BY <1>1, <2>1 DEF Location
      <3>. QED
        BY <1>3, <2>1, <3>1, WrapperProtected, Written
    <2>2. CASE engine[t].at = "resume" /\ ~Runs(Hook[h].resume)
      <3>1. Location(t) = Hook[h].resume
        BY <1>1, <2>2 DEF Location
      <3>. QED
        BY <1>3, <2>2, <3>1, ImageProtected, OriginalPages, Written
    <2>. QED
      BY <1>4, <1>8, <2>1, <2>2
  <1>. QED
    BY <1>5, <1>7, <1>8

Requests == [at : {"idle", "find", "handle", "unknown", "crash", "content"}, type : {0, 5, 7, 10},
             racing : BOOLEAN, up : BOOLEAN, stored : BOOLEAN]

\* What holds of one request.
RequestRight(r) ==
  /\ r \in Requests
  /\ r.up => Done
  /\ r.at = "find" => r.type # 0
  /\ r.at = "find" /\ r.up => ~r.racing
  /\ r.at = "unknown" => ~r.up
  /\ r.at = "handle" /\ r.type = 10 => static_depot_pointer

LEMMA RequestsRight == PeersRight <=> DOMAIN peer = Peers /\ \A p \in Peers : RequestRight(peer[p])
  BY DEF PeersRight, RequestRight, Requests

LEMMA NetKeeps ==
  ASSUME Inv, Net, NEW p \in Peers, NEW r, RequestRight(r), peer' = [peer EXCEPT ![p] = r]
  PROVE  /\ Inv' /\ UNCHANGED engine
         /\ peer'[p] = r /\ \A q \in Peers : q # p => peer'[q] = peer[q]
  <1>1. UNCHANGED <<path, base, vacant, loader, table, game>>
    BY DEF Net
  <1>2. UNCHANGED <<pc, static_depot_pointer, depot, engine, tracked>>
    BY <1>1 DEF loader, game
  <1>3. Done' = Done
    BY <1>2 DEF Done
  <1>4. GameRight'
    BY <1>1, <1>2, <1>3 DEF Inv, GameRight
  <1>5. DOMAIN peer = Peers /\ \A q \in Peers : RequestRight(peer[q])
    BY RequestsRight DEF Inv
  <1>6. /\ DOMAIN peer' = Peers /\ peer'[p] = r
        /\ \A q \in Peers : q # p => peer'[q] = peer[q]
    BY <1>5
  <1>7. \A q \in Peers : RequestRight(peer'[q])
    BY <1>5, <1>6
  <1>8. PeersRight'
    BY <1>2, <1>3, <1>6, <1>7 DEF PeersRight, RequestRight, Requests
  <1>. QED
    BY <1>1, <1>2, <1>4, <1>6, <1>8, LoaderStays DEF Inv

LEMMA AskKeeps ==
  ASSUME Inv, NEW p \in Peers, NEW type \in {5, 7, 10}, NEW empty \in BOOLEAN,
         Ask(p, type, empty)
  PROVE  /\ Inv' /\ UNCHANGED engine
         /\ \A q \in Peers :
              /\ peer'[q].at = "crash" => peer[q].at = "crash"
              /\ peer'[q].at = "content" => peer[q].at = "content"
  <1>1. PICK r : r = [at |-> "find", type |-> type, racing |-> adding # 0, up |-> Done,
                      stored |-> peer[p].stored \/ ~empty]
    OBVIOUS
  <1>2. Net /\ peer' = [peer EXCEPT ![p] = r]
    BY <1>1 DEF Ask
  <1>3. Done => adding = 0
    <2>1. Done => pc = 57
      BY Program DEF Done
    <2>. QED
      BY <2>1 DEF Inv, TableRight
  <1>4. PICK racing \in BOOLEAN, up \in BOOLEAN, stored \in BOOLEAN :
          (racing <=> adding # 0) /\ (up <=> Done) /\ (stored <=> (peer[p].stored \/ ~empty))
    BY Zenon
  <1>5. r = [at |-> "find", type |-> type, racing |-> racing, up |-> up, stored |-> stored]
    <2>1. (adding # 0) = racing /\ Done = up /\ (peer[p].stored \/ ~empty) = stored
      BY Zenon, <1>4 DEF Done
    <2>. QED
      BY <1>1, <2>1
  <1>6. r \in Requests /\ r.at = "find" /\ r.type = type /\ (r.up => Done) /\ (r.up => ~r.racing)
    BY <1>3, <1>4, <1>5 DEF Requests
  <1>7. RequestRight(r)
    BY <1>6 DEF RequestRight
  <1>8. /\ Inv' /\ UNCHANGED engine
        /\ peer'[p] = r /\ \A q \in Peers : q # p => peer'[q] = peer[q]
    BY <1>2, <1>7, NetKeeps
  <1>. QED
    BY <1>6, <1>8

\* A lookup after the last step finds its handler.
LEMMA FindKeeps ==
  ASSUME Inv, NEW p \in Peers, Find(p)
  PROVE  /\ Inv' /\ UNCHANGED engine
         /\ \A q \in Peers :
              /\ peer'[q].at = "crash" =>
                   \/ peer[q].at = "crash"
                   \/ peer[q].at = "find" /\ peer[q].racing /\ ~peer[q].up
              /\ peer'[q].at = "content" => peer[q].at = "content"
  <1>1. PICK r : r = peer[p] /\ RequestRight(r) /\ r \in Requests /\ r.at = "find"
    BY RequestsRight DEF Inv, Find, RequestRight
  <1>2. PICK place \in {"handle", "unknown", "crash"} :
          /\ Serve(p, place)
          /\ place = "handle" => r.type \in handlers \cup {adding}
          /\ place = "unknown" => r.type \notin handlers \/ r.racing
          /\ place = "crash" => r.racing
    BY <1>1 DEF Find
  <1>3. PICK x : x = [r EXCEPT !.at = place]
    OBVIOUS
  <1>4. /\ x \in Requests /\ x.at = place /\ x.type = r.type /\ x.racing = r.racing /\ x.up = r.up
    BY <1>1, <1>3 DEF Requests
  <1>5. Net /\ peer' = [peer EXCEPT ![p] = x]
    BY <1>1, <1>2, <1>3 DEF Find, Serve
  <1>6. r.racing => ~r.up
    BY <1>1 DEF RequestRight
  <1>7. place = "unknown" => ~r.up
    <2>1. Done => pc = 57
      BY Program DEF Done
    <2>2. Done => \A n \in {5, 7, 10} : n \in handlers
      BY <2>1 DEF Inv, TableRight
    <2>3. r.type \in {5, 7, 10}
      BY <1>1 DEF RequestRight, Requests
    <2>. QED
      BY <1>1, <1>2, <1>6, <2>2, <2>3 DEF RequestRight
  <1>8. place = "handle" /\ r.type = 10 => static_depot_pointer
    <2>1. 10 \in handlers \/ adding = 10 => pc > 33
      BY DEF Inv, TableRight, SearchRight
    <2>2. pc > 33 => static_depot_pointer
      BY DEF Inv, TableRight
    <2>. QED
      BY <1>2, <2>1, <2>2
  <1>9. RequestRight(x)
    BY <1>1, <1>2, <1>4, <1>7, <1>8 DEF RequestRight
  <1>10. /\ Inv' /\ UNCHANGED engine
         /\ peer'[p] = x /\ \A q \in Peers : q # p => peer'[q] = peer[q]
    BY <1>5, <1>9, NetKeeps
  <1>. QED
    BY <1>1, <1>2, <1>4, <1>6, <1>10

\* When the depot's contents can be followed.
Held == static_depot_pointer /\ (path = "dinput" \/ Done)

LEMMA DoneHas == Inv /\ Done => static_depot_pointer
  <1>1. Done => pc = 57
    BY Program DEF Done
  <1>. QED
    BY <1>1 DEF Inv, TableRight

\* What the handlers of files lack when they bring the game down.
LEMMA HandleKeeps ==
  ASSUME Inv, NEW p \in Peers, Handle(p)
  PROVE  /\ Inv' /\ UNCHANGED engine
         /\ \A q \in Peers :
              /\ peer'[q].at = "crash" =>
                   \/ peer[q].at = "crash"
                   \/ peer[q].type = 10 /\ path = "startup" /\ ~depot
                   \/ peer[q].type = 5 /\ path = "dinput" /\ ~static_depot_pointer
                   \/ peer[q].type = 10 /\ ~peer[q].stored
              /\ peer'[q].at = "content" => peer[q].at = "content" \/ Held
  <1>1. PICK r : r = peer[p] /\ RequestRight(r) /\ r \in Requests /\ r.at = "handle"
    BY RequestsRight DEF Inv, Handle, RequestRight
  <1>2. PICK place \in {"idle", "crash", "content"} :
          /\ Serve(p, place)
          /\ place = "crash" => NoMessage(p) \/ NoDepot(p)
          /\ place = "content" => ~NoDepot(p) /\ NeedsDepot(p)
    BY DEF Handle
  <1>3. PICK x : x = [r EXCEPT !.at = place]
    OBVIOUS
  <1>4. /\ x \in Requests /\ x.at = place /\ x.type = r.type /\ x.racing = r.racing /\ x.up = r.up
    BY <1>1, <1>3 DEF Requests
  <1>5. Net /\ peer' = [peer EXCEPT ![p] = x]
    BY <1>1, <1>2, <1>3 DEF Handle, Serve
  <1>6. RequestRight(x)
    BY <1>1, <1>2, <1>4 DEF RequestRight
  <1>7. /\ Inv' /\ UNCHANGED engine
        /\ peer'[p] = x /\ \A q \in Peers : q # p => peer'[q] = peer[q]
    BY <1>5, <1>6, NetKeeps
  <1>8. ASSUME place = "crash"
        PROVE  \/ r.type = 10 /\ path = "startup" /\ ~depot
               \/ r.type = 5 /\ path = "dinput" /\ ~static_depot_pointer
               \/ r.type = 10 /\ ~r.stored
    <2>1. path \in {"startup", "dinput"} /\ (path = "dinput" => depot)
      BY DEF Inv, SearchRight, GameRight
    <2>2. CASE NoMessage(p)
      BY <1>1, <2>2 DEF NoMessage
    <2>3. CASE NoDepot(p) /\ r.type = 10
      BY <1>1, <2>1, <2>3 DEF RequestRight, NoDepot
    <2>4. CASE NoDepot(p) /\ r.type # 10
      <3>1. r.type = 5 /\ tracked
        BY <1>1, <2>4 DEF NeedsDepot, NoDepot
      <3>2. depot /\ ~static_depot_pointer
        BY <2>4, <3>1 DEF Inv, GameRight, NoDepot
      <3>3. ~Done
        BY <3>2, DoneHas
      <3>. QED
        BY <2>1, <3>1, <3>2, <3>3 DEF Inv, GameRight
    <2>. QED
      BY <1>2, <1>8, <2>2, <2>3, <2>4
  <1>9. ASSUME place = "content" PROVE Held
    <2>1. static_depot_pointer /\ depot
      BY <1>2, <1>9 DEF NoDepot
    <2>. QED
      BY <2>1 DEF Held, Inv, SearchRight, GameRight
  <1>. QED
    BY <1>1, <1>2, <1>4, <1>7, <1>8, <1>9

-----------------------------------------------------------------------------
(* How long the wrappers are, at most.                                        *)

Instructions ==
  [op : {"push", "pop", "sub", "add", "mov", "load", "imm", "call", "jmp", "test", "jz", "ret"},
   size : {1, 2, 3, 4, 5, 7, 10},
   to : {"rax", "rbx", "rcx", "rdx", "r8", "rsp", "rip"},
   from : {"rcx", "rdx", "r8", "rbx", "rsi", "r14", "r15", "global", "hook_func"} \cup Int]

Short(code_, n) == code_ \in Seq(Instructions) /\ Len(code_) \in Nat /\ Len(code_) <= n

LEMMA ShortJoined ==
  ASSUME NEW s, NEW t, NEW m \in Nat, NEW n \in Nat, Short(s, m), Short(t, n)
  PROVE  Short(s \o t, m + n)
  BY ConcatProperties DEF Short

LEMMA InstructionsAre ==
  /\ \A r \in {"rcx", "rdx"} : Push(r) \in Instructions /\ Pop(r) \in Instructions
  /\ Push("r8") \in Instructions /\ Pop("r8") \in Instructions /\ PushRbx \in Instructions
  /\ \A n \in {32, 40} : SubRsp(n) \in Instructions /\ AddRsp(n) \in Instructions
  /\ Move("rcx", "rsi") \in Instructions /\ Move("rdx", "r14") \in Instructions
  /\ Move("rcx", "r15") \in Instructions /\ Move("rcx", "rbx") \in Instructions
  /\ Load("rax", "r15") \in Instructions /\ Load("rax", "rbx") \in Instructions
  /\ LoadGlobal \in Instructions
  /\ \A n \in Int : Jump(n) \in Instructions
  <1>1. \A r \in {"rcx", "rdx"} : Push(r) \in Instructions /\ Pop(r) \in Instructions
    <2>. SUFFICES ASSUME NEW r \in {"rcx", "rdx"}
                  PROVE  Push(r) \in Instructions /\ Pop(r) \in Instructions
      OBVIOUS
    <2>1. Push(r) = I("push", 1, r, 0) /\ Pop(r) = I("pop", 1, r, 0)
      BY DEF Push, Pop
    <2>. QED
      BY <2>1 DEF Instructions, I
  <1>2. Push("r8") \in Instructions /\ Pop("r8") \in Instructions /\ PushRbx \in Instructions
    <2>1. Push("r8") = I("push", 2, "r8", 0) /\ Pop("r8") = I("pop", 2, "r8", 0)
      BY DEF Push, Pop
    <2>. QED
      BY <2>1 DEF Instructions, I, PushRbx
  <1>3. ASSUME NEW n \in {32, 40} PROVE SubRsp(n) \in Instructions /\ AddRsp(n) \in Instructions
    <2>1. n \div 8 \in Int
      OBVIOUS
    <2>2. SubRsp(n) = I("sub", 4, "rsp", n \div 8) /\ AddRsp(n) = I("add", 4, "rsp", n \div 8)
      BY DEF SubRsp, AddRsp
    <2>. QED
      BY <2>1, <2>2 DEF Instructions, I
  <1>4. /\ Move("rcx", "rsi") \in Instructions /\ Move("rdx", "r14") \in Instructions
        /\ Move("rcx", "r15") \in Instructions /\ Move("rcx", "rbx") \in Instructions
    BY DEF Instructions, I, Move
  <1>5. /\ Load("rax", "r15") \in Instructions /\ Load("rax", "rbx") \in Instructions
        /\ LoadGlobal \in Instructions
    BY DEF Instructions, I, Load, LoadGlobal
  <1>6. ASSUME NEW n \in Int PROVE Jump(n) \in Instructions
    BY DEF Instructions, I, Jump
  <1>. QED
    BY <1>1, <1>2, <1>3, <1>4, <1>5, <1>6

LEMMA PiecesShort ==
  /\ Short(CallHook, 2) /\ Short(ReturnIfFound, 3) /\ Short(FromSite, 2) /\ Short(SaveThis, 6)
  <1>1. Short(CallHook, 2)
    <2>1. I("imm", 10, "rax", "hook_func") \in Instructions /\ I("call", 2, "rax", 0) \in Instructions
      BY DEF Instructions, I
    <2>. QED
      BY <2>1 DEF CallHook, Short
  <1>2. Short(ReturnIfFound, 3)
    <2>1. /\ I("test", 3, "rax", 0) \in Instructions /\ I("jz", 2, "rip", 1) \in Instructions
          /\ I("ret", 1, "rip", 0) \in Instructions
      BY DEF Instructions, I
    <2>. QED
      BY <2>1 DEF ReturnIfFound, Short
  <1>3. Short(FromSite, 2)
    BY InstructionsAre DEF FromSite, Short
  <1>4. Short(SaveThis, 6)
    <2>1. Short(<<Push("rcx"), SubRsp(ShadowEven)>>, 2) /\ Short(<<AddRsp(ShadowEven), Pop("rcx")>>, 2)
      BY InstructionsAre DEF Short, ShadowEven
    <2>2. Short(<<Push("rcx"), SubRsp(ShadowEven)>> \o CallHook, 2 + 2)
      BY <1>1, <2>1, ShortJoined
    <2>3. Short((<<Push("rcx"), SubRsp(ShadowEven)>> \o CallHook)
                  \o <<AddRsp(ShadowEven), Pop("rcx")>>, (2 + 2) + 2)
      BY <2>1, <2>2, ShortJoined
    <2>. QED
      BY <2>3 DEF SaveThis
  <1>. QED
    BY <1>1, <1>2, <1>3, <1>4

\* A wrapper has at most thirteen instructions before those it repeats, of which
\* there are at most two.
LEMMA WrappersShort ==
  ASSUME NEW h \in Hooks
  PROVE  Short(Hook[h].around, 13) /\ Short(Hook[h].again, 2)
  <1>1. Short(<<>>, 2)
    BY EmptySeq DEF Short
  <1>2. CASE h \in {"emitter_register", "render_emitter_destruct"}
    <2>1. /\ Hook[h].around = (<<Push("rcx"), Push("rdx"), SubRsp(ShadowOdd)>> \o CallHook)
                              \o <<AddRsp(ShadowOdd), Pop("rdx"), Pop("rcx")>>
          /\ Hook[h].again = <<>>
      <3>1. CASE h = "emitter_register"
        <4>1. Hook["emitter_register"] = emitter_register
          BY DEF Hook
        <4>2. /\ emitter_register.around =
                   (<<Push("rcx"), Push("rdx"), SubRsp(ShadowOdd)>> \o CallHook)
                   \o <<AddRsp(ShadowOdd), Pop("rdx"), Pop("rcx")>>
              /\ emitter_register.again = <<>>
          BY SMT DEF emitter_register, OfEntry
        <4>. QED
          BY <3>1, <4>1, <4>2
      <3>2. CASE h = "render_emitter_destruct"
        <4>1. Hook["render_emitter_destruct"] = render_emitter_destruct
          BY DEF Hook
        <4>2. /\ render_emitter_destruct.around =
                   (<<Push("rcx"), Push("rdx"), SubRsp(ShadowOdd)>> \o CallHook)
                   \o <<AddRsp(ShadowOdd), Pop("rdx"), Pop("rcx")>>
              /\ render_emitter_destruct.again = <<>>
          BY SMT DEF render_emitter_destruct, OfEntry
        <4>. QED
          BY <3>2, <4>1, <4>2
      <3>. QED
        BY <1>2, <3>1, <3>2
    <2>2. /\ Short(<<Push("rcx"), Push("rdx"), SubRsp(ShadowOdd)>>, 3)
          /\ Short(<<AddRsp(ShadowOdd), Pop("rdx"), Pop("rcx")>>, 3)
      BY InstructionsAre DEF Short, ShadowOdd
    <2>3. Short(<<Push("rcx"), Push("rdx"), SubRsp(ShadowOdd)>> \o CallHook, 3 + 2)
      BY <2>2, PiecesShort, ShortJoined
    <2>4. Short((<<Push("rcx"), Push("rdx"), SubRsp(ShadowOdd)>> \o CallHook)
                \o <<AddRsp(ShadowOdd), Pop("rdx"), Pop("rcx")>>, (3 + 2) + 3)
      BY <2>2, <2>3, ShortJoined
    <2>. QED
      BY <1>1, <2>1, <2>4 DEF Short
  <1>3. CASE h = "emitter_destruct"
    <2>1. Hook[h].around = SaveThis /\ Hook[h].again = <<PushRbx, SubRsp(32)>>
      BY SMT, <1>3 DEF Hook, emitter_destruct
    <2>2. Short(<<PushRbx, SubRsp(32)>>, 2)
      BY InstructionsAre DEF Short
    <2>. QED
      BY <2>1, <2>2, PiecesShort DEF Short
  <1>4. CASE h = "render_emitter_register"
    <2>1. /\ Hook[h].around = FromSite \o CallHook
          /\ Hook[h].again = <<Load("rax", "r15"), Move("rcx", "r15")>>
      BY SMT, <1>4 DEF Hook, render_emitter_register
    <2>2. Short(FromSite \o CallHook, 2 + 2)
      BY PiecesShort, ShortJoined
    <2>3. Short(<<Load("rax", "r15"), Move("rcx", "r15")>>, 2)
      BY InstructionsAre DEF Short
    <2>. QED
      BY <2>1, <2>2, <2>3 DEF Short
  <1>5. CASE h = "bundle_file_read_simple"
    <2>1. Hook[h].around = SaveThis \o ReturnIfFound /\ Hook[h].again = <<LoadGlobal>>
      BY SMT, <1>5 DEF Hook, bundle_file_read_simple
    <2>2. Short(SaveThis \o ReturnIfFound, 6 + 3)
      BY PiecesShort, ShortJoined
    <2>3. Short(<<LoadGlobal>>, 2)
      BY InstructionsAre DEF Short
    <2>. QED
      BY <2>1, <2>2, <2>3 DEF Short
  <1>6. CASE h = "bundle_file_read_complex"
    <2>1. /\ Hook[h].around = ((<<Push("rcx"), Push("rdx"), Push("r8"), SubRsp(32)>> \o CallHook)
                               \o <<AddRsp(32), Pop("r8"), Pop("rdx"), Pop("rcx")>>) \o ReturnIfFound
          /\ Hook[h].again = <<LoadGlobal>>
      BY SMTT(30), <1>6 DEF Hook, bundle_file_read_complex
    <2>2. /\ Short(<<Push("rcx"), Push("rdx"), Push("r8"), SubRsp(32)>>, 4)
          /\ Short(<<AddRsp(32), Pop("r8"), Pop("rdx"), Pop("rcx")>>, 4)
      BY InstructionsAre DEF Short
    <2>3. PICK a, b : /\ a = <<Push("rcx"), Push("rdx"), Push("r8"), SubRsp(32)>>
                      /\ b = <<AddRsp(32), Pop("r8"), Pop("rdx"), Pop("rcx")>>
      OBVIOUS
    <2>4. Short(a, 4) /\ Short(b, 4) /\ Short(CallHook, 2) /\ Short(ReturnIfFound, 3)
      BY <2>2, <2>3, PiecesShort
    <2>5. Short(a \o CallHook, 4 + 2)
      BY <2>4, ShortJoined
    <2>6. Short((a \o CallHook) \o b, (4 + 2) + 4)
      BY <2>4, <2>5, ShortJoined
    <2>7. Short(((a \o CallHook) \o b) \o ReturnIfFound, ((4 + 2) + 4) + 3)
      BY <2>4, <2>6, ShortJoined
    <2>8. Short(<<LoadGlobal>>, 2)
      BY InstructionsAre DEF Short
    <2>. QED
      BY <2>1, <2>3, <2>7, <2>8 DEF Short
  <1>7. CASE h = "loop"
    <2>1. /\ Hook[h].around = CallHook
          /\ Hook[h].again = <<Load("rax", "rbx"), Move("rcx", "rbx")>>
      BY SMT, <1>7 DEF Hook, loop
    <2>2. Short(<<Load("rax", "rbx"), Move("rcx", "rbx")>>, 2)
      BY InstructionsAre DEF Short
    <2>. QED
      BY <2>1, <2>2, PiecesShort DEF Short
  <1>. QED
    BY HooksAre, <1>2, <1>3, <1>4, <1>5, <1>6, <1>7

\* Bytes is what its recursion says, and ten bytes are the longest instruction.
LEMMA BytesBound ==
  ASSUME NEW s \in Seq(Instructions)
  PROVE  Bytes(s) \in Nat /\ Bytes(s) <= 10 * Len(s)
  <1> DEFINE F(u) == u = [n \in 0 .. Len(s) |-> IF n = 0 THEN 0 ELSE u[n - 1] + s[n].size]
             upto == CHOOSE u : F(u)
             step == [p \in Nat \X Nat |->
                        p[2] + IF p[1] \in 1 .. Len(s) THEN s[p[1]].size ELSE 0]
  <1>1. \A n \in 1 .. Len(s) : s[n].size \in Nat /\ s[n].size <= 10
    <2>. SUFFICES ASSUME NEW n \in 1 .. Len(s) PROVE s[n].size \in Nat /\ s[n].size <= 10
      OBVIOUS
    <2>1. s[n] \in Instructions
      BY ElementOfSeq
    <2>2. s[n].size \in {1, 2, 3, 4, 5, 7, 10}
      BY <2>1 DEF Instructions
    <2>. QED
      BY <2>2
  <1>2. Len(s) \in Nat
    OBVIOUS
  <1>3. step \in [Nat \X Nat -> Nat]
    BY <1>1
  <1>4. PICK f \in [0 .. Len(s) -> Nat] : Recursive(f, Len(s), 0, step)
    <2>. HIDE DEF step
    <2>. QED
      BY <1>2, <1>3, RecursionWorks
  <1>5. \E u : F(u)
    <2>1. \A n \in 0 .. Len(s) : f[n] = IF n = 0 THEN 0 ELSE step[<<n, f[n - 1]>>]
      BY <1>4 DEF Recursive
    <2>2. ASSUME NEW n \in 0 .. Len(s), n # 0 PROVE step[<<n, f[n - 1]>>] = f[n - 1] + s[n].size
      <3>1. n - 1 \in 0 .. Len(s) /\ n \in 1 .. Len(s) /\ n \in Nat
        BY <1>2, <2>2
      <3>2. f[n - 1] \in Nat
        BY <3>1
      <3>. QED
        BY <3>1, <3>2
    <2>3. f = [n \in 0 .. Len(s) |-> f[n]]
      OBVIOUS
    <2>4. [n \in 0 .. Len(s) |-> f[n]]
            = [n \in 0 .. Len(s) |-> IF n = 0 THEN 0 ELSE f[n - 1] + s[n].size]
      <3>. HIDE DEF step
      <3>. QED
        BY <2>1, <2>2
    <2>. QED
      BY <2>3, <2>4
  <1>6. F(upto)
    <2>. HIDE DEF F
    <2>. QED
      BY <1>5
  <1>7. Bytes(s) = upto[Len(s)]
    BY Zenon DEF Bytes
  <1>8. PICK u : u = upto /\ F(u)
    BY <1>6
  <1>. HIDE DEF upto, step
  <1>9. \A n \in 0 .. Len(s) : u[n] = IF n = 0 THEN 0 ELSE u[n - 1] + s[n].size
    BY <1>8
  <1> DEFINE T == {n \in Nat : n <= Len(s) => u[n] \in Nat /\ u[n] <= 10 * n}
  <1>10. ASSUME NEW n \in Nat, \A k \in 0 .. n - 1 : k \in T PROVE n \in T
    <2>. SUFFICES ASSUME n <= Len(s) PROVE u[n] \in Nat /\ u[n] <= 10 * n
      OBVIOUS
    <2>1. CASE n = 0
      BY <1>9, <2>1
    <2>2. CASE n # 0
      <3>1. PICK m \in Nat : m = n - 1 /\ m \in 0 .. n - 1
        BY <2>2
      <3>2. u[m] \in Nat /\ u[m] <= 10 * m
        <4>1. m \in T
          <5>. HIDE DEF T
          <5>. QED
            BY <1>10, <3>1
        <4>. QED
          BY <3>1, <4>1
      <3>3. n \in 1 .. Len(s) /\ n \in 0 .. Len(s)
        BY <1>2, <2>2
      <3>4. u[n] = u[m] + s[n].size
        BY <1>9, <2>2, <3>1, <3>3
      <3>5. s[n].size \in Nat /\ s[n].size <= 10
        BY <1>1, <3>3
      <3>. QED
        BY <3>1, <3>2, <3>4, <3>5
    <2>. QED
      BY <2>1, <2>2
  <1>11. Len(s) \in T
    <2>. HIDE DEF T
    <2>. QED
      BY <1>2, <1>10, Induction
  <1>. QED
    BY <1>2, <1>7, <1>8, <1>11

LEMMA BytesAre ==
  ASSUME NEW h \in Hooks
  PROVE  Bytes(Code(Hook[h])) \in Nat /\ Bytes(Code(Hook[h])) <= 160
  <1>1. PICK a, b, j : a = Hook[h].around /\ b = Hook[h].again /\ j = <<Jump(Hook[h].resume)>>
    OBVIOUS
  <1>2. Short(a, 13) /\ Short(b, 2)
    BY <1>1, WrappersShort
  <1>3. Short(j, 1)
    <2>1. Hook[h].resume \in Int
      BY Places
    <2>2. Jump(Hook[h].resume) \in Instructions
      BY <2>1, InstructionsAre
    <2>. QED
      BY <1>1, <2>2 DEF Short
  <1>4. Short(a \o b, 13 + 2)
    BY <1>2, ShortJoined
  <1>5. Short((a \o b) \o j, (13 + 2) + 1)
    BY <1>3, <1>4, ShortJoined
  <1>6. PICK s : s = (a \o b) \o j
    OBVIOUS
  <1>7. s \in Seq(Instructions) /\ Len(s) \in Nat /\ Len(s) <= 16
    BY <1>5, <1>6 DEF Short
  <1>8. Code(Hook[h]) = s
    BY <1>1, <1>6 DEF Code
  <1>9. Bytes(s) \in Nat /\ Bytes(s) <= 10 * Len(s)
    BY <1>7, BytesBound
  <1>. QED
    BY <1>7, <1>8, <1>9

-----------------------------------------------------------------------------
(* Every step.                                                                *)

\* What FailuresExplained allows.
Blamed(p) ==
  \/ peer[p].at = "find" /\ peer[p].racing /\ ~peer[p].up
  \/ peer[p].type = 10 /\ path = "startup" /\ ~depot
  \/ peer[p].type = 5 /\ path = "dinput" /\ ~static_depot_pointer
  \/ peer[p].type = 10 /\ ~peer[p].stored

LEMMA LoaderKeeps ==
  ASSUME Inv, \/ StartServer \/ create_wrapper_space \/ Reserve \/ EmitWrapper \/ ModifyCode
              \/ WriteJump \/ LeaveScope \/ FindDepot \/ add_handler
  PROVE  /\ Inv' /\ UNCHANGED engine
         /\ \A p \in Peers : peer'[p].at = peer[p].at
  <1>1. Inv'
    BY StartServerKeeps, SearchKeeps, ReserveKeeps, EmitKeeps, ModifyKeeps, WriteKeeps, LeaveKeeps,
       FindDepotKeeps, AddHandlerKeeps
  <1>2. Loader
    BY DEF StartServer, create_wrapper_space, Reserve, EmitWrapper, ModifyCode, WriteJump,
           LeaveScope, FindDepot, add_handler
  <1>3. UNCHANGED engine
    BY <1>2 DEF Loader, game
  <1>4. CASE UNCHANGED peer
    BY <1>1, <1>3, <1>4
  <1>5. CASE peer' = [p \in Peers |->
               IF peer[p].at = "find" THEN [peer[p] EXCEPT !.racing = TRUE] ELSE peer[p]]
    <2>1. ASSUME NEW p \in Peers PROVE peer'[p].at = peer[p].at
      <3>1. PICK r \in Requests : r = peer[p]
        BY DEF Inv, PeersRight, Requests
      <3>2. peer'[p] = r \/ peer'[p] = [r EXCEPT !.racing = TRUE]
        BY <1>5, <3>1
      <3>3. [r EXCEPT !.racing = TRUE].at = r.at
        BY DEF Requests
      <3>. QED
        BY <3>1, <3>2, <3>3
    <2>. QED
      BY <1>1, <1>3, <2>1
  <1>6. UNCHANGED peer
        \/ peer' = [p \in Peers |->
             IF peer[p].at = "find" THEN [peer[p] EXCEPT !.racing = TRUE] ELSE peer[p]]
    BY DEF StartServer, create_wrapper_space, Reserve, EmitWrapper, ModifyCode, WriteJump,
           LeaveScope, FindDepot, add_handler
  <1>. QED
    BY <1>4, <1>5, <1>6

LEMMA NextKeeps ==
  ASSUME Inv, [Next]_vars
  PROVE  /\ Inv'
         /\ \A t \in Engine :
              /\ engine[t].at # "fault" /\ engine'[t].at = "fault" => Explained(t)
              /\ engine[t].at # "threw" /\ engine'[t].at = "threw" => Thrown(t)
         /\ \A p \in Peers :
              /\ peer[p].at # "crash" /\ peer'[p].at = "crash" => Blamed(p)
              /\ peer[p].at # "content" /\ peer'[p].at = "content" => Held
  <1>1. CASE \/ StartServer \/ create_wrapper_space \/ Reserve \/ EmitWrapper \/ ModifyCode
             \/ WriteJump \/ LeaveScope \/ FindDepot \/ add_handler
    BY <1>1, LoaderKeeps
  <1>2. CASE CreateDepot
    BY <1>2, CreateDepotKeeps
  <1>3. ASSUME NEW t \in Engine, NEW h \in Hooks, Enter(t, h)
        PROVE  /\ Inv' /\ UNCHANGED peer
               /\ \A u \in Engine :
                    /\ engine[u].at # "fault" /\ engine'[u].at = "fault" => Explained(u)
                    /\ engine[u].at # "threw" /\ engine'[u].at = "threw" => Thrown(u)
    BY <1>3, EnterKeeps
  <1>4. ASSUME NEW t \in Engine, AtSite(t) \/ InMiddle(t) \/ InWrapper(t) \/ Return(t)
        PROVE  /\ Inv' /\ UNCHANGED peer
               /\ \A u \in Engine :
                    /\ engine[u].at # "fault" /\ engine'[u].at = "fault" => Explained(u)
                    /\ engine[u].at # "threw" /\ engine'[u].at = "threw" => Thrown(u)
    BY <1>4, AtSiteKeeps, InMiddleKeeps, InWrapperKeeps, ReturnKeeps
  <1>5. ASSUME NEW p \in Peers,
               \/ \E type \in {5, 7, 10}, empty \in BOOLEAN : Ask(p, type, empty)
               \/ Find(p) \/ Handle(p)
        PROVE  /\ Inv' /\ UNCHANGED engine
               /\ \A q \in Peers :
                    /\ peer[q].at # "crash" /\ peer'[q].at = "crash" => Blamed(q)
                    /\ peer[q].at # "content" /\ peer'[q].at = "content" => Held
    <2>1. CASE \E type \in {5, 7, 10}, empty \in BOOLEAN : Ask(p, type, empty)
      BY <2>1, AskKeeps
    <2>2. CASE Find(p)
      BY <2>2, FindKeeps DEF Blamed
    <2>3. CASE Handle(p)
      BY <2>3, HandleKeeps DEF Blamed
    <2>. QED
      BY <1>5, <2>1, <2>2, <2>3
  <1>6. CASE UNCHANGED vars
    <2>1. UNCHANGED <<path, base, vacant, loader, table, game, peer>>
      BY <1>6 DEF vars
    <2>2. UNCHANGED <<pc, static_depot_pointer, depot, engine, tracked, peer>>
      BY <2>1 DEF loader, game
    <2>3. Done' = Done
      BY <2>2 DEF Done
    <2>4. GameRight'
      BY <2>1, <2>2, <2>3 DEF Inv, GameRight
    <2>. QED
      BY <2>1, <2>2, <2>4, LoaderStays, PeersStay DEF Inv
  <1>. QED
    BY <1>1, <1>2, <1>3, <1>4, <1>5, <1>6 DEF Next

LEMMA Invariance == Spec => []Inv
  <1>1. Inv /\ [Next]_vars => Inv'
    BY NextKeeps
  <1>. QED
    BY <1>1, InitRight, PTL DEF Spec

-----------------------------------------------------------------------------
(* The properties.                                                            *)

\* Types hold always; at most two scopes are open at once and none at the end.
THEOREM TypeCorrect == Spec => []TypeOK
  <1>1. ASSUME Inv PROVE TypeOK
    <2>. USE <1>1 DEF Inv
    <2>1. /\ pc \in 0 .. Len(InitializeMod) + 1 /\ tried \in 1 .. Tries + 1 /\ pc \in Nat
      BY Program DEF SearchRight
    <2>2. unused \in Nat
      <3>1. PICK k \in 0 .. 57 : k = pc
        BY DEF SearchRight
      <3>. QED
        BY <3>1, UsedIs DEF HooksRight
    <2>3. Len(code) <= 2 /\ (Done => code = <<>>)
      <3>1. CASE code = <<>>
        BY <3>1
      <3>2. CASE code # <<>>
        <4>1. PICK h \in Hooks : pc - Begins[h] \in 1 .. Closing(h)
          BY <3>2 DEF ScopesRight
        <4>2. PICK c \in {5, 6} : c = Closing(h)
          BY ClosingIn
        <4>3. pc - Begins[h] \in {1, 2, c} \/ pc - Begins[h] \in 3 .. c - 1
          <5>1. pc - Begins[h] \in 1 .. c
            BY <4>1, <4>2
          <5>. QED
            BY <5>1
        <4>4. code = <<WrapperScope(h)>> \/ code = <<SiteScope(h), WrapperScope(h)>>
          BY <4>2, <4>3 DEF ScopesRight
        <4>5. Len(<<WrapperScope(h)>>) <= 2 /\ Len(<<SiteScope(h), WrapperScope(h)>>) <= 2
          OBVIOUS
        <4>6. Done => pc = 57
          BY Program DEF Done
        <4>7. Done => code = <<>>
          BY <2>1, <4>6, ClosedAt
        <4>. QED
          BY <4>4, <4>5, <4>7
      <3>. QED
        BY <3>1, <3>2
    <2>4. Range(protection) \subseteq {"RX", "R", "RW"}
      <3>1. \A a : Original(a) \in {"R", "RX"}
        BY DEF Original
      <3>. QED
        BY <3>1 DEF ProtectionRight, Range
    <2>5. Range(slots) \subseteq Hooks
      BY DEF HooksRight, SlotsRight, Range
    <2>6. \A h \in Hooks : entry[h].is \in {"engine", "half", "hook"}
      BY DEF HooksRight, EntriesRight, Stage
    <2>7. static_depot_pointer \in BOOLEAN /\ depot \in BOOLEAN /\ tracked \in BOOLEAN
      BY DEF TableRight, GameRight
    <2>8. handlers \subseteq {5, 7, 10} /\ adding \in {0, 5, 7, 10}
      BY DEF TableRight
    <2>9. \A t \in Engine :
            engine[t].at \in {"away", "site", "middle", "wrapper", "return", "resume", "fault", "threw"}
      BY DEF GameRight
    <2>10. \A p \in Peers :
             /\ peer[p].at \in {"idle", "find", "handle", "unknown", "crash", "content"}
             /\ peer[p].stored \in BOOLEAN
      BY DEF PeersRight
    <2>. QED
      BY <2>1, <2>2, <2>3, <2>4, <2>5, <2>6, <2>7, <2>8, <2>9, <2>10 DEF TypeOK
  <1>2. Inv => TypeOK
    BY <1>1
  <1>. QED
    BY <1>2, Invariance, PTL

\* Wherever below the image the space is found, a live hook's jump leads to that
\* hook's own complete wrapper, and the wrapper leads back.
THEOREM JumpsLandAlways == Spec => []JumpsLand
  <1>1. ASSUME Inv PROVE JumpsLand
    <2>. SUFFICES ASSUME NEW h \in Hooks, entry[h].is = "hook"
                  PROVE  /\ Target(h) \in DOMAIN slots /\ slots[Target(h)] = h
                         /\ \A r \in Relative(h) : Follow(r.at, Offset32(r.at, r.to)) = r.to
      BY DEF JumpsLand
    <2>1. Stage(h, pc) = "hook"
      BY <1>1 DEF Inv, HooksRight, EntriesRight
    <2>2. /\ tried \in Nat /\ 1 <= tried /\ tried <= Tries
          /\ Target(h) = Slot(h) /\ Slot(h) \in DOMAIN slots /\ slots[Slot(h)] = h
      BY <1>1, <2>1, Live
    <2>3. PICK i \in Nat : i = tried /\ i <= 511 /\ Space = -(i * 65536)
      BY <2>2 DEF Space, Candidate, Granule, Tries
    <2>4. PICK o \in Nat : o = Used(Begins[h]) /\ o < 65536
      BY SMT, UsedIs, InitializationAssumption DEF Granule
    <2>5. PICK n \in Nat : n = Bytes(Code(Hook[h])) /\ n <= 160
      BY BytesAre
    <2>6. PICK e \in Int : e = -(i * 65536) + o + n /\ e = End(h)
      <3>1. End(h) = -(i * 65536) + o + n
        BY <2>2, <2>3, <2>4, <2>5 DEF End, Slot
      <3>. QED
        BY <3>1
    <2>7. -511 * 65536 <= e /\ e < 65536 + 160
      BY SMT, <2>3, <2>4, <2>5, <2>6
    <2>8. \A at \in Int, to \in Int :
            e - 9 <= at /\ at <= e /\ 0 <= to /\ to <= 16384 * 65536
              => Follow(at, Offset32(at, to)) = to
      <3>. SUFFICES ASSUME NEW at \in Int, NEW to \in Int,
                           e - 9 <= at, at <= e, 0 <= to, to <= 16384 * 65536
                    PROVE  Follow(at, Offset32(at, to)) = to
        BY SMT
      <3>1. Near(to - (at + 4))
        BY SMT, <2>7 DEF Near, TwoGiB
      <3>. QED
        BY SMT, <3>1, OffsetExact
    <2>9. ASSUME NEW r \in Relative(h) PROVE Follow(r.at, Offset32(r.at, r.to)) = r.to
      <3>1. PICK g \in Int : g = \h2AA43B8 /\ 0 <= g /\ g <= 16384 * 65536
        BY SMT
      <3>2. PICK s \in Int : s = Hook[h].resume /\ 0 <= s /\ s <= 16384 * 65536
        BY SMT, Places
      <3>3. r = [at |-> e - 4, to |-> s] \/ r = [at |-> e - 9, to |-> g]
        BY SMT, <2>6, <3>1, <3>2 DEF Relative
      <3>4. CASE r = [at |-> e - 4, to |-> s]
        <4>1. r.at = e - 4 /\ r.to = s
          BY <3>4
        <4>. QED
          BY SMT, <2>8, <3>2, <4>1
      <3>5. CASE r = [at |-> e - 9, to |-> g]
        <4>1. r.at = e - 9 /\ r.to = g
          BY <3>5
        <4>. QED
          BY SMT, <2>8, <3>1, <4>1
      <3>. QED
        BY <3>3, <3>4, <3>5
    <2>. QED
      BY <2>2, <2>9
  <1>2. Inv => JumpsLand
    BY <1>1
  <1>. QED
    BY <1>2, Invariance, PTL

\* Start-up ends early only where none of the places it may use is free, and
\* what it uses is free and above address zero.
THEOREM FullOrDone == Spec => []ThrowsOnlyWhenFull
  <1>1. ASSUME Inv PROVE ThrowsOnlyWhenFull
    <2>1. /\ tried \in Nat /\ 1 <= tried /\ Tries = 511 /\ base \in Nat
          /\ \A v \in vacant : v \in Nat /\ v >= 1
      BY <1>1, InitializationAssumption DEF Inv, SearchRight, Tries
    <2>2. ASSUME pc = 0, NEW v \in vacant PROVE v >= base \/ v > Tries
      <3>1. tried > Tries \/ tried >= base
        BY <1>1, <2>2 DEF Inv, SearchRight
      <3>2. v \notin 1 .. tried - 1
        BY <1>1, <2>2 DEF Inv, SearchRight
      <3>3. v >= tried
        BY <2>1, <2>2, <3>2
      <3>. QED
        BY <2>1, <2>2, <3>1, <3>3
    <2>3. ASSUME pc > 2 PROVE tried \in vacant /\ base - tried > 0
      BY <1>1, <2>1, <2>3 DEF Inv, SearchRight
    <2>. QED
      BY <2>2, <2>3 DEF ThrowsOnlyWhenFull, Threw
  <1>2. Inv => ThrowsOnlyWhenFull
    BY <1>1
  <1>. QED
    BY <1>2, Invariance, PTL

\* The patching makes the engine fault only on a late load, and only over code that
\* is being replaced at that moment; a bundle hook that throws has its depot pointer.
THEOREM FaultsAreExplained == Spec => FaultsExplained
  <1>1. Inv /\ [Next]_vars =>
          [\A t \in Engine :
             /\ engine[t].at # "fault" /\ engine'[t].at = "fault" =>
                  path = "dinput" /\ (engine[t].at = "middle" \/ (~Done /\ BeingWritten(Location(t))))
             /\ engine[t].at # "threw" /\ engine'[t].at = "threw" =>
                  engine[t].hook \in Reads /\ static_depot_pointer]_vars
    BY NextKeeps DEF Explained, Thrown
  <1>. QED
    BY <1>1, Invariance, PTL DEF Spec, FaultsExplained

\* A handler or its lookup follows a pointer that is not there in the four cases
\* only, the depot's contents are followed only when there is one, and a request
\* that comes after start-up is never unknown.
THEOREM FailuresAreExplained == Spec => FailuresExplained
  <1>1. Inv /\ [Next]_vars =>
          [\A p \in Peers :
             /\ peer'[p].at = "unknown" => ~peer'[p].up
             /\ peer[p].at # "crash" /\ peer'[p].at = "crash" =>
                  \/ peer[p].at = "find" /\ peer[p].racing /\ ~peer[p].up
                  \/ peer[p].type = 10 /\ path = "startup" /\ ~depot
                  \/ peer[p].type = 5 /\ path = "dinput" /\ ~static_depot_pointer
                  \/ peer[p].type = 10 /\ ~peer[p].stored
             /\ peer[p].at # "content" /\ peer'[p].at = "content" =>
                  static_depot_pointer /\ (path = "dinput" \/ Done)]_vars
    <2>. SUFFICES ASSUME Inv, [Next]_vars, NEW p \in Peers
                  PROVE  /\ peer'[p].at = "unknown" => ~peer'[p].up
                         /\ peer[p].at # "crash" /\ peer'[p].at = "crash" => Blamed(p)
                         /\ peer[p].at # "content" /\ peer'[p].at = "content" => Held
      BY DEF Blamed, Held
    <2>. QED
      BY NextKeeps DEF Inv, PeersRight
  <1>. QED
    BY <1>1, Invariance, PTL DEF Spec, FailuresExplained
===============================================================================
