---------------------------- MODULE LauncherProofs ----------------------------
(* The safety of Launcher.tla for any import table, any directory of mods and *)
(* any threads.                                                               *)
EXTENDS Launcher, SequenceTheorems, TLAPS

\* What a slot may hold (the provers do not know a literal to be a STRING).
Value == STRING \cup {"hook"}

\* Slot s has been looked at as one of kernel32's: in an import that is done
\* with, or in the one the search is in.
Covered(s) ==
  \E n \in 1 .. Count :
    /\ Kernel32(n) /\ FirstThunk(n) <= s
    /\ \/ n < i /\ s < FirstThunk(n + 1)
       \/ n = i /\ preload = "function" /\ s < j

\* The search stays within the thunks of its import, so it leaves the table only
\* where no import follows; and there it cannot end.
Attached ==
  /\ image \in Images /\ slots \in Seq(Value) /\ Len(slots) = Len(image.slots)
  /\ preload \in {"import", "function", "done", "fault"}
  /\ i \in 1 .. Count + 1 /\ j \in 0 .. Len(slots) + 1
  /\ preload = "done" => i = Count + 1
  /\ preload = "fault" => i = Count /\ Count > 0 /\ Kernel32(i)
  /\ preload = "function" =>
       /\ i <= Count /\ Kernel32(i) /\ FirstThunk(i) <= j
       /\ i < Count => j <= FirstThunk(i + 1)
  /\ \A n \in 1 .. Count : Kernel32(n) /\ n < i => n < Count
  /\ preload # "fault" =>
       \A s \in 1 .. Len(slots) :
         slots[s] = IF Covered(s) /\ image.slots[s] = "GetStartupInfoW"
                    THEN "hook" ELSE image.slots[s]

Places == {"out", "check_load", "get_mods_directory", "load_mods_dlls", "load_mod_dlls",
           "original", "terminated"}

InMod == {"load_mod_dlls", "terminated"}

\* One thread at most searches, and when none does any more, everything has been
\* searched.
OneLoads ==
  /\ loaded \in BOOLEAN /\ at \in [Threads -> Places]
  /\ mods \in Seq(Entry) /\ m \in 1 .. Len(mods) + 1 /\ f \in Nat
  /\ \A t, u \in Threads : Loading(t) /\ Loading(u) => t = u
  /\ ~loaded => (\A t \in Threads : ~Loading(t)) /\ mods = <<>>
  /\ \A t \in Threads :
       /\ at[t] = "get_mods_directory" => mods = <<>>
       /\ at[t] \in InMod => m <= Len(mods) /\ IsMod(mods[m]) /\ f >= 1
  /\ (loaded /\ \A t \in Threads : ~Loading(t)) => m = Len(mods) + 1

\* What the two nested searches have behind them.
Passed(id) == \/ id[1] < m
              \/ id[1] = m /\ id[2] < f /\ \E t \in Threads : at[t] \in InMod

InitialisedRight ==
  /\ initialised \in Seq(Nat \X Nat)
  /\ ToSet(initialised) = {id \in Wanted(mods) : Passed(id)}
  /\ \A x, y \in DOMAIN initialised : x < y => Before(initialised[x], initialised[y])

Inv == Attached /\ OneLoads /\ InitialisedRight

-----------------------------------------------------------------------------
(* The search of the import table.                                            *)

\* What the assumption says of the game: the tables are as long as they say, and
\* the terminator has a zero.
LEMMA TableRight ==
  ASSUME image \in Images
  PROVE  /\ Count \in Nat /\ image.slots \in Seq(Value) /\ Len(image.slots) \in Nat
         /\ \A n \in 1 .. Count :
              /\ FirstThunk(n) \in 1 .. Len(image.slots) /\ Kernel32(n) \in BOOLEAN
              /\ n < Count => FirstThunk(n) <= FirstThunk(n + 1)
         /\ FirstThunk(Count + 1) = 0
  <1>1. image.imports \in Seq(Import) /\ image.slots \in Seq(STRING)
    BY LauncherAssumption
  <1>2. Count \in Nat /\ Len(image.slots) \in Nat /\ image.slots \in Seq(Value)
    BY <1>1 DEF Count, Value
  <1>3. ASSUME NEW n \in 1 .. Count
        PROVE  /\ FirstThunk(n) \in 1 .. Len(image.slots) /\ Kernel32(n) \in BOOLEAN
               /\ n < Count => FirstThunk(n) <= FirstThunk(n + 1)
    <2>1. image.imports[n] \in Import
      BY <1>1 DEF Count
    <2>2. n \in 1 .. Len(image.imports) /\ (n < Count => n \in 1 .. Len(image.imports) - 1)
      BY <1>2 DEF Count
    <2>3. image.imports[n].first <= Len(image.slots)
      BY <2>2, LauncherAssumption
    <2>4. n < Count => image.imports[n].first <= image.imports[n + 1].first
      BY <2>2, LauncherAssumption
    <2>5. image.imports[n].first \in Nat \ {0} /\ image.imports[n].kernel32 \in BOOLEAN
      BY <2>1 DEF Import
    <2>6. FirstThunk(n) = image.imports[n].first
      BY <1>2 DEF FirstThunk
    <2>7. n < Count => FirstThunk(n + 1) = image.imports[n + 1].first
      BY <1>2 DEF FirstThunk
    <2>. QED
      BY <1>2, <2>3, <2>4, <2>5, <2>6, <2>7 DEF Kernel32
  <1>4. FirstThunk(Count + 1) = 0
    BY <1>2 DEF FirstThunk
  <1>. QED
    BY <1>1, <1>2, <1>3, <1>4

\* The table stays, whatever happens to the slots.
LEMMA TableStays ==
  ASSUME image' = image
  PROVE  /\ Count' = Count
         /\ \A n : FirstThunk(n)' = FirstThunk(n) /\ Kernel32(n)' = Kernel32(n)
  BY DEF Count, FirstThunk, Kernel32

LEMMA AttachedAtFirst == Init => Attached
  <1>. SUFFICES ASSUME Init PROVE Attached
    OBVIOUS
  <1>1. image \in Images /\ slots = image.slots /\ preload = "import" /\ i = 1 /\ j = 0
    BY DEF Init
  <1>2. Count \in Nat /\ image.slots \in Seq(Value) /\ Len(image.slots) \in Nat
    BY <1>1, TableRight
  <1>3. ASSUME NEW s PROVE ~Covered(s)
    BY <1>1, <1>2 DEF Covered
  <1>. QED
    BY <1>1, <1>2, <1>3 DEF Attached

LEMMA ImportKeeps == ASSUME Attached, PreloadImport PROVE Attached'
  <1>1. /\ image \in Images /\ slots \in Seq(Value) /\ Len(slots) = Len(image.slots)
        /\ i \in 1 .. Count + 1 /\ j \in 0 .. Len(slots) + 1 /\ preload = "import"
        /\ \A n \in 1 .. Count : Kernel32(n) /\ n < i => n < Count
        /\ image' = image /\ slots' = slots
    BY DEF Attached, PreloadImport, Attaching
  <1>2. /\ Count \in Nat /\ Len(image.slots) \in Nat
        /\ \A n \in 1 .. Count : FirstThunk(n) \in 1 .. Len(image.slots)
        /\ \A n \in 1 .. Count : n < Count => FirstThunk(n) <= FirstThunk(n + 1)
    BY <1>1, TableRight
  <1>3. /\ Count' = Count
        /\ \A n : FirstThunk(n)' = FirstThunk(n) /\ Kernel32(n)' = Kernel32(n)
    BY <1>1, TableStays
  <1>4. \/ i > Count /\ preload' = "done" /\ UNCHANGED <<i, j>>
        \/ i <= Count /\ Kernel32(i) /\ preload' = "function" /\ j' = FirstThunk(i) /\ i' = i
        \/ i <= Count /\ ~Kernel32(i) /\ i' = i + 1 /\ UNCHANGED <<preload, j>>
    BY DEF PreloadImport
  <1>5. \A s \in 1 .. Len(slots) : Covered(s)' <=> Covered(s)
    <2>1. CASE i > Count /\ preload' = "done" /\ UNCHANGED <<i, j>>
      BY <2>1, <1>1, <1>2, <1>3 DEF Covered
    <2>2. CASE i <= Count /\ preload' = "function" /\ j' = FirstThunk(i) /\ i' = i
      BY <2>2, <1>1, <1>2, <1>3 DEF Covered
    <2>3. CASE i <= Count /\ ~Kernel32(i) /\ i' = i + 1 /\ UNCHANGED <<preload, j>>
      BY <2>3, <1>1, <1>2, <1>3 DEF Covered
    <2>. QED
      BY <1>4, <2>1, <2>2, <2>3
  <1>6. \A s \in 1 .. Len(slots) :
          slots[s] = IF Covered(s) /\ image.slots[s] = "GetStartupInfoW"
                     THEN "hook" ELSE image.slots[s]
    BY <1>1 DEF Attached
  <1>7. \A s \in 1 .. Len(slots') :
          slots'[s] = IF Covered(s)' /\ image'.slots[s] = "GetStartupInfoW"
                      THEN "hook" ELSE image'.slots[s]
    BY <1>1, <1>5, <1>6
  <1>8. /\ i' \in 1 .. Count' + 1 /\ j' \in 0 .. Len(slots') + 1
        /\ preload' \in {"import", "function", "done"}
        /\ preload' = "done" => i' = Count' + 1
        /\ preload' = "function" =>
             /\ i' <= Count' /\ Kernel32(i)' /\ FirstThunk(i)' <= j'
             /\ i' < Count' => j' <= FirstThunk(i + 1)'
        /\ \A n \in 1 .. Count' : Kernel32(n)' /\ n < i' => n < Count'
    <2>1. CASE i > Count /\ preload' = "done" /\ UNCHANGED <<i, j>>
      BY <2>1, <1>1, <1>2, <1>3
    <2>2. CASE i <= Count /\ Kernel32(i) /\ preload' = "function" /\ j' = FirstThunk(i) /\ i' = i
      <3>1. /\ FirstThunk(i)' = FirstThunk(i) /\ FirstThunk(i + 1)' = FirstThunk(i + 1)
            /\ Kernel32(i)' = Kernel32(i)
        BY <2>2, <1>1 DEF FirstThunk, Kernel32, Count
      <3>. QED
        BY <2>2, <3>1, <1>1, <1>2, <1>3
    <2>3. CASE i <= Count /\ ~Kernel32(i) /\ i' = i + 1 /\ UNCHANGED <<preload, j>>
      BY <2>3, <1>1, <1>2, <1>3
    <2>. QED
      BY <1>4, <2>1, <2>2, <2>3
  <1>. QED
    BY <1>1, <1>7, <1>8 DEF Attached

\* Slots are replaced one by one, within the import; the search goes on with the
\* next import only where there is one.
LEMMA FunctionKeeps == ASSUME Attached, PreloadFunction PROVE Attached'
  <1>1. /\ image \in Images /\ slots \in Seq(Value) /\ Len(slots) = Len(image.slots)
        /\ i \in 1 .. Count + 1 /\ j \in 0 .. Len(slots) + 1 /\ preload = "function"
        /\ i <= Count /\ Kernel32(i) /\ FirstThunk(i) <= j
        /\ i < Count => j <= FirstThunk(i + 1)
        /\ \A n \in 1 .. Count : Kernel32(n) /\ n < i => n < Count
        /\ image' = image
    BY DEF Attached, PreloadFunction, Attaching
  <1>2. /\ Count \in Nat /\ Len(image.slots) \in Nat /\ FirstThunk(Count + 1) = 0
        /\ \A n \in 1 .. Count : FirstThunk(n) \in 1 .. Len(image.slots)
        /\ \A n \in 1 .. Count : n < Count => FirstThunk(n) <= FirstThunk(n + 1)
    BY <1>1, TableRight
  <1>3. /\ Count' = Count
        /\ \A n : FirstThunk(n)' = FirstThunk(n) /\ Kernel32(n)' = Kernel32(n)
    BY <1>1, TableStays
  <1>4. \A s \in 1 .. Len(slots) :
          slots[s] = IF Covered(s) /\ image.slots[s] = "GetStartupInfoW"
                     THEN "hook" ELSE image.slots[s]
    BY <1>1 DEF Attached
  <1>5. i = Count => j # FirstThunk(i + 1)
    BY <1>1, <1>2
  <1>6. CASE j = FirstThunk(i + 1) /\ preload' = "import" /\ i' = i + 1 /\ UNCHANGED <<j, slots>>
    <2>1. i < Count
      BY <1>1, <1>2, <1>5, <1>6
    <2>2. \A s \in 1 .. Len(slots) : Covered(s)' <=> Covered(s)
      BY SMTT(30), <2>1, <1>1, <1>2, <1>3, <1>6 DEF Covered
    <2>3. \A s \in 1 .. Len(slots') :
            slots'[s] = IF Covered(s)' /\ image'.slots[s] = "GetStartupInfoW"
                        THEN "hook" ELSE image'.slots[s]
      BY <2>2, <1>1, <1>4, <1>6
    <2>4. /\ i' \in 1 .. Count' + 1 /\ j' \in 0 .. Len(slots') + 1
          /\ \A n \in 1 .. Count' : Kernel32(n)' /\ n < i' => n < Count'
      BY <2>1, <1>1, <1>2, <1>3, <1>6
    <2>. QED
      BY <2>3, <2>4, <1>1, <1>6 DEF Attached
  <1>7. CASE j # FirstThunk(i + 1) /\ j > Len(slots) /\ preload' = "fault" /\ UNCHANGED <<i, j, slots>>
    <2>1. i = Count
      <3>1. i < Count => FirstThunk(i + 1) \in 1 .. Len(image.slots)
        BY <1>1, <1>2
      <3>. QED
        BY <3>1, <1>1, <1>2, <1>7
    <2>2. Kernel32(i)'
      BY <1>1, <1>7 DEF Kernel32
    <2>. QED
      BY <2>1, <2>2, <1>1, <1>2, <1>3, <1>7 DEF Attached
  <1>8. CASE /\ j # FirstThunk(i + 1) /\ j <= Len(slots)
             /\ slots' = [slots EXCEPT ![j] = IF @ = "GetStartupInfoW" THEN "hook" ELSE @]
             /\ j' = j + 1 /\ UNCHANGED <<preload, i>>
    <2>1. j \in 1 .. Len(slots) /\ (i < Count => j + 1 <= FirstThunk(i + 1))
      <3>1. FirstThunk(i) \in 1 .. Len(image.slots)
        BY <1>1, <1>2
      <3>2. i < Count => FirstThunk(i + 1) \in 1 .. Len(image.slots)
        BY <1>1, <1>2
      <3>. QED
        BY <3>1, <3>2, <1>1, <1>2, <1>8
    <2>2. slots' \in Seq(Value) /\ Len(slots') = Len(slots)
      <3>1. slots \in [1 .. Len(slots) -> Value] /\ Len(slots) \in Nat
        BY <1>1, <1>2
      <3>2. slots' \in [1 .. Len(slots) -> Value]
        <4>1. slots[j] \in Value
          BY <3>1, <2>1
        <4>2. "hook" \in Value
          BY DEF Value
        <4>3. (IF slots[j] = "GetStartupInfoW" THEN "hook" ELSE slots[j]) \in Value
          BY <4>1, <4>2
        <4>4. PICK value \in Value : slots' = [slots EXCEPT ![j] = value]
          BY <4>3, <1>8
        <4>. QED
          BY <4>4, <3>1
      <3>. QED
        BY <3>1, <3>2
    <2>3. PICK k \in 1 .. Len(slots) : k = j /\ i \in 1 .. Count
      BY <2>1, <1>1
    <2>4. ASSUME NEW s \in 1 .. Len(slots), s # k
          PROVE  (Covered(s)' <=> Covered(s)) /\ slots'[s] = slots[s]
      <3>1. slots'[s] = slots[s]
        BY <2>3, <2>4, <1>1, <1>8
      <3>2. s < j + 1 <=> s < j
        BY <2>3, <2>4, <1>1
      <3>3. Covered(s)' <=> Covered(s)
        BY <3>2, <1>1, <1>3, <1>8 DEF Covered
      <3>. QED
        BY <3>1, <3>3
    <2>5. Covered(k)'
      <3>1. Kernel32(i)' /\ FirstThunk(i)' <= k /\ i' = i /\ i' \in 1 .. Count' /\ k < j'
        BY <2>3, <1>1, <1>3, <1>8 DEF Kernel32, FirstThunk, Count
      <3>. QED
        BY <3>1, <1>1, <1>8 DEF Covered
    <2>6. ASSUME NEW s \in 1 .. Len(slots)
          PROVE  slots'[s] = IF Covered(s)' /\ image'.slots[s] = "GetStartupInfoW"
                             THEN "hook" ELSE image'.slots[s]
      <3>1. CASE s = k
        <4>1. slots'[k] = IF slots[k] = "GetStartupInfoW" THEN "hook" ELSE slots[k]
          BY <2>3, <1>1, <1>8
        <4>. QED
          BY <3>1, <4>1, <2>3, <2>5, <1>1, <1>4
      <3>2. CASE s # k
        BY <3>2, <2>4, <1>1, <1>4
      <3>. QED
        BY <3>1, <3>2
    <2>7. \A s \in 1 .. Len(slots') :
            slots'[s] = IF Covered(s)' /\ image'.slots[s] = "GetStartupInfoW"
                        THEN "hook" ELSE image'.slots[s]
      BY <2>2, <2>6
    <2>8. /\ FirstThunk(i)' = FirstThunk(i) /\ FirstThunk(i + 1)' = FirstThunk(i + 1)
          /\ Kernel32(i)' = Kernel32(i)
      BY <1>1, <1>8 DEF FirstThunk, Kernel32, Count
    <2>. QED
      BY <2>1, <2>2, <2>7, <2>8, <1>1, <1>2, <1>3, <1>8 DEF Attached
  <1>. QED
    BY <1>6, <1>7, <1>8 DEF PreloadFunction

\* Loading mods does not touch the table, nor the search of it the loading.
LEMMA AttachedStays ==
  ASSUME Attached, UNCHANGED <<image, preload, i, j, slots>>
  PROVE  Attached'
  <1>1. /\ Count' = Count
        /\ \A n : FirstThunk(n)' = FirstThunk(n) /\ Kernel32(n)' = Kernel32(n)
    BY TableStays
  <1>2. \A s : Covered(s)' <=> Covered(s)
    BY <1>1 DEF Covered
  <1>3. Kernel32(i)' = Kernel32(i) /\ FirstThunk(i)' = FirstThunk(i)
        /\ FirstThunk(i + 1)' = FirstThunk(i + 1)
    BY DEF Kernel32, FirstThunk, Count
  <1>. QED
    BY <1>1, <1>2, <1>3 DEF Attached

-----------------------------------------------------------------------------
(* The searches for mods.                                                     *)

\* What the property takes for wanted is what the two searches look for.
LEMMA WantedIs ==
  ASSUME NEW folder \in Seq(Entry)
  PROVE  /\ Wanted(folder) \subseteq Nat \X Nat
         /\ \A n, k : <<n, k>> \in Wanted(folder) <=>
              /\ n \in 1 .. Len(folder) /\ k \in 1 .. Len(folder[n].files)
              /\ IsMod(folder[n]) /\ Loadable(folder[n].files[k])
         /\ \A n \in 1 .. Len(folder) : folder[n].files \in Seq(File)
         /\ Len(folder) \in Nat
  <1>1. /\ Len(folder) \in Nat /\ DOMAIN folder = 1 .. Len(folder)
        /\ \A n \in 1 .. Len(folder) : folder[n] \in Entry
    OBVIOUS
  <1>2. \A n \in 1 .. Len(folder) : folder[n].files \in Seq(File)
    BY <1>1 DEF Entry
  <1>3. \A n \in 1 .. Len(folder) :
          DOMAIN folder[n].files = 1 .. Len(folder[n].files) /\ Len(folder[n].files) \in Nat
    BY <1>2
  <1>4. ASSUME NEW id \in Wanted(folder) PROVE id \in Nat \X Nat
    <2>1. PICK n \in DOMAIN folder : id \in {n} \X DOMAIN folder[n].files
      BY <1>4 DEF Wanted
    <2>. QED
      BY <2>1, <1>1, <1>3
  <1>5. ASSUME NEW n, NEW k
        PROVE  <<n, k>> \in Wanted(folder) <=>
                 /\ n \in 1 .. Len(folder) /\ k \in 1 .. Len(folder[n].files)
                 /\ IsMod(folder[n]) /\ Loadable(folder[n].files[k])
    <2>1. <<n, k>> \in UNION {{x} \X DOMAIN folder[x].files : x \in DOMAIN folder}
            <=> n \in 1 .. Len(folder) /\ k \in 1 .. Len(folder[n].files)
      <3>1. ASSUME <<n, k>> \in UNION {{x} \X DOMAIN folder[x].files : x \in DOMAIN folder}
            PROVE  n \in 1 .. Len(folder) /\ k \in 1 .. Len(folder[n].files)
        <4>1. PICK x \in DOMAIN folder : <<n, k>> \in {x} \X DOMAIN folder[x].files
          BY <3>1
        <4>. QED
          BY <4>1, <1>1, <1>3
      <3>2. ASSUME n \in 1 .. Len(folder), k \in 1 .. Len(folder[n].files)
            PROVE  <<n, k>> \in UNION {{x} \X DOMAIN folder[x].files : x \in DOMAIN folder}
        <4>1. n \in DOMAIN folder /\ <<n, k>> \in {n} \X DOMAIN folder[n].files
          BY <3>2, <1>1, <1>3
        <4>. QED
          BY <4>1
      <3>. QED
        BY <3>1, <3>2
    <2>. QED
      BY <2>1 DEF Wanted, IsMod, Loadable, IsDll
  <1>. QED
    BY <1>1, <1>2, <1>4, <1>5

\* A folder that is not known yet has no mods.
LEMMA NoneWanted == Wanted(<<>>) = {}
  <1>1. \A id : id \notin UNION {{n} \X DOMAIN <<>>[n].files : n \in DOMAIN <<>>}
    OBVIOUS
  <1>. QED
    BY <1>1 DEF Wanted

LEMMA LoadingAtFirst == Init => OneLoads /\ InitialisedRight
  <1>. SUFFICES ASSUME Init PROVE OneLoads /\ InitialisedRight
    OBVIOUS
  <1>1. /\ mods = <<>> /\ loaded = FALSE /\ at = [t \in Threads |-> "out"] /\ m = 1 /\ f = 0
        /\ initialised = <<>>
    BY DEF Init
  <1>2. \A t \in Threads : ~Loading(t)
    BY <1>1 DEF Loading
  <1>3. OneLoads
    <2>1. mods \in Seq(Entry) /\ Len(mods) = 0 /\ m \in 1 .. Len(mods) + 1 /\ f \in Nat
      BY <1>1
    <2>2. at \in [Threads -> Places] /\ \A t \in Threads : at[t] = "out"
      BY <1>1 DEF Places
    <2>. QED
      BY <1>1, <1>2, <2>1, <2>2 DEF OneLoads, InMod
  <1>4. Wanted(mods) = {}
    BY <1>1, NoneWanted
  <1>5. ToSet(initialised) = {}
    BY <1>1 DEF ToSet
  <1>6. InitialisedRight
    BY <1>1, <1>4, <1>5 DEF InitialisedRight
  <1>. QED
    BY <1>3, <1>6

LEMMA LoadingStays ==
  ASSUME OneLoads, InitialisedRight, UNCHANGED <<mods, loaded, at, m, f, initialised>>
  PROVE  OneLoads' /\ InitialisedRight'
  <1>1. \A t \in Threads : Loading(t)' <=> Loading(t)
    BY DEF Loading
  <1>2. OneLoads'
    BY <1>1 DEF OneLoads, InMod
  <1>3. Wanted(mods)' = Wanted(mods) /\ ToSet(initialised)' = ToSet(initialised)
    BY DEF ToSet
  <1>4. \A id : Passed(id)' <=> Passed(id)
    BY DEF Passed, InMod
  <1>5. InitialisedRight'
    BY <1>3, <1>4 DEF InitialisedRight
  <1>. QED
    BY <1>2, <1>5

LoadingPlaces == {"get_mods_directory", "load_mods_dlls", "load_mod_dlls", "terminated"}

\* Where a thread goes, and where it is no more.
LEMMA Moves ==
  ASSUME OneLoads, NEW t \in Threads, NEW place \in Places, GoTo(t, place)
  PROVE  /\ at' \in [Threads -> Places] /\ at'[t] = place
         /\ \A u \in Threads \ {t} : at'[u] = at[u] /\ (Loading(u)' <=> Loading(u))
         /\ Loading(t)' <=> place \in LoadingPlaces
  BY DEF OneLoads, GoTo, Loading, LoadingPlaces, InMod

\* A call that passes by: the thread is not the one that loads and does not
\* become it.
LEMMA PassingKeeps ==
  ASSUME OneLoads, InitialisedRight, NEW t \in Threads, ~Loading(t),
         NEW place \in {"out", "check_load", "original"}, GoTo(t, place),
         UNCHANGED <<mods, loaded, m, f, initialised>>
  PROVE  OneLoads' /\ InitialisedRight'
  <1>1. /\ at' \in [Threads -> Places] /\ at'[t] = place
        /\ \A u \in Threads \ {t} : at'[u] = at[u] /\ (Loading(u)' <=> Loading(u))
        /\ ~Loading(t)'
    BY Moves DEF Places, InMod, LoadingPlaces
  <1>2. \A u \in Threads : Loading(u)' <=> Loading(u)
    BY <1>1
  <1>3. \A u \in Threads : /\ at'[u] \in InMod <=> at[u] \in InMod
                           /\ at'[u] = "get_mods_directory" => at[u] = "get_mods_directory"
    BY <1>1 DEF Loading, InMod
  <1>4. OneLoads'
    BY <1>1, <1>2, <1>3 DEF OneLoads, IsMod, InMod
  <1>5. Wanted(mods)' = Wanted(mods) /\ ToSet(initialised)' = ToSet(initialised)
    BY DEF ToSet
  <1>6. \A id : Passed(id)' <=> Passed(id)
    BY <1>3 DEF Passed, InMod
  <1>7. InitialisedRight'
    BY <1>5, <1>6 DEF InitialisedRight
  <1>. QED
    BY <1>4, <1>7

LEMMA CallKeeps ==
  ASSUME OneLoads, InitialisedRight, NEW t \in Threads, Call(t)
  PROVE  OneLoads' /\ InitialisedRight'
  <1>1. ~Loading(t) /\ UNCHANGED <<mods, loaded, m, f, initialised>>
    BY DEF Call, Loading
  <1>2. GoTo(t, "check_load") \/ GoTo(t, "original")
    BY DEF Call
  <1>. QED
    BY <1>1, <1>2, PassingKeeps

LEMMA OriginalKeeps ==
  ASSUME OneLoads, InitialisedRight, NEW t \in Threads, Original(t)
  PROVE  OneLoads' /\ InitialisedRight'
  <1>1. ~Loading(t) /\ GoTo(t, "out") /\ UNCHANGED <<mods, loaded, m, f, initialised>>
    BY DEF Original, Loading
  <1>. QED
    BY <1>1, PassingKeeps

\* The first thread through the compare-and-exchange finds nobody loading, and
\* finds the folder not searched yet.
LEMMA CheckLoadKeeps ==
  ASSUME OneLoads, InitialisedRight, NEW t \in Threads, check_load(t)
  PROVE  OneLoads' /\ InitialisedRight'
  <1>1. CASE ~Claimed /\ UNCHANGED loaded /\ GoTo(t, "original")
    <2>1. ~Loading(t) /\ UNCHANGED <<mods, loaded, m, f, initialised>>
      BY <1>1 DEF check_load, Loading
    <2>. QED
      BY <1>1, <2>1, PassingKeeps
  <1>2. CASE Claimed /\ loaded' = TRUE /\ GoTo(t, "get_mods_directory")
    <2>1. UNCHANGED <<mods, m, f, initialised>> /\ ~loaded
      BY <1>2 DEF check_load, Claimed
    <2>2. mods = <<>> /\ \A u \in Threads : ~Loading(u)
      BY <2>1 DEF OneLoads, InMod
    <2>3. /\ at' \in [Threads -> Places] /\ at'[t] = "get_mods_directory"
          /\ \A u \in Threads \ {t} : at'[u] = at[u] /\ (Loading(u)' <=> Loading(u))
          /\ Loading(t)'
      BY <1>2, Moves DEF Places, InMod, LoadingPlaces
    <2>4. \A u \in Threads : at'[u] \notin InMod
      BY <2>2, <2>3 DEF Loading, InMod
    <2>5. OneLoads'
      BY <1>2, <2>1, <2>2, <2>3, <2>4 DEF OneLoads, InMod
    <2>6. Wanted(mods) = {} /\ Wanted(mods)' = {} /\ ToSet(initialised)' = ToSet(initialised)
      BY <2>1, <2>2, NoneWanted DEF ToSet
    <2>7. InitialisedRight'
      BY <2>1, <2>6 DEF InitialisedRight
    <2>. QED
      BY <2>5, <2>7
  <1>. QED
    BY <1>1, <1>2 DEF check_load

\* What a thread that loads may count on: it is the only one.
LEMMA Alone ==
  ASSUME OneLoads, NEW t \in Threads, Loading(t)
  PROVE  \A u \in Threads \ {t} : ~Loading(u) /\ at[u] \notin LoadingPlaces
  BY DEF OneLoads, Loading, LoadingPlaces, InMod

LEMMA DirectoryKeeps ==
  ASSUME OneLoads, InitialisedRight, NEW t \in Threads, get_mods_directory(t)
  PROVE  OneLoads' /\ InitialisedRight'
  <1>1. /\ mods' \in Folders /\ GoTo(t, "load_mods_dlls") /\ UNCHANGED <<loaded, m, f, initialised>>
        /\ at[t] = "get_mods_directory" /\ Loading(t)
    BY DEF get_mods_directory, Loading
  <1>2. mods = <<>> /\ loaded /\ m \in 1 .. Len(mods) + 1
    BY <1>1 DEF OneLoads, InMod
  <1>3. m = 1
    BY <1>2
  <1>4. mods' \in Seq(Entry) /\ Len(mods') \in Nat
    BY <1>1, LauncherAssumption
  <1>5. /\ at' \in [Threads -> Places] /\ at'[t] = "load_mods_dlls"
        /\ \A u \in Threads \ {t} : at'[u] = at[u] /\ (Loading(u)' <=> Loading(u))
        /\ Loading(t)'
    BY <1>1, Moves DEF Places, InMod, LoadingPlaces
  <1>6. \A u \in Threads \ {t} : ~Loading(u)' /\ at'[u] \notin LoadingPlaces
    BY <1>1, <1>5, Alone DEF Loading, InMod, LoadingPlaces
  <1>7. OneLoads'
    BY <1>1, <1>2, <1>3, <1>4, <1>5, <1>6 DEF OneLoads, InMod, LoadingPlaces
  <1>8. Wanted(mods) = {}
    BY <1>2, NoneWanted
  <1>9. initialised \in Seq(Nat \X Nat) /\ ToSet(initialised) = {}
        /\ \A x, y \in DOMAIN initialised : x < y => Before(initialised[x], initialised[y])
    BY <1>8 DEF InitialisedRight
  <1>10. ASSUME NEW id \in Wanted(mods') PROVE ~Passed(id)'
    <2>1. Wanted(mods') \subseteq Nat \X Nat
      BY <1>4, WantedIs
    <2>2. PICK n \in Nat, k \in Nat : id = <<n, k>>
      BY <1>10, <2>1
    <2>3. n \in 1 .. Len(mods')
      BY <1>4, <1>10, <2>2, WantedIs
    <2>. QED
      BY <1>1, <1>3, <1>5, <1>6, <2>2, <2>3 DEF Passed, InMod, LoadingPlaces
  <1>11. ToSet(initialised)' = {id \in Wanted(mods') : Passed(id)'}
    BY <1>1, <1>9, <1>10 DEF ToSet
  <1>12. InitialisedRight'
    BY <1>1, <1>9, <1>11 DEF InitialisedRight
  <1>. QED
    BY <1>7, <1>12

\* The search of the folder goes on past what is not a mod, into a mod, or ends
\* with everything behind it.
LEMMA ModsKeeps ==
  ASSUME OneLoads, InitialisedRight, NEW t \in Threads, load_mods_dlls(t)
  PROVE  OneLoads' /\ InitialisedRight'
  <1>1. /\ at[t] = "load_mods_dlls" /\ Loading(t)
        /\ UNCHANGED <<mods, loaded, initialised>>
    BY DEF load_mods_dlls, Loading
  <1>2. /\ loaded = TRUE /\ mods \in Seq(Entry) /\ m \in 1 .. Len(mods) + 1 /\ f \in Nat
        /\ at \in [Threads -> Places] /\ Len(mods) \in Nat
    BY <1>1 DEF OneLoads, InMod
  <1>3. \A u \in Threads \ {t} : ~Loading(u) /\ at[u] \notin LoadingPlaces
    BY <1>1, Alone DEF Loading, InMod, LoadingPlaces
  <1>4. /\ Wanted(mods) \subseteq Nat \X Nat
        /\ \A n, k : <<n, k>> \in Wanted(mods) =>
             n \in 1 .. Len(mods) /\ IsMod(mods[n]) /\ k \in 1 .. Len(mods[n].files)
    BY <1>2, WantedIs
  <1>5. \A id \in Wanted(mods) : Passed(id) <=> id[1] < m
    BY <1>1, <1>3 DEF Passed, InMod, LoadingPlaces
  <1>6. SUFFICES OneLoads' /\ \A id \in Wanted(mods) : Passed(id)' <=> Passed(id)
    BY <1>1 DEF InitialisedRight, ToSet
  <1>7. CASE m > Len(mods) /\ GoTo(t, "original") /\ UNCHANGED <<m, f>>
    <2>1. /\ at' \in [Threads -> Places] /\ at'[t] = "original"
          /\ \A u \in Threads \ {t} : at'[u] = at[u] /\ (Loading(u)' <=> Loading(u))
          /\ ~Loading(t)'
      BY <1>2, <1>7, Moves DEF Places, OneLoads, InMod, LoadingPlaces
    <2>2. \A u \in Threads : ~Loading(u)' /\ at'[u] \notin LoadingPlaces
      BY <2>1, <1>3 DEF Loading, LoadingPlaces, InMod
    <2>3. m = Len(mods) + 1
      BY <1>2, <1>7
    <2>4. OneLoads'
      BY <2>1, <2>2, <2>3, <1>1, <1>2, <1>7 DEF OneLoads, InMod
    <2>5. \A id \in Wanted(mods) : Passed(id)' <=> id[1] < m
      BY <2>2, <1>7 DEF Passed, InMod, LoadingPlaces
    <2>. QED
      BY <2>4, <2>5, <1>5
  <1>8. CASE m <= Len(mods) /\ IsMod(mods[m]) /\ f' = 1 /\ GoTo(t, "load_mod_dlls") /\ m' = m
    <2>1. /\ at' \in [Threads -> Places] /\ at'[t] = "load_mod_dlls"
          /\ \A u \in Threads \ {t} : at'[u] = at[u] /\ (Loading(u)' <=> Loading(u))
          /\ Loading(t)'
      BY <1>8, Moves DEF Places, InMod, LoadingPlaces
    <2>2. \A u \in Threads \ {t} : ~Loading(u)' /\ at'[u] \notin LoadingPlaces
      BY <2>1, <1>3
    <2>3. IsMod(mods[m])'
      BY <1>1, <1>8 DEF IsMod
    <2>4. OneLoads'
      BY <2>1, <2>2, <2>3, <1>1, <1>2, <1>8 DEF OneLoads, InMod
    <2>5. ASSUME NEW id \in Wanted(mods) PROVE Passed(id)' <=> id[1] < m
      <3>1. PICK n \in Nat, k \in Nat : id = <<n, k>>
        BY <1>4, <2>5
      <3>2. k \in 1 .. Len(mods[n].files)
        BY <1>4, <2>5, <3>1
      <3>3. ~(k < f')
        BY <1>8, <3>2
      <3>. QED
        BY <1>8, <3>1, <3>3 DEF Passed, InMod
    <2>. QED
      BY <2>4, <2>5, <1>5
  <1>9. CASE m <= Len(mods) /\ ~IsMod(mods[m]) /\ m' = m + 1 /\ UNCHANGED <<at, f>>
    <2>1. \A u \in Threads : Loading(u)' <=> Loading(u)
      BY <1>9 DEF Loading
    <2>2. \A u \in Threads : at'[u] \notin InMod \cup {"get_mods_directory"}
      BY <1>1, <1>3, <1>9 DEF Loading, LoadingPlaces, InMod
    <2>3. m' \in 1 .. Len(mods') + 1
      BY <1>1, <1>2, <1>9
    <2>4. \E u \in Threads : Loading(u)'
      BY <2>1, <1>1
    <2>5. OneLoads'
      BY <2>1, <2>2, <2>3, <2>4, <1>1, <1>2, <1>9 DEF OneLoads, InMod
    <2>6. ASSUME NEW id \in Wanted(mods) PROVE Passed(id)' <=> id[1] < m
      <3>1. PICK n \in Nat, k \in Nat : id = <<n, k>>
        BY <1>4, <2>6
      <3>2. n # m
        BY <1>4, <1>9, <2>6, <3>1
      <3>3. n < m + 1 <=> n < m
        BY <1>2, <3>1, <3>2
      <3>. QED
        BY <1>9, <2>2, <3>1, <3>3 DEF Passed, InMod
    <2>. QED
      BY <2>5, <2>6, <1>5
  <1>. QED
    BY <1>7, <1>8, <1>9 DEF load_mods_dlls, NextEntry

\* At the end of a mod the search of the folder goes on behind it, with all the
\* mod's DLLs passed.
LEMMA ModEndKeeps ==
  ASSUME OneLoads, InitialisedRight, NEW t \in Threads, at[t] = "load_mod_dlls",
         f > Len(mods[m].files), m' = m + 1, GoTo(t, "load_mods_dlls"),
         UNCHANGED <<mods, loaded, f, initialised>>
  PROVE  OneLoads' /\ InitialisedRight'
  <1>1. Loading(t)
    BY DEF Loading
  <1>2. /\ loaded = TRUE /\ mods \in Seq(Entry) /\ m \in 1 .. Len(mods) + 1 /\ f \in Nat
        /\ at \in [Threads -> Places] /\ Len(mods) \in Nat /\ m <= Len(mods)
    BY <1>1 DEF OneLoads, InMod
  <1>3. \A u \in Threads \ {t} : ~Loading(u) /\ at[u] \notin LoadingPlaces
    BY <1>1, Alone DEF Loading, InMod, LoadingPlaces
  <1>4. /\ Wanted(mods) \subseteq Nat \X Nat
        /\ \A n, k : <<n, k>> \in Wanted(mods) => k \in 1 .. Len(mods[n].files)
        /\ Len(mods[m].files) \in Nat
    <2>1. mods[m].files \in Seq(File)
      BY <1>2, WantedIs
    <2>. QED
      BY <2>1, <1>2, WantedIs
  <1>5. /\ at' \in [Threads -> Places] /\ at'[t] = "load_mods_dlls"
        /\ \A u \in Threads \ {t} : at'[u] = at[u] /\ (Loading(u)' <=> Loading(u))
        /\ Loading(t)'
    BY Moves DEF Places, InMod, LoadingPlaces
  <1>6. /\ \A u \in Threads : at'[u] \notin InMod \cup {"get_mods_directory"}
        /\ \A u \in Threads \ {t} : ~Loading(u)'
    BY <1>3, <1>5 DEF Loading, LoadingPlaces, InMod
  <1>7. m' \in 1 .. Len(mods') + 1
    BY <1>2
  <1>8. OneLoads'
    BY <1>2, <1>5, <1>6, <1>7 DEF OneLoads, InMod
  <1>9. ASSUME NEW id \in Wanted(mods) PROVE Passed(id)' <=> Passed(id)
    <2>1. PICK n \in Nat, k \in Nat : id = <<n, k>>
      BY <1>4, <1>9
    <2>2. k \in 1 .. Len(mods[n].files)
      BY <1>4, <1>9, <2>1
    <2>3. Passed(id)' <=> n < m + 1
      BY <1>6, <2>1 DEF Passed, InMod
    <2>4. Passed(id) <=> n < m \/ (n = m /\ k < f)
      BY <2>1 DEF Passed, InMod
    <2>5. n = m => k < f
      BY <1>2, <1>4, <2>1, <2>2
    <2>. QED
      BY <1>2, <2>1, <2>3, <2>4, <2>5
  <1>. QED
    BY <1>8, <1>9 DEF InitialisedRight, ToSet

\* A DLL put behind those that come before it.
LEMMA Initialising ==
  ASSUME NEW done \in Seq(Nat \X Nat), NEW id \in Nat \X Nat,
         \A x, y \in DOMAIN done : x < y => Before(done[x], done[y]),
         \A old \in ToSet(done) : Before(old, id)
  PROVE  /\ Append(done, id) \in Seq(Nat \X Nat)
         /\ ToSet(Append(done, id)) = ToSet(done) \cup {id}
         /\ \A x, y \in DOMAIN Append(done, id) :
              x < y => Before(Append(done, id)[x], Append(done, id)[y])
  <1>1. PICK N \in Nat : N = Len(done)
    OBVIOUS
  <1>2. PICK more : more = Append(done, id)
    OBVIOUS
  <1>3. /\ more \in Seq(Nat \X Nat) /\ DOMAIN more = 1 .. N + 1 /\ DOMAIN done = 1 .. N
        /\ more[N + 1] = id /\ \A x \in 1 .. N : more[x] = done[x]
    BY <1>1, <1>2
  <1>4. ToSet(more) = ToSet(done) \cup {id}
    <2>1. \A x \in 1 .. N + 1 : x \in 1 .. N \/ x = N + 1
      BY <1>1
    <2>2. \A x \in 1 .. N : x \in 1 .. N + 1
      BY <1>1
    <2>3. N + 1 \in 1 .. N + 1
      BY <1>1
    <2>. QED
      BY <1>3, <2>1, <2>2, <2>3 DEF ToSet
  <1>5. ASSUME NEW x \in DOMAIN more, NEW y \in DOMAIN more, x < y
        PROVE  Before(more[x], more[y])
    <2>1. x \in 1 .. N
      BY <1>3, <1>5
    <2>2. CASE y \in 1 .. N
      BY <1>3, <1>5, <2>1, <2>2
    <2>3. CASE y = N + 1
      <3>1. done[x] \in ToSet(done)
        BY <1>3, <2>1 DEF ToSet
      <3>. QED
        BY <1>3, <2>1, <2>3, <3>1
    <2>. QED
      BY <1>3, <1>5, <2>2, <2>3
  <1>. QED
    BY <1>2, <1>3, <1>4, <1>5

\* One more file of a mod has been looked at, and its DLL initialised if it is
\* one that can be.
LEMMA FileKeeps ==
  ASSUME OneLoads, InitialisedRight, NEW t \in Threads, at[t] = "load_mod_dlls",
         f <= Len(mods[m].files), f' = f + 1, UNCHANGED <<mods, loaded, m>>,
         at' = at \/ GoTo(t, "terminated"),
         initialised' = IF Loadable(mods[m].files[f]) THEN Append(initialised, <<m, f>>)
                        ELSE initialised
  PROVE  OneLoads' /\ InitialisedRight'
  <1>1. /\ mods \in Seq(Entry) /\ m \in 1 .. Len(mods) /\ f \in Nat /\ Len(mods) \in Nat
        /\ IsMod(mods[m]) /\ f >= 1
    BY DEF OneLoads, InMod
  <1>2. /\ at' \in [Threads -> Places] /\ at'[t] \in InMod
        /\ \A u \in Threads : Loading(u)' <=> Loading(u)
        /\ \A u \in Threads : at'[u] = "get_mods_directory" => at[u] = "get_mods_directory"
    <2>1. CASE at' = at
      BY <2>1 DEF OneLoads, Loading, InMod
    <2>2. CASE GoTo(t, "terminated")
      <3>1. /\ at' \in [Threads -> Places] /\ at'[t] = "terminated" /\ Loading(t)'
            /\ \A u \in Threads \ {t} : at'[u] = at[u] /\ (Loading(u)' <=> Loading(u))
        BY <2>2, Moves DEF Places, LoadingPlaces
      <3>. QED
        BY <3>1 DEF InMod, Loading
    <2>. QED
      BY <2>1, <2>2
  <1>3. OneLoads'
    <2>1. \A u \in Threads : Loading(u)' <=> Loading(u)
      BY <1>2
    <2>2. f' \in Nat /\ f' >= 1
      BY <1>1
    <2>3. IsMod(mods[m])'
      BY <1>1 DEF IsMod
    <2>4. /\ loaded' \in BOOLEAN /\ at' \in [Threads -> Places]
          /\ mods' \in Seq(Entry) /\ m' \in 1 .. Len(mods') + 1
          /\ ~loaded' => (\A u \in Threads : ~Loading(u)') /\ mods' = <<>>
          /\ \A u, v \in Threads : Loading(u)' /\ Loading(v)' => u = v
          /\ (loaded' /\ \A u \in Threads : ~Loading(u)') => m' = Len(mods') + 1
          /\ \A u \in Threads : at'[u] = "get_mods_directory" => mods' = <<>>
      BY <1>2 DEF OneLoads, InMod
    <2>5. m' <= Len(mods')
      BY <1>1
    <2>. QED
      <3>1. /\ IsMod(mods'[m'])
        BY <2>3 DEF IsMod
      <3>2. \A u \in Threads :
              at'[u] \in InMod => m' <= Len(mods') /\ IsMod(mods'[m']) /\ f' >= 1
        BY <2>2, <2>5, <3>1
      <3>. QED
        BY <2>2, <2>4, <3>2 DEF OneLoads, InMod
  <1>4. /\ Wanted(mods) \subseteq Nat \X Nat
        /\ \A n, k : <<n, k>> \in Wanted(mods) <=>
             /\ n \in 1 .. Len(mods) /\ k \in 1 .. Len(mods[n].files)
             /\ IsMod(mods[n]) /\ Loadable(mods[n].files[k])
        /\ Len(mods[m].files) \in Nat
    <2>1. mods \in Seq(Entry)
      BY <1>1
    <2>2. mods[m].files \in Seq(File)
      BY <1>1, <2>1, WantedIs
    <2>3. Len(mods[m].files) \in Nat
      BY <2>2
    <2>4. Wanted(mods) \subseteq Nat \X Nat
      BY <2>1, WantedIs
    <2>5. \A n, k : <<n, k>> \in Wanted(mods) <=>
             /\ n \in 1 .. Len(mods) /\ k \in 1 .. Len(mods[n].files)
             /\ IsMod(mods[n]) /\ Loadable(mods[n].files[k])
      BY <2>1, WantedIs
    <2>. QED
      BY <2>3, <2>4, <2>5
  <1>5. ASSUME NEW id \in Wanted(mods)
        PROVE  /\ Passed(id) <=> Before(id, <<m, f>>)
               /\ Passed(id)' <=> Passed(id) \/ id = <<m, f>>
    <2>1. PICK n \in Nat, k \in Nat : id = <<n, k>>
      BY <1>4, <1>5
    <2>2. Passed(id) <=> n < m \/ (n = m /\ k < f)
      BY <2>1 DEF Passed, InMod
    <2>3. Passed(id)' <=> n < m \/ (n = m /\ k < f + 1)
      BY <1>2, <2>1 DEF Passed, InMod
    <2>4. k < f + 1 <=> k < f \/ k = f
      BY <1>1, <2>1
    <2>5. id = <<m, f>> <=> n = m /\ k = f
      BY <2>1
    <2>6. ~(n < m /\ n = m)
      BY <1>1, <2>1
    <2>7. Before(id, <<m, f>>) <=> n < m \/ (n = m /\ k < f)
      BY <2>1 DEF Before
    <2>. QED
      BY <2>2, <2>3, <2>4, <2>5, <2>6, <2>7
  <1>6. /\ initialised \in Seq(Nat \X Nat)
        /\ ToSet(initialised) = {id \in Wanted(mods) : Passed(id)}
        /\ \A x, y \in DOMAIN initialised : x < y => Before(initialised[x], initialised[y])
    BY DEF InitialisedRight
  <1>7. CASE <<m, f>> \in Wanted(mods)
    <2>1. initialised' = Append(initialised, <<m, f>>)
      BY <1>4, <1>7
    <2>2. <<m, f>> \in Nat \X Nat
      BY <1>4, <1>7
    <2>3. \A old \in ToSet(initialised) : Before(old, <<m, f>>)
      BY <1>5, <1>6
    <2>4. PICK id \in Nat \X Nat : id = <<m, f>>
      BY <2>2
    <2>5. PICK more : more = Append(initialised, id)
      OBVIOUS
    <2>6. /\ more \in Seq(Nat \X Nat) /\ ToSet(more) = ToSet(initialised) \cup {id}
          /\ \A x, y \in DOMAIN more : x < y => Before(more[x], more[y])
      BY <1>6, <2>3, <2>4, <2>5, Initialising
    <2>7. initialised' = more
      BY <2>1, <2>4, <2>5
    <2>8. ToSet(more) = {old \in Wanted(mods) : Passed(old)'}
      BY <1>5, <1>6, <1>7, <2>4, <2>6
    <2>9. ToSet(initialised)' = ToSet(more)
      BY <2>7 DEF ToSet
    <2>10. InitialisedRight'
      BY <2>6, <2>7, <2>8, <2>9 DEF InitialisedRight
    <2>. QED
      BY <2>10, <1>3
  <1>8. CASE <<m, f>> \notin Wanted(mods)
    <2>1. initialised' = initialised
      <3>1. f \in 1 .. Len(mods[m].files) => ~Loadable(mods[m].files[f])
        BY <1>1, <1>4, <1>8
      <3>. QED
        BY <3>1, <1>1, <1>4
    <2>2. \A id \in Wanted(mods) : Passed(id)' <=> Passed(id)
      BY <1>5, <1>8
    <2>3. ToSet(initialised)' = ToSet(initialised)
      BY <2>1 DEF ToSet
    <2>4. InitialisedRight'
      BY <1>6, <2>1, <2>2, <2>3 DEF InitialisedRight
    <2>. QED
      BY <2>4, <1>3
  <1>. QED
    BY <1>7, <1>8

LEMMA FilesKeeps ==
  ASSUME OneLoads, InitialisedRight, NEW t \in Threads, load_mod_dlls(t)
  PROVE  OneLoads' /\ InitialisedRight'
  <1>1. at[t] = "load_mod_dlls" /\ UNCHANGED <<mods, loaded>>
    BY DEF load_mod_dlls
  <1>2. CASE /\ f > Len(mods[m].files) /\ m' = m + 1 /\ GoTo(t, "load_mods_dlls")
             /\ UNCHANGED <<f, initialised>>
    BY <1>1, <1>2, ModEndKeeps
  <1>3. CASE /\ f <= Len(mods[m].files) /\ f' = f + 1 /\ UNCHANGED m
             /\ at' = at \/ GoTo(t, "terminated")
             /\ initialised' = IF Loadable(mods[m].files[f])
                               THEN Append(initialised, <<m, f>>) ELSE initialised
    BY <1>1, <1>3, FileKeeps
  <1>. QED
    BY <1>2, <1>3 DEF load_mod_dlls, NextEntry

-----------------------------------------------------------------------------
(* The theorems.                                                              *)

LEMMA NextKeeps == Inv /\ [Next]_vars => Inv'
  <1>. SUFFICES ASSUME Inv, [Next]_vars PROVE Inv'
    OBVIOUS
  <1>1. ASSUME PreloadImport PROVE Inv'
    <2>1. UNCHANGED <<mods, loaded, at, m, f, initialised>>
      BY <1>1 DEF PreloadImport, Attaching
    <2>. QED
      BY <1>1, <2>1, ImportKeeps, LoadingStays DEF Inv
  <1>2. ASSUME PreloadFunction PROVE Inv'
    <2>1. UNCHANGED <<mods, loaded, at, m, f, initialised>>
      BY <1>2 DEF PreloadFunction, Attaching
    <2>. QED
      BY <1>2, <2>1, FunctionKeeps, LoadingStays DEF Inv
  <1>3. ASSUME NEW t \in Threads, Call(t) PROVE Inv'
    <2>1. UNCHANGED <<image, preload, i, j, slots>>
      BY <1>3 DEF Call, Running
    <2>. QED
      BY <1>3, <2>1, AttachedStays, CallKeeps DEF Inv
  <1>4. ASSUME NEW t \in Threads, check_load(t) PROVE Inv'
    <2>1. UNCHANGED <<image, preload, i, j, slots>>
      BY <1>4 DEF check_load, Running
    <2>. QED
      BY <1>4, <2>1, AttachedStays, CheckLoadKeeps DEF Inv
  <1>5. ASSUME NEW t \in Threads, get_mods_directory(t) PROVE Inv'
    <2>1. UNCHANGED <<image, preload, i, j, slots>>
      BY <1>5 DEF get_mods_directory, Running
    <2>. QED
      BY <1>5, <2>1, AttachedStays, DirectoryKeeps DEF Inv
  <1>6. ASSUME NEW t \in Threads, load_mods_dlls(t) PROVE Inv'
    <2>1. UNCHANGED <<image, preload, i, j, slots>>
      BY <1>6 DEF load_mods_dlls, Running
    <2>. QED
      BY <1>6, <2>1, AttachedStays, ModsKeeps DEF Inv
  <1>7. ASSUME NEW t \in Threads, load_mod_dlls(t) PROVE Inv'
    <2>1. UNCHANGED <<image, preload, i, j, slots>>
      BY <1>7 DEF load_mod_dlls, Running
    <2>. QED
      BY <1>7, <2>1, AttachedStays, FilesKeeps DEF Inv
  <1>8. ASSUME NEW t \in Threads, Original(t) PROVE Inv'
    <2>1. UNCHANGED <<image, preload, i, j, slots>>
      BY <1>8 DEF Original, Running
    <2>. QED
      BY <1>8, <2>1, AttachedStays, OriginalKeeps DEF Inv
  <1>9. ASSUME UNCHANGED vars PROVE Inv'
    <2>1. /\ UNCHANGED <<image, preload, i, j, slots>>
          /\ UNCHANGED <<mods, loaded, at, m, f, initialised>>
      BY <1>9 DEF vars
    <2>. QED
      BY <2>1, AttachedStays, LoadingStays DEF Inv
  <1>. QED
    BY <1>1, <1>2, <1>3, <1>4, <1>5, <1>6, <1>7, <1>8, <1>9 DEF Next, Step

LEMMA Invariance == Spec => []Inv
  <1>1. Init => Inv
    BY AttachedAtFirst, LoadingAtFirst DEF Inv
  <1>2. Inv /\ [Next]_vars => Inv'
    BY NextKeeps
  <1>. QED
    BY <1>1, <1>2, PTL DEF Spec

\* Type correctness: the indices stay in the tables and folders they go through,
\* up to one behind them, and no two threads load mods at the same time, whatever
\* the game imports and however its threads call.
THEOREM TypeCorrect == Spec => []TypeOK
  <1>1. Inv => TypeOK
    BY DEF Inv, Attached, OneLoads, TypeOK, InMod
  <1>. QED
    BY <1>1, Invariance, PTL

\* preload: when it returns, the hook is where kernel32's GetStartupInfoW was and
\* nowhere else, in any import table; it does not return only where kernel32 is
\* the last import.
THEOREM PreloadFindsAll == Spec => []PreloadExact
  <1>1. ASSUME Inv PROVE PreloadExact
    <2>1. image \in Images /\ slots \in Seq(Value) /\ i \in 1 .. Count + 1
      BY <1>1 DEF Inv, Attached
    <2>2. Count \in Nat /\ \A n \in 1 .. Count : n < Count => FirstThunk(n + 1) \in 1 .. Len(image.slots)
      BY <2>1, TableRight
    <2>3. preload = "fault" => image.imports[Count].kernel32
      BY <1>1 DEF Inv, Attached, Kernel32
    <2>4. ASSUME preload = "done", NEW s \in DOMAIN slots
          PROVE  FromKernel32(s) <=> Covered(s)
      <3>1. i = Count + 1 /\ \A n \in 1 .. Count : Kernel32(n) => n < Count
        BY <1>1, <2>2, <2>4 DEF Inv, Attached
      <3>. QED
        BY <2>2, <2>4, <3>1 DEF FromKernel32, Covered, Kernel32
    <2>5. ASSUME preload = "done"
          PROVE  slots = [s \in DOMAIN slots |->
                            IF FromKernel32(s) /\ image.slots[s] = "GetStartupInfoW"
                            THEN "hook" ELSE image.slots[s]]
      <3>1. \A s \in DOMAIN slots :
              slots[s] = IF Covered(s) /\ image.slots[s] = "GetStartupInfoW"
                         THEN "hook" ELSE image.slots[s]
        BY <1>1, <2>1, <2>5 DEF Inv, Attached
      <3>2. \A s \in DOMAIN slots :
              slots[s] = IF FromKernel32(s) /\ image.slots[s] = "GetStartupInfoW"
                         THEN "hook" ELSE image.slots[s]
        BY <2>4, <2>5, <3>1
      <3>3. slots = [s \in DOMAIN slots |-> slots[s]]
        BY <2>1
      <3>. QED
        BY <3>2, <3>3
    <2>. QED
      BY <2>3, <2>5 DEF PreloadExact
  <1>. QED
    BY <1>1, Invariance, PTL

\* check_load and the searches: no mod is initialised twice or out of order, none
\* is left out for a neighbour that fails, and a thread that finds the mods
\* loaded or being loaded goes on without them only in the second case, for any
\* folder and any number of threads.
THEOREM ModsLoadedOnce == Spec => []ModsInitialised
  <1>1. ASSUME Inv PROVE ModsInitialised
    <2>1. /\ mods \in Seq(Entry) /\ Len(mods) \in Nat /\ m \in 1 .. Len(mods) + 1 /\ f \in Nat
          /\ (loaded /\ \A t \in Threads : ~Loading(t)) => m = Len(mods) + 1
      BY <1>1 DEF Inv, OneLoads, InMod
    <2>2. /\ ToSet(initialised) = {id \in Wanted(mods) : Passed(id)}
          /\ \A x, y \in DOMAIN initialised : x < y => Before(initialised[x], initialised[y])
      BY <1>1 DEF Inv, InitialisedRight
    <2>3. /\ Wanted(mods) \subseteq Nat \X Nat
          /\ \A n, k : <<n, k>> \in Wanted(mods) => n \in 1 .. Len(mods)
      BY <2>1, WantedIs
    <2>4. ASSUME NEW id \in Wanted(mods), NEW done \in ToSet(initialised), Before(id, done)
          PROVE  id \in ToSet(initialised)
      <3>1. PICK n \in Nat, k \in Nat : id = <<n, k>>
        BY <2>3
      <3>2. PICK x \in Nat, y \in Nat : done = <<x, y>>
        BY <2>2, <2>3
      <3>3. n < x \/ (n = x /\ k < y)
        BY <2>4, <3>1, <3>2 DEF Before
      <3>4. Passed(done)
        BY <2>2
      <3>5. x < m \/ (x = m /\ y < f /\ \E t \in Threads : at[t] \in InMod)
        BY <3>2, <3>4 DEF Passed, InMod
      <3>6. n < m \/ (n = m /\ k < f /\ \E t \in Threads : at[t] \in InMod)
        BY <2>1, <3>1, <3>2, <3>3, <3>5
      <3>7. Passed(id)
        BY <3>1, <3>6 DEF Passed, InMod
      <3>. QED
        BY <2>2, <3>7
    <2>5. ASSUME loaded, \A t \in Threads : ~Loading(t)
          PROVE  ToSet(initialised) = Wanted(mods)
      <3>1. m = Len(mods) + 1
        BY <2>1, <2>5
      <3>2. ASSUME NEW id \in Wanted(mods) PROVE Passed(id)
        <4>1. PICK n \in Nat, k \in Nat : id = <<n, k>>
          BY <2>3
        <4>2. n \in 1 .. Len(mods)
          BY <2>3, <3>2, <4>1
        <4>. QED
          BY <2>1, <3>1, <4>1, <4>2 DEF Passed, InMod
      <3>. QED
        BY <2>2, <3>2
    <2>. QED
      BY <2>2, <2>4, <2>5 DEF ModsInitialised
  <1>. QED
    BY <1>1, Invariance, PTL
===============================================================================
