------------------------------ MODULE Launcher ------------------------------
(* The proxy dinput8.dll.  As the process attaches, it puts its own function  *)
(* into the game's import table for GetStartupInfoW; the first call of that   *)
(* or of DirectInput8Create loads the mods.                                   *)
EXTENDS Integers, Sequences, SequencesExt

CONSTANTS
  Threads,   \* threads of the game
  Images,    \* [imports: Seq([kernel32, first]), slots], with `first` ascending
  Folders    \* what the searched directory may hold: Seq([directory, mod, files])

Import == [kernel32 : BOOLEAN, first : Nat \ {0}]
File   == [directory : BOOLEAN, dll : BOOLEAN, loads : BOOLEAN, exports : BOOLEAN]
Entry  == [directory : BOOLEAN, mod : BOOLEAN, files : Seq(File)]

ASSUME LauncherAssumption ==
  /\ \A g \in Images :
       /\ g.imports \in Seq(Import) /\ g.slots \in Seq(STRING)
       /\ \A n \in 1 .. Len(g.imports) : g.imports[n].first <= Len(g.slots)
       /\ \A n \in 1 .. Len(g.imports) - 1 : g.imports[n].first <= g.imports[n + 1].first
  /\ Folders \subseteq Seq(Entry)

VARIABLES
  image, mods,           \* the game; the directory searched for mods
  preload, i, j, slots,  \* DllLoader::preload, and the imported functions' addresses
  loaded,
  at, m, f,              \* each thread; the two searches of the one that loads
  initialised            \* the DLLs whose InitializeMod has been called, in order

vars == <<image, mods, preload, i, j, slots, loaded, at, m, f, initialised>>

-----------------------------------------------------------------------------
(* preload                                                                    *)

Init ==
  /\ image \in Images /\ mods = <<>>
  /\ preload = "import" /\ i = 1 /\ j = 0 /\ slots = image.slots
  /\ loaded = FALSE
  /\ at = [t \in Threads |-> "out"] /\ m = 1 /\ f = 0
  /\ initialised = <<>>

Count == Len(image.imports)   \* without the terminator
FirstThunk(n) == IF n <= Count THEN image.imports[n].first ELSE 0

Attaching == UNCHANGED <<image, mods, loaded, at, m, f, initialised>>

AnyName(n)  == TRUE           \* mutant: the name is not compared
Kernel32(n) == image.imports[n].kernel32

PreloadImport ==
  /\ preload = "import"
  /\ \/ i > Count /\ preload' = "done" /\ UNCHANGED <<i, j>>
     \/ i <= Count /\ Kernel32(i) /\ preload' = "function" /\ j' = FirstThunk(i) /\ UNCHANGED i
     \/ i <= Count /\ ~Kernel32(i) /\ i' = i + 1 /\ UNCHANGED <<preload, j>>
  /\ Attaching /\ UNCHANGED slots

\* The thunks of the next import end the loop.  Behind the last import that is
\* the terminator's zero, the difference is huge, and the loop goes on to the
\* end of the image.
PreloadFunction ==
  /\ preload = "function"
  /\ \/ j = FirstThunk(i + 1)
        /\ preload' = "import" /\ i' = i + 1 /\ UNCHANGED <<j, slots>>
     \/ j # FirstThunk(i + 1) /\ j > Len(slots)
        /\ preload' = "fault" /\ UNCHANGED <<i, j, slots>>
     \/ j # FirstThunk(i + 1) /\ j <= Len(slots)
        /\ slots' = [slots EXCEPT ![j] = IF @ = "GetStartupInfoW" THEN "hook" ELSE @]
        /\ j' = j + 1 /\ UNCHANGED <<preload, i>>
  /\ Attaching

-----------------------------------------------------------------------------
(* check_load and load                                                        *)

Running ==
  /\ preload = "done" /\ \A t \in Threads : at[t] # "terminated"
  /\ UNCHANGED <<image, preload, i, j, slots>>

GoTo(t, place) == at' = [at EXCEPT ![t] = place]

\* DirectInput8Create, or GetStartupInfoW through a slot of the table.
Call(t) ==
  /\ Running /\ at[t] = "out"
  /\ \/ GoTo(t, "check_load")
     \/ \E s \in ToSet(slots) : \/ s = "hook" /\ GoTo(t, "check_load")
                                \/ s = "GetStartupInfoW" /\ GoTo(t, "original")
  /\ UNCHANGED <<mods, loaded, m, f, initialised>>

Unclaimed == TRUE   \* mutant: a store in place of the compare-and-exchange
Claimed   == ~loaded

check_load(t) ==
  /\ Running /\ at[t] = "check_load"
  /\ \/ Claimed /\ loaded' = TRUE /\ GoTo(t, "get_mods_directory")
     \/ ~Claimed /\ UNCHANGED loaded /\ GoTo(t, "original")
  /\ UNCHANGED <<mods, m, f, initialised>>

\* The Mods directory or, where the path of the executable or its full form
\* cannot be had and the prefix is empty, the current directory.
get_mods_directory(t) ==
  /\ Running /\ at[t] = "get_mods_directory"
  /\ mods' \in Folders
  /\ GoTo(t, "load_mods_dlls")
  /\ UNCHANGED <<loaded, m, f, initialised>>

IsMod(entry) == entry.directory /\ entry.mod   \* begins with "mod", in any case

AnyFile(file) == file.dll                      \* mutant: directories as well
IsDll(file)   == ~file.directory /\ file.dll   \* ends in ".dll" and is longer than that

MatchingOnly(entry) == IF IsMod(entry) THEN m + 1 ELSE m   \* mutant: `continue` on others
NextEntry(entry)    == m + 1                               \* FindNextFileW

load_mods_dlls(t) ==
  /\ Running /\ at[t] = "load_mods_dlls"
  /\ \/ m > Len(mods) /\ GoTo(t, "original") /\ UNCHANGED <<m, f>>
     \/ m <= Len(mods) /\ IsMod(mods[m]) /\ f' = 1 /\ GoTo(t, "load_mod_dlls") /\ UNCHANGED m
     \/ m <= Len(mods) /\ ~IsMod(mods[m]) /\ m' = NextEntry(mods[m]) /\ UNCHANGED <<at, f>>
  /\ UNCHANGED <<mods, loaded, initialised>>

Loadable(file) == IsDll(file) /\ file.loads /\ file.exports

\* A DLL that cannot be loaded or has no InitializeMod is passed over.  Nothing
\* catches what an InitializeMod throws, and that ends the game.
load_mod_dlls(t) ==
  LET files == mods[m].files
  IN  /\ Running /\ at[t] = "load_mod_dlls"
      /\ \/ f > Len(files) /\ m' = NextEntry(mods[m]) /\ GoTo(t, "load_mods_dlls")
            /\ UNCHANGED <<f, initialised>>
         \/ f <= Len(files) /\ ~Loadable(files[f])
            /\ f' = f + 1 /\ UNCHANGED <<m, at, initialised>>
         \/ /\ f <= Len(files) /\ Loadable(files[f])
            /\ initialised' = Append(initialised, <<m, f>>)
            /\ f' = f + 1 /\ UNCHANGED m
            /\ UNCHANGED at \/ GoTo(t, "terminated")
      /\ UNCHANGED <<mods, loaded>>

Original(t) ==
  /\ Running /\ at[t] = "original"
  /\ GoTo(t, "out")
  /\ UNCHANGED <<mods, loaded, m, f, initialised>>

Step(t) == \/ check_load(t) \/ get_mods_directory(t)
           \/ load_mods_dlls(t) \/ load_mod_dlls(t) \/ Original(t)

Next == PreloadImport \/ PreloadFunction \/ \E t \in Threads : Call(t) \/ Step(t)

\* A thread that is in the launcher goes on.
Fairness == /\ WF_vars(PreloadImport \/ PreloadFunction)
            /\ \A t \in Threads : WF_vars(Step(t))

Spec == Init /\ [][Next]_vars /\ Fairness

-----------------------------------------------------------------------------
(* Properties.                                                                *)

\* A thread that has begun to load and is not done with it; one whose mod has
\* thrown never is.
Loading(t) ==
  at[t] \in {"get_mods_directory", "load_mods_dlls", "load_mod_dlls", "terminated"}

\* Types, and only one thread ever loads.
TypeOK ==
  /\ preload \in {"import", "function", "done", "fault"}
  /\ i \in 1 .. Count + 1 /\ j \in 0 .. Len(slots) + 1 /\ loaded \in BOOLEAN
  /\ m \in 1 .. Len(mods) + 1 /\ f \in Nat
  /\ \A t, u \in Threads : Loading(t) /\ Loading(u) => t = u

\* The hook replaces GetStartupInfoW wherever the game imports it from kernel32
\* and nowhere else.  Only where kernel32 is the last import does the search run
\* out of the table, and that ends the game.
FromKernel32(s) ==
  \E n \in 1 .. Count : /\ image.imports[n].kernel32 /\ FirstThunk(n) <= s
                        /\ n = Count \/ s < FirstThunk(n + 1)
PreloadExact ==
  /\ preload = "fault" => image.imports[Count].kernel32
  /\ preload = "done" =>
       slots = [s \in DOMAIN slots |->
                  IF FromKernel32(s) /\ image.slots[s] = "GetStartupInfoW"
                  THEN "hook" ELSE image.slots[s]]

\* The DLLs of the mods in a folder.
Wanted(folder) ==
  {id \in UNION {{n} \X DOMAIN folder[n].files : n \in DOMAIN folder} :
     LET entry == folder[id[1]]
         file  == entry.files[id[2]]
     IN  /\ entry.directory /\ entry.mod
         /\ file.dll /\ ~file.directory /\ file.loads /\ file.exports}

Before(a, b) == a[1] < b[1] \/ (a[1] = b[1] /\ a[2] < b[2])

\* No mod is initialised twice, none is left out when a neighbour fails, all are
\* in the order of the directories, and a thread that was in check_load goes on
\* without them only while another one is still loading.  The mods behind one
\* that throws are missed by nobody: there is no game any more.
ModsInitialised ==
  /\ \A x, y \in DOMAIN initialised : x < y => Before(initialised[x], initialised[y])
  /\ ToSet(initialised) \subseteq Wanted(mods)
  /\ \A id \in Wanted(mods), done \in ToSet(initialised) :
       Before(id, done) => id \in ToSet(initialised)
  /\ (loaded /\ \A t \in Threads : ~Loading(t)) => ToSet(initialised) = Wanted(mods)

\* Every call gets through to the original function, also past entries of the
\* folder that fail in every way, unless a mod throws and ends the game.
CallsReturn ==
  \A t \in Threads : at[t] # "out" ~> at[t] = "out" \/ \E u \in Threads : at[u] = "terminated"
=============================================================================
