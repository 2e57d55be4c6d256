---------------------------- MODULE BundleLookup ----------------------------
(* Which file and which bundle an index names: the helpers of bundles.cpp,    *)
(* the handler of message 10 that repeats them, the listing of message 5 that *)
(* calls them, and the strings both put into their answers.                   *)
EXTENDS Integers, Sequences, FiniteSets, SequencesExt

CONSTANTS
  Managers,      \* what the engine's depot may hold
  Directories,   \* directory -> [parent, name]
  Indexes,       \* of files; index zero is none
  MaxListed,     \* bound: emitters in a listing
  None           \* nullptr

\* Texts are sequences of 16-bit units; only their lengths in UTF-8 matter here.
CONSTANTS Unknown, NotFound, Slash

Unit       == {n \in Nat : n < 65536}
MaxText    == 715827882   \* three bytes each: not more than a length can count
IsText(t)  == t \in Seq(Unit) /\ Len(t) <= MaxText

VARIABLES
  manager, phase,
  asked,             \* the index in the message, None where it is too short for one
  stored,            \* has message_body had a byte on this connection?
  file_index, file_path, bundle_path,
  queue,             \* the file indexes of the emitters still to list
  texts,             \* the strings appended so far
  response

vars == <<manager, phase, asked, stored, file_index, file_path, bundle_path, queue, texts,
          response>>

-----------------------------------------------------------------------------
(* UTF-8, by logger::wide.  What becomes of a surrogate is up to the library: *)
(* three bytes, or an exception.                                              *)

IsSurrogate(unit) == unit \in 55296 .. 57343

Low(unit)   == <<unit>>   \* mutant: a unit is taken for a byte
Bytes(unit) == IF unit < 128 THEN <<unit>>
               ELSE IF unit < 2048 THEN <<192 + (unit \div 64), 128 + (unit % 64)>>
               ELSE <<224 + (unit \div 4096), 128 + ((unit \div 64) % 64), 128 + (unit % 64)>>
Wide(text) == FlattenSeq([n \in DOMAIN text |-> Bytes(text[n])])

MayThrow(strings) == \E n \in DOMAIN strings : \E u \in ToSet(strings[n]) : IsSurrogate(u)

\* message_append_string: the length as four bytes, then the text.
U32(n) == <<n % 256, (n \div 256) % 256, (n \div 65536) % 256, (n \div 16777216) % 256>>
Units(text)  == U32(Len(text)) \o Wide(text)         \* mutant: the length before conversion
String(text) == U32(Len(Wide(text))) \o Wide(text)

-----------------------------------------------------------------------------
(* The helpers.                                                               *)

bundle_file_find(n) ==
  IF n > 0 /\ n < manager.file_count THEN manager.files[n] ELSE None

bundle_file_mapping(n) ==
  IF n < manager.mapping_count /\ manager.mappings[n] # 0 THEN manager.mappings[n] ELSE None

BundleOf(file_id) ==
  LET b == manager.locations[file_id]
  IN  IF b < manager.bundle_count THEN manager.bundles[b] ELSE None

bundle_file_identify(n) ==
  IF bundle_file_mapping(n) = None THEN None ELSE BundleOf(bundle_file_mapping(n))

\* bundle_format_file_directory: the parents first, a slash after each.
DirectoryPath ==
  LET path[d \in DOMAIN Directories] ==
        (IF Directories[d].parent = None THEN <<>> ELSE path[Directories[d].parent])
        \o Directories[d].name \o Slash
  IN  path
PathOf(d) == IF d = None THEN <<>> ELSE DirectoryPath[d]

-----------------------------------------------------------------------------
(* What the engine's objects may be.  An array has what its count says, no    *)
(* directory is above itself, and no path has gigabytes.                      *)

IsFileObject(f) ==
  /\ f.directory \in DOMAIN Directories \cup {None}
  /\ IsText(f.name) /\ IsText(PathOf(f.directory) \o f.name)

ASSUME DirectoriesAssumption ==
  /\ IsFiniteSet(DOMAIN Directories) /\ None \notin DOMAIN Directories
  /\ \E depth \in [DOMAIN Directories -> 0 .. Cardinality(DOMAIN Directories)] :
       \A d \in DOMAIN Directories :
         LET parent == Directories[d].parent
         IN  parent = None \/ (parent \in DOMAIN Directories /\ depth[parent] < depth[d])
  /\ \A d \in DOMAIN Directories :
       Directories[d].name \in Seq(Unit) /\ Len(DirectoryPath[d]) <= MaxText

ASSUME BundleLookupAssumption ==
  /\ IsText(Unknown) /\ IsText(NotFound) /\ Slash \in Seq(Unit) /\ ~MayThrow(<<Unknown>>)
  /\ Indexes \subseteq Nat /\ 0 \in Indexes /\ MaxListed \in 0 .. MaxText
  /\ \A m \in Managers :
       /\ m.file_count \in Nat /\ m.mapping_count \in Nat /\ m.bundle_count \in Nat
       /\ \A n \in 0 .. m.file_count - 1 : m.files[n] = None \/ IsFileObject(m.files[n])
       /\ \A n \in 0 .. m.mapping_count - 1 :
            m.mappings[n] # 0 => m.mappings[n] # None /\ m.locations[m.mappings[n]] \in Nat
       /\ \A n \in 0 .. m.bundle_count - 1 : m.bundles[n] = None \/ IsText(m.bundles[n])

-----------------------------------------------------------------------------
(* Message 10.                                                                *)

Init ==
  /\ manager \in Managers /\ phase = "idle"
  /\ asked = None /\ stored \in BOOLEAN
  /\ file_index = 0 /\ file_path = NotFound /\ bundle_path = NotFound
  /\ queue = <<>> /\ texts = <<>> /\ response = <<>>

Keep == UNCHANGED <<manager, asked, stored>>

\* Four bytes are read whatever the length of the message: one of one to three
\* bytes names any index, and an empty one does if there are bytes of an earlier
\* message; without, it follows a null pointer.
AskFile ==
  /\ phase = "idle"
  /\ asked' \in Indexes \cup {None}
  /\ stored' \in (IF asked' = None THEN {stored, TRUE} ELSE {TRUE})
  /\ \/ /\ stored'
        /\ file_index' \in (IF asked' = None THEN Indexes ELSE {asked'})
        /\ phase' = "file"
     \/ ~stored' /\ phase' = "terminated" /\ UNCHANGED file_index
  /\ UNCHANGED <<manager, file_path, bundle_path, queue, texts, response>>

FirstToo(n) == n < manager.file_count   \* mutant: index zero is taken for a file
IsFile(n)   == n > 0 /\ n < manager.file_count

FindFile ==
  LET file == manager.files[file_index]
      path == PathOf(file.directory) \o file.name
  IN  /\ phase = "file"
      /\ \/ /\ IsFile(file_index) /\ file # None
            /\ \/ file_path' = path /\ phase' = "bundle"
               \/ MayThrow(<<path>>) /\ phase' = "terminated" /\ UNCHANGED file_path
         \/ /\ ~IsFile(file_index) \/ file = None
            /\ phase' = "bundle" /\ UNCHANGED file_path
      /\ Keep /\ UNCHANGED <<file_index, bundle_path, queue, texts, response>>

OnePast(b)  == b <= manager.bundle_count   \* mutant: one past the last bundle
IsBundle(b) == b < manager.bundle_count

\* Unlike the listing, this dereferences a bundle without a look at it.
FindBundle ==
  LET mapped == file_index < manager.mapping_count /\ manager.mappings[file_index] # 0
      b == manager.locations[manager.mappings[file_index]]
  IN  /\ phase = "bundle"
      /\ \/ /\ mapped /\ IsBundle(b)
            /\ \/ manager.bundles[b] = None /\ phase' = "terminated" /\ UNCHANGED bundle_path
               \/ manager.bundles[b] # None /\ MayThrow(<<manager.bundles[b]>>)
                  /\ phase' = "terminated" /\ UNCHANGED bundle_path
               \/ manager.bundles[b] # None
                  /\ bundle_path' = manager.bundles[b] /\ phase' = "respond"
         \/ ~mapped /\ phase' = "respond" /\ UNCHANGED bundle_path
         \/ mapped /\ ~IsBundle(b) /\ phase' = "respond" /\ UNCHANGED bundle_path
      /\ Keep /\ UNCHANGED <<file_index, file_path, queue, texts, response>>

Respond ==
  /\ phase = "respond"
  /\ texts' = <<bundle_path, file_path>>
  /\ response' = String(bundle_path) \o String(file_path)
  /\ phase' = "answered 11"
  /\ Keep /\ UNCHANGED <<file_index, file_path, bundle_path, queue>>

-----------------------------------------------------------------------------
(* Message 5.                                                                 *)

AskList ==
  /\ phase = "idle"
  /\ \E n \in 0 .. MaxListed : queue' \in [1 .. n -> Indexes]
  /\ response' = U32(Len(queue'))
  /\ phase' = "list"
  /\ Keep /\ UNCHANGED <<file_index, file_path, bundle_path, texts>>

\* The emitter's address is a string of its own.
Listed(n) ==
  LET file   == bundle_file_find(n)
      bundle == bundle_file_identify(n)
  IN  <<U32(n)>> \o (IF file = None THEN <<Unknown, Unknown>>
                     ELSE <<PathOf(file.directory), file.name>>)
      \o <<IF bundle = None THEN Unknown ELSE bundle>>

ListEntry ==
  /\ phase = "list" /\ queue # <<>>
  /\ \/ /\ texts' = texts \o Listed(Head(queue))
        /\ LET l == Listed(Head(queue))
           IN  response' = response \o String(l[1]) \o String(l[2]) \o String(l[3]) \o String(l[4])
        /\ queue' = Tail(queue) /\ file_index' = Head(queue) /\ UNCHANGED phase
     \/ /\ MayThrow(Listed(Head(queue)))
        /\ phase' = "terminated"
        /\ UNCHANGED <<texts, response, queue, file_index>>
  /\ Keep /\ UNCHANGED <<file_path, bundle_path>>

ListDone ==
  /\ phase = "list" /\ queue = <<>>
  /\ phase' = "answered 6"
  /\ Keep /\ UNCHANGED <<file_index, file_path, bundle_path, queue, texts, response>>

Next == AskFile \/ FindFile \/ FindBundle \/ Respond \/ AskList \/ ListEntry \/ ListDone

Spec == Init /\ [][Next]_vars

-----------------------------------------------------------------------------
(* Properties.                                                                *)

\* Types, and a listing has four strings for each emitter.
TypeOK ==
  /\ manager \in Managers /\ asked \in Indexes \cup {None} /\ stored \in BOOLEAN
  /\ file_index \in Indexes
  /\ phase \in {"idle", "file", "bundle", "respond", "list",
                "answered 11", "answered 6", "terminated"}
  /\ \A n \in DOMAIN response : response[n] \in 0 .. 255
  /\ phase \in {"list", "answered 6"} => Len(texts) % 4 = 0

\* Message 10 says of an index what the helpers of the listing say of it, and the
\* index is the one in the message where that is long enough.
LookupsAgree ==
  LET file   == bundle_file_find(file_index)
      bundle == bundle_file_identify(file_index)
  IN  phase = "answered 11" =>
        /\ asked # None => file_index = asked
        /\ texts = <<IF bundle = None THEN NotFound ELSE bundle,
                    IF file = None THEN NotFound ELSE PathOf(file.directory) \o file.name>>

\* A handler that ends the game on what it was asked and what the depot holds was
\* stopped, at the index it was at, by a text of that index that does not convert,
\* also in the middle of a listing; message 10 besides by a bundle that is not
\* there, which the listing calls unknown, or by having no byte to read.
EndsExplained ==
  LET n      == IF queue = <<>> THEN file_index ELSE Head(queue)
      file   == bundle_file_find(n)
      bundle == bundle_file_identify(n)
  IN  phase = "terminated" =>
        \/ queue = <<>> /\ asked = None /\ ~stored
        \/ /\ queue = <<>> /\ bundle_file_mapping(n) # None /\ bundle = None
           /\ manager.locations[bundle_file_mapping(n)] < manager.bundle_count
        \/ file # None /\ MayThrow(<<PathOf(file.directory), file.name>>)
        \/ bundle # None /\ MayThrow(<<bundle>>)

\* A client that reads one length and text after the other finds in the answer
\* the strings that were put into it, and nothing else.
Number(bytes, n) ==
  IF n + 3 > Len(bytes) THEN Len(bytes)   \* torn
  ELSE bytes[n] + 256 * bytes[n + 1] + 65536 * bytes[n + 2] + 16777216 * bytes[n + 3]
Reads(bytes, first, strings) ==
  LET start[k \in 0 .. Len(strings)] ==
        IF k = 0 THEN first ELSE start[k - 1] + 4 + Number(bytes, start[k - 1])
  IN  /\ start[Len(strings)] = Len(bytes) + 1
      /\ \A k \in 1 .. Len(strings) :
           SubSeq(bytes, start[k - 1] + 4, start[k] - 1) = strings[k]
AnswersParse ==
  LET strings == [n \in DOMAIN texts |-> Wide(texts[n])]
  IN  /\ phase = "answered 11" => Reads(response, 1, strings)
      /\ phase = "answered 6" =>
           Number(response, 1) * 4 = Len(texts) /\ Reads(response, 5, strings)
=============================================================================
