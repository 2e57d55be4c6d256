------------------------ MODULE EmitterEncodingProofs ------------------------
(* The layout of the engine's structures, and what message 8 holds however    *)
(* many items a buffer has and whenever the engine changes it.                *)
EXTENDS EmitterEncoding, Recursion, SequenceTheorems, FiniteSetTheorems

-----------------------------------------------------------------------------
(* Structures.                                                                *)

Types   == [size : Nat, align : Nat, floats : Nat, commented : BOOLEAN]
Fields  == [name : {f.name : f \in ToSet(ModuleData)}, offset : Nat, type : Types]
Layouts == [size : Nat, align : Nat, commented : BOOLEAN]

TypeOf(f)   == f.type
OffsetOf(f) == f.offset

\* The layout after each member.
LaidOut(u, fields) ==
  /\ u \in [0 .. Len(fields) -> Layouts]
  /\ u[0] = Nothing
  /\ \A n \in 1 .. Len(fields) : u[n] = Behind(u[n - 1], fields[n])

LEMMA BehindIsLayout ==
  ASSUME NEW s \in Layouts, NEW f, f.type \in Types
  PROVE  /\ Behind(s, f) \in Layouts
         /\ Behind(s, f).size = s.size + f.type.size
         /\ Behind(s, f).commented = (s.commented /\ s.size = f.offset /\ f.type.commented)
  <1>1. PICK t \in Types : t = f.type
    OBVIOUS
  <1>2. Packed(s.size, t.align) = s.size
    BY DEF Packed
  <1>3. PICK z \in Nat, a \in Nat, c \in BOOLEAN :
          /\ z = s.size + t.size /\ a = (IF s.align < t.align THEN t.align ELSE s.align)
          /\ c = (s.commented /\ s.size = f.offset /\ t.commented)
    <2>1. s.size \in Nat /\ s.align \in Nat /\ t.size \in Nat /\ t.align \in Nat
      BY DEF Layouts, Types
    <2>2. s.size + t.size \in Nat /\ (IF s.align < t.align THEN t.align ELSE s.align) \in Nat
      BY <2>1
    <2>3. s.commented \in BOOLEAN /\ t.commented \in BOOLEAN
      BY DEF Layouts, Types
    <2>4. (s.commented /\ s.size = f.offset /\ t.commented) \in BOOLEAN
      BY Zenon, <2>3
    <2>. QED
      BY Zenon, <2>2, <2>4
  <1>4. Behind(s, f) = [size |-> z, align |-> a, commented |-> c]
    BY Zenon, <1>1, <1>2, <1>3 DEF Behind
  <1>5. [size |-> z, align |-> a, commented |-> c] \in Layouts
    BY DEF Layouts
  <1>6. /\ [size |-> z, align |-> a, commented |-> c].size = z
        /\ [size |-> z, align |-> a, commented |-> c].commented = c
    BY Zenon
  <1>. QED
    BY Zenon, <1>1, <1>3, <1>4, <1>5, <1>6

LEMMA StructUnfolds ==
  ASSUME NEW end, NEW fields, Len(fields) \in Nat,
         \A n \in 1 .. Len(fields) : fields[n].type \in Types
  PROVE  \E u : /\ LaidOut(u, fields)
                /\ Struct(end, fields) =
                     [size |-> u[Len(fields)].size, align |-> u[Len(fields)].align, floats |-> 0,
                      commented |-> u[Len(fields)].commented /\ u[Len(fields)].size = end]
  <1> DEFINE N == Len(fields)
             F(u) == u = [n \in 0 .. N |-> IF n = 0 THEN Nothing ELSE Behind(u[n - 1], fields[n])]
             upto == CHOOSE u : F(u)
             next == [p \in Nat \X Layouts |->
                        IF p[1] \in 1 .. N THEN Behind(p[2], fields[p[1]]) ELSE Nothing]
  <1>1. Nothing \in Layouts
    BY DEF Nothing, Layouts
  <1>2. next \in [Nat \X Layouts -> Layouts]
    <2>. SUFFICES ASSUME NEW p \in Nat \X Layouts
                  PROVE  (IF p[1] \in 1 .. N THEN Behind(p[2], fields[p[1]]) ELSE Nothing)
                           \in Layouts
      BY Zenon
    <2>1. p[2] \in Layouts
      OBVIOUS
    <2>2. CASE p[1] \in 1 .. N
      BY <2>1, <2>2, BehindIsLayout
    <2>. QED
      BY Zenon, <1>1, <2>2
  <1>3. PICK f \in [0 .. N -> Layouts] : Recursive(f, N, Nothing, next)
    <2>. HIDE DEF next
    <2>. QED
      BY <1>1, <1>2, RecursionWorks
  <1>4. \A n \in 0 .. N : f[n] = IF n = 0 THEN Nothing ELSE next[<<n, f[n - 1]>>]
    BY <1>3 DEF Recursive
  <1>5. ASSUME NEW n \in 0 .. N, n # 0 PROVE next[<<n, f[n - 1]>>] = Behind(f[n - 1], fields[n])
    <2>1. n - 1 \in 0 .. N /\ n \in 1 .. N /\ n \in Nat
      BY <1>5
    <2>2. f[n - 1] \in Layouts
      BY <2>1
    <2>. QED
      BY Zenon, <2>1, <2>2
  <1>6. \E u : F(u)
    <2>1. f = [n \in 0 .. N |-> f[n]]
      OBVIOUS
    <2>2. [n \in 0 .. N |-> f[n]]
            = [n \in 0 .. N |-> IF n = 0 THEN Nothing ELSE Behind(f[n - 1], fields[n])]
      <3>. HIDE DEF next
      <3>. QED
        BY <1>4, <1>5
    <2>. QED
      BY <2>1, <2>2
  <1>7. F(upto)
    <2>. HIDE DEF F
    <2>. QED
      BY <1>6
  <1>8. Struct(end, fields) =
          [size |-> upto[N].size, align |-> upto[N].align, floats |-> 0,
           commented |-> upto[N].commented /\ upto[N].size = end]
    BY Zenon DEF Struct, Packed
  <1>9. PICK u : u = upto /\ F(u)
    BY <1>7
  <1>. HIDE DEF upto, next
  <1>10. \A n \in 0 .. N : u[n] = IF n = 0 THEN Nothing ELSE Behind(u[n - 1], fields[n])
    BY <1>9
  <1> DEFINE T == {n \in Nat : n <= N => u[n] \in Layouts}
  <1>11. ASSUME NEW n \in Nat, \A i \in 0 .. n - 1 : i \in T PROVE n \in T
    <2>. SUFFICES ASSUME n <= N PROVE u[n] \in Layouts
      OBVIOUS
    <2>1. CASE n = 0
      BY <1>1, <1>10, <2>1
    <2>2. CASE n # 0
      <3>1. n - 1 \in 0 .. n - 1 /\ n - 1 \in Nat /\ n - 1 <= N /\ n \in 1 .. N /\ n \in 0 .. N
        BY <2>2
      <3>2. n - 1 \in T
        <4>. HIDE DEF T
        <4>. QED
          BY <1>11, <3>1
      <3>3. u[n - 1] \in Layouts
        BY <3>1, <3>2
      <3>4. u[n] = Behind(u[n - 1], fields[n])
        BY <1>10, <2>2, <3>1
      <3>5. fields[n].type \in Types
        BY <3>1
      <3>. QED
        BY <3>3, <3>4, <3>5, BehindIsLayout
    <2>. QED
      BY <2>1, <2>2
  <1>12. \A n \in Nat : n \in T
    <2>. HIDE DEF T
    <2>. QED
      BY <1>11, Induction
  <1>13. LaidOut(u, fields)
    <2>1. \A n \in 0 .. N : u[n] \in Layouts
      BY <1>12
    <2>2. u \in [0 .. N -> Layouts]
      BY <1>9, <2>1
    <2>3. u[0] = Nothing
      BY <1>10
    <2>4. \A n \in 1 .. N : u[n] = Behind(u[n - 1], fields[n])
      BY <1>10
    <2>. QED
      BY Zenon, <2>2, <2>3, <2>4 DEF LaidOut
  <1>. QED
    BY Zenon, <1>8, <1>9, <1>13

Ends(f) == f.offset + f.type.size

\* The first n members begin where the one before them ends, and each is itself
\* as commented.
Adjacent(fields, n) ==
  /\ fields[1].offset = 0
  /\ \A m \in 1 .. n - 1 : fields[m + 1].offset = Ends(fields[m])
  /\ \A m \in 1 .. n : fields[m].type.commented

LEMMA AdjacentStep ==
  ASSUME NEW fields, NEW n \in Nat, n >= 2
  PROVE  Adjacent(fields, n) <=> /\ Adjacent(fields, n - 1)
                                 /\ fields[n].offset = Ends(fields[n - 1])
                                 /\ fields[n].type.commented
  <1>1. PICK l \in Nat : l = n - 1 /\ n = l + 1 /\ l >= 1
    OBVIOUS
  <1>2. \A m : m \in 1 .. n - 1 <=> m \in 1 .. l - 1 \/ m = l
    BY <1>1
  <1>3. \A m : m \in 1 .. n <=> m \in 1 .. l \/ m = n
    BY <1>1
  <1>4. fields[l + 1] = fields[n]
    BY <1>1
  <1>. QED
    BY Zenon, <1>1, <1>2, <1>3, <1>4 DEF Adjacent

\* With pack(1), whatever its members: a structure is as its comments say just
\* when they say of every member that it begins where the one before it ends, of
\* the first that it begins at zero, and of the structure that it ends with the
\* last.
THEOREM StructAsCommented ==
  ASSUME NEW end, NEW fields, Len(fields) \in Nat, Len(fields) >= 1,
         \A n \in 1 .. Len(fields) : fields[n].type \in Types /\ fields[n].offset \in Nat
  PROVE  /\ Struct(end, fields) \in Types
         /\ Struct(end, fields).commented
              <=> Adjacent(fields, Len(fields)) /\ Ends(fields[Len(fields)]) = end
         /\ Struct(end, fields).commented => Struct(end, fields).size = end
  <1> DEFINE N == Len(fields)
  <1>1. PICK u : /\ LaidOut(u, fields)
                 /\ Struct(end, fields) =
                      [size |-> u[N].size, align |-> u[N].align, floats |-> 0,
                       commented |-> u[N].commented /\ u[N].size = end]
    BY StructUnfolds
  <1>2. u \in [0 .. N -> Layouts] /\ u[0] = Nothing
        /\ \A n \in 1 .. N : u[n] = Behind(u[n - 1], fields[n])
    BY <1>1 DEF LaidOut
  <1>3. ASSUME NEW n \in 1 .. N
        PROVE  /\ u[n].size = u[n - 1].size + fields[n].type.size
               /\ u[n].commented = (/\ u[n - 1].commented /\ u[n - 1].size = fields[n].offset
                                    /\ fields[n].type.commented)
    <2>1. n - 1 \in 0 .. N
      OBVIOUS
    <2>2. u[n - 1] \in Layouts /\ u[n] = Behind(u[n - 1], fields[n]) /\ fields[n].type \in Types
      BY <1>2, <2>1
    <2>3. PICK s \in Layouts : s = u[n - 1]
      BY Zenon, <2>2
    <2>4. PICK f : f = fields[n] /\ f.type \in Types
      BY Zenon, <2>2
    <2>5. /\ Behind(s, f).size = s.size + f.type.size
          /\ Behind(s, f).commented = (s.commented /\ s.size = f.offset /\ f.type.commented)
      BY Zenon, <2>4, BehindIsLayout
    <2>. QED
      BY Zenon, <2>2, <2>3, <2>4, <2>5
  <1> DEFINE T == {n \in Nat : 1 <= n /\ n <= N =>
                     /\ u[n].commented <=> Adjacent(fields, n)
                     /\ u[n].commented => u[n].size = Ends(fields[n])}
  <1>4. ASSUME NEW n \in Nat, \A i \in 0 .. n - 1 : i \in T PROVE n \in T
    <2>. SUFFICES ASSUME 1 <= n, n <= N
                  PROVE  /\ u[n].commented <=> Adjacent(fields, n)
                         /\ u[n].commented => u[n].size = Ends(fields[n])
      OBVIOUS
    <2>0. n \in 1 .. N
      OBVIOUS
    <2>1. CASE n = 1
      <3>1. u[0].size = 0 /\ u[0].commented = TRUE
        BY <1>2 DEF Nothing
      <3>2. u[1].size = u[0].size + fields[1].type.size
            /\ u[1].commented = (/\ u[0].commented /\ u[0].size = fields[1].offset
                                 /\ fields[1].type.commented)
        <4>1. /\ u[n].size = u[n - 1].size + fields[n].type.size
              /\ u[n].commented = (/\ u[n - 1].commented /\ u[n - 1].size = fields[n].offset
                                   /\ fields[n].type.commented)
          BY <1>3, <2>0
        <4>2. n - 1 = 0
          BY <2>1
        <4>. QED
          BY Zenon, <2>1, <4>1, <4>2
      <3>3. Adjacent(fields, 1) <=> fields[1].offset = 0 /\ fields[1].type.commented
        <4>1. \A m : m \in 1 .. 1 <=> m = 1
          OBVIOUS
        <4>2. \A m : m \notin 1 .. 1 - 1
          OBVIOUS
        <4>. QED
          BY Zenon, <4>1, <4>2 DEF Adjacent
      <3>4. u[1].commented <=> fields[1].offset = 0 /\ fields[1].type.commented
        BY Zenon, <3>1, <3>2
      <3>5. u[1].commented => u[1].size = fields[1].offset + fields[1].type.size
        BY Zenon, <3>1, <3>2, <3>4
      <3>. QED
        BY Zenon, <2>1, <3>3, <3>4, <3>5 DEF Ends
    <2>2. CASE n # 1
      <3>1. n >= 2 /\ n - 1 \in Nat /\ 1 <= n - 1 /\ n - 1 <= N /\ n - 1 \in 0 .. n - 1
        BY <2>2
      <3>2. n - 1 \in T
        <4>. HIDE DEF T
        <4>. QED
          BY <1>4, <3>1
      <3>3. /\ u[n - 1].commented <=> Adjacent(fields, n - 1)
            /\ u[n - 1].commented => u[n - 1].size = Ends(fields[n - 1])
        BY <3>1, <3>2
      <3>4. /\ u[n].size = u[n - 1].size + fields[n].type.size
            /\ u[n].commented = (/\ u[n - 1].commented /\ u[n - 1].size = fields[n].offset
                                 /\ fields[n].type.commented)
        BY <1>3, <2>0
      <3>5. u[n].commented <=> Adjacent(fields, n)
        BY Zenon, <3>1, <3>3, <3>4, AdjacentStep
      <3>6. u[n].commented => u[n].size = fields[n].offset + fields[n].type.size
        BY Zenon, <3>4
      <3>. QED
        BY Zenon, <3>5, <3>6 DEF Ends
    <2>. QED
      BY <2>1, <2>2
  <1>5. N \in T
    <2>. HIDE DEF T
    <2>. QED
      BY <1>4, Induction
  <1>6. /\ u[N].commented <=> Adjacent(fields, N)
        /\ u[N].commented => u[N].size = Ends(fields[N])
    BY <1>5
  <1>7. u[N] \in Layouts
    BY <1>2
  <1>8. PICK z \in Nat, a \in Nat, c \in BOOLEAN :
          /\ z = u[N].size /\ a = u[N].align /\ c = (u[N].commented /\ u[N].size = end)
    <2>1. u[N].size \in Nat /\ u[N].align \in Nat
      BY <1>7 DEF Layouts
    <2>2. (u[N].commented /\ u[N].size = end) \in BOOLEAN
      BY Zenon
    <2>. QED
      BY Zenon, <2>1, <2>2
  <1>9. PICK t : /\ t = Struct(end, fields)
                 /\ t = [size |-> z, align |-> a, floats |-> 0, commented |-> c]
    BY Zenon, <1>1, <1>8
  <1>10. t \in Types
    BY <1>9 DEF Types
  <1>11. t.size = z /\ t.commented = c
    <2>1. /\ [size |-> z, align |-> a, floats |-> 0, commented |-> c].size = z
          /\ [size |-> z, align |-> a, floats |-> 0, commented |-> c].commented = c
      BY Zenon
    <2>. QED
      BY Zenon, <1>9, <2>1
  <1>. QED
    BY Zenon, <1>6, <1>8, <1>9, <1>10, <1>11

-----------------------------------------------------------------------------
(* The layout of each structure.                                              *)

SizeOf(t) == t.size
Right(t)  == t \in Types /\ t.commented

LEMMA AtType   == ASSUME NEW b, NEW c PROVE TypeOf(At(b, c)) = c
  BY DEF At, TypeOf
LEMMA AtOffset == ASSUME NEW b, NEW c PROVE OffsetOf(At(b, c)) = b
  BY DEF At, OffsetOf
LEMMA NamedType   == ASSUME NEW a, NEW b, NEW c PROVE TypeOf(Named(a, b, c)) = c
  BY DEF Named, TypeOf
LEMMA NamedOffset == ASSUME NEW a, NEW b, NEW c PROVE OffsetOf(Named(a, b, c)) = b
  BY DEF Named, OffsetOf

LEMMA ScalarRight ==
  ASSUME NEW n \in Nat
  PROVE  Right(Scalar(n)) /\ SizeOf(Scalar(n)) = n
  BY DEF Right, SizeOf, Scalar, Types

LEMMA ArrayRight ==
  ASSUME NEW n \in Nat, NEW t, Right(t)
  PROVE  Right(Array(n, t)) /\ SizeOf(Array(n, t)) = n * SizeOf(t)
  <1>1. PICK z \in Nat : z = t.size /\ n * z \in Nat
    <2>1. t.size \in Nat
      BY DEF Right, Types
    <2>. QED
      BY <2>1
  <1>2. Array(n, t) = [t EXCEPT !.size = n * z]
    BY <1>1 DEF Array
  <1>3. [t EXCEPT !.size = n * z] \in Types
    BY <1>1 DEF Right, Types
  <1>4. [t EXCEPT !.size = n * z].size = n * z /\ [t EXCEPT !.size = n * z].commented
    BY DEF Right, Types
  <1>. QED
    BY Zenon, <1>1, <1>2, <1>3, <1>4 DEF Right, SizeOf

LEMMA ScalarsRight ==
  /\ Right(Pointer) /\ Right(U8) /\ Right(U32) /\ Right(U64) /\ Right(F32)
  /\ SizeOf(Pointer) = 8 /\ SizeOf(U8) = 1 /\ SizeOf(U32) = 4 /\ SizeOf(U64) = 8
  /\ SizeOf(F32) = 4
  BY ScalarRight DEF Pointer, U8, U32, U64, F32

LEMMA PadRight == ASSUME NEW n \in Nat PROVE Right(Pad(n))
  BY ScalarsRight, ArrayRight DEF Pad

LEMMA PadSize == ASSUME NEW n \in Nat PROVE SizeOf(Pad(n)) = n
  <1>1. SizeOf(Pad(n)) = n * 1
    BY ScalarsRight, ArrayRight DEF Pad
  <1>. QED
    BY <1>1

\* What is left to show of a structure.
Fitting(end, fields) ==
  /\ Len(fields) \in Nat /\ Len(fields) >= 1
  /\ \A n \in 1 .. Len(fields) : Right(TypeOf(fields[n])) /\ OffsetOf(fields[n]) \in Nat
  /\ OffsetOf(fields[1]) = 0
  /\ \A n \in 1 .. Len(fields) - 1 :
       OffsetOf(fields[n + 1]) = OffsetOf(fields[n]) + SizeOf(TypeOf(fields[n]))
  /\ end = OffsetOf(fields[Len(fields)]) + SizeOf(TypeOf(fields[Len(fields)]))

LEMMA FittingIsRight ==
  ASSUME NEW end, NEW fields, Fitting(end, fields)
  PROVE  Right(Struct(end, fields)) /\ SizeOf(Struct(end, fields)) = end
  <1>1. /\ Len(fields) \in Nat /\ Len(fields) >= 1
        /\ \A n \in 1 .. Len(fields) : fields[n].type \in Types /\ fields[n].offset \in Nat
        /\ \A n \in 1 .. Len(fields) : fields[n].type.commented
        /\ fields[1].offset = 0
        /\ \A n \in 1 .. Len(fields) - 1 :
             fields[n + 1].offset = fields[n].offset + fields[n].type.size
        /\ end = fields[Len(fields)].offset + fields[Len(fields)].type.size
    BY Zenon DEF Fitting, Right, SizeOf, TypeOf, OffsetOf
  <1>2. Adjacent(fields, Len(fields)) /\ Ends(fields[Len(fields)]) = end
    BY Zenon, <1>1 DEF Adjacent, Ends
  <1>. QED
    BY Zenon, <1>1, <1>2, StructAsCommented DEF Right, SizeOf

Is(t, size) == Right(t) /\ SizeOf(t) = size

LEMMA StructuresRight ==
  /\ Is(WXString, \h00C)
  /\ \A n \in {1, 2, 3} : Is(Buffer(n), \h00C) /\ Buffer(n).floats = n
  /\ Is(WXSortedListEntry, \h010)
  /\ Is(WXSortedList, \h010)
  /\ Is(WDirectory, \h050)
  /\ Is(WBundleDiskFile, \h044)
  /\ Is(WXVector3, \h00C)
  /\ Is(WXVector2, \h008)
  /\ Is(WXParticleEmitterModuleData, \h260)
  /\ Is(WRenderParticleEmitter, \h2F8)
  /\ Is(WBundleDataHandleReader, \h030)
  /\ Is(WMemoryFileReader, \h030)
  /\ Is(WXBundleFileMapping, \h020)
  /\ Is(WXBitSet, \h010)
  /\ Is(WXBundleFileLocation, \h014)
  /\ Is(WXBundleFileIndex, \h044)
  /\ Is(WDiskBundle, \h03C)
  /\ Is(WXBundleManager, \h068)
  /\ Is(WDepot, \h160)
  /\ Is(WIReferencable, \h010)
  /\ Is(WProperty, \h030)
  /\ Is(WParticleEmitter, \h118)
  /\ Is(WDependencyLoader, \h020)
  <1>. USE ScalarsRight, PadRight, PadSize, AtType, AtOffset DEF Is
  <1>1. Is(WXString, \h00C)
    <2>1. Fitting(\h00C, <<At(\h000, Pointer), At(\h008, U32)>>)
      BY SMT DEF Fitting
    <2>. QED
      BY SMT, <2>1, FittingIsRight DEF WXString
  <1>2. ASSUME NEW n \in {1, 2, 3}
        PROVE  Is(Buffer(n), \h00C) /\ Buffer(n).floats = n
    <2>1. Buffer(n) = [WXString EXCEPT !.floats = n]
      BY DEF Buffer
    <2>2. PICK s \in Types : s = WXString /\ s.commented /\ s.size = \h00C
      BY <1>1 DEF Right, SizeOf
    <2>3. /\ [s EXCEPT !.floats = n] \in Types /\ [s EXCEPT !.floats = n].size = s.size
          /\ [s EXCEPT !.floats = n].floats = n /\ [s EXCEPT !.floats = n].commented
      BY <2>2 DEF Types
    <2>. QED
      BY Zenon, <2>1, <2>2, <2>3 DEF Right, SizeOf
  <1>3. Is(WXSortedListEntry, \h010)
    <2>1. Fitting(\h010, <<At(\h000, U32), At(\h004, Pad(4)), At(\h008, Pointer)>>)
      BY SMT DEF Fitting
    <2>. QED
      BY SMT, <2>1, FittingIsRight DEF WXSortedListEntry
  <1>4. Is(WXSortedList, \h010)
    <2>1. Fitting(\h010, <<At(\h000, Pointer), At(\h008, U32), At(\h00C, U8), At(\h00D,
          Pad(3))>>)
      BY SMT DEF Fitting
    <2>. QED
      BY SMT, <2>1, FittingIsRight DEF WXSortedList
  <1>5. Is(WDirectory, \h050)
    <2>1. Fitting(\h050, <<At(\h000, Pointer), At(\h008, WXSortedList), At(\h018,
          WXSortedList), At(\h028, Pointer), At(\h030, WXWideString), At(\h03C,
          Pad(\h14))>>)
      BY SMT, <1>1, <1>4 DEF Fitting, WXWideString
    <2>. QED
      BY SMT, <2>1, FittingIsRight DEF WDirectory
  <1>6. Is(WBundleDiskFile, \h044)
    <2>1. Fitting(\h044, <<At(\h000, Pointer), At(\h008, Pointer), At(\h010, Pointer),
          At(\h018, WXWideString), At(\h024, Pad(\h1C)), At(\h040, U32)>>)
      BY SMT, <1>1 DEF Fitting, WXWideString
    <2>. QED
      BY SMT, <2>1, FittingIsRight DEF WBundleDiskFile
  <1>7. Is(WXVector3, \h00C)
    <2>1. Fitting(\h00C, <<At(\h000, F32), At(\h004, F32), At(\h008, F32)>>)
      BY SMT DEF Fitting
    <2>. QED
      BY SMT, <2>1, FittingIsRight DEF WXVector3
  <1>8. Is(WXVector2, \h008)
    <2>1. Fitting(\h008, <<At(\h000, F32), At(\h004, F32)>>)
      BY SMT DEF Fitting
    <2>. QED
      BY SMT, <2>1, FittingIsRight DEF WXVector2
  <1>9. Is(WXParticleEmitterModuleData, \h260)
    <2>0. Right(Array(16, F32)) /\ SizeOf(Array(16, F32)) = 64
      <3>1. SizeOf(Array(16, F32)) = 16 * 4
        BY ArrayRight
      <3>. QED
        BY <3>1, ArrayRight
    <2>1. Len(ModuleData) = 78 /\ OffsetOf(ModuleData[1]) = 0
      BY SMT, NamedOffset DEF ModuleData
    <2>2. \A n \in 1 .. 78 : Right(TypeOf(ModuleData[n]))
      BY SMT, <1>7, <1>2, <2>0, NamedType DEF ModuleData
    <2>3. \A n \in 1 .. 78 : OffsetOf(ModuleData[n]) \in Nat
      BY SMT, NamedOffset DEF ModuleData
    <2>4. \A n \in 1 .. 40 :
            OffsetOf(ModuleData[n + 1]) = OffsetOf(ModuleData[n]) + SizeOf(TypeOf(ModuleData[n]))
      BY SMT, <1>7, <1>2, <2>0, NamedType, NamedOffset DEF ModuleData
    <2>5. \A n \in 41 .. 77 :
            OffsetOf(ModuleData[n + 1]) = OffsetOf(ModuleData[n]) + SizeOf(TypeOf(ModuleData[n]))
      BY SMT, <1>7, <1>2, <2>0, NamedType, NamedOffset DEF ModuleData
    <2>6. \h260 = OffsetOf(ModuleData[78]) + SizeOf(TypeOf(ModuleData[78]))
      BY SMT, NamedType, NamedOffset DEF ModuleData
    <2>7. Fitting(\h260, ModuleData)
      <3>1. PICK e : e = \h260
        OBVIOUS
      <3>2. \A n \in 1 .. Len(ModuleData) - 1 : n \in 1 .. 40 \/ n \in 41 .. 77
        BY ONLY <2>1
      <3>3. Len(ModuleData) \in Nat /\ Len(ModuleData) >= 1
        BY ONLY <2>1
      <3>4. e = OffsetOf(ModuleData[78]) + SizeOf(TypeOf(ModuleData[78]))
        BY ONLY <2>6, <3>1
      <3>5. Fitting(e, ModuleData)
        BY ONLY Zenon, <2>1, <2>2, <2>3, <2>4, <2>5, <3>2, <3>3, <3>4 DEF Fitting
      <3>. QED
        BY ONLY <3>1, <3>5
    <2>. QED
      BY SMT, <2>7, FittingIsRight DEF WXParticleEmitterModuleData
  <1>10. Is(WRenderParticleEmitter, \h2F8)
    <2>1. Fitting(\h2F8, <<At(\h000, Pad(\h10)), At(\h010, WXParticleEmitterModuleData),
          At(\h270, Pad(\h74)), Named("modificator_bitset", \h2E4, U32), At(\h2E8,
          Pad(\h0C)), Named("initializer_bitset", \h2F4, U32)>>)
      BY SMT, <1>9, NamedType, NamedOffset DEF Fitting
    <2>. QED
      BY SMT, <2>1, FittingIsRight DEF WRenderParticleEmitter
  <1>11. Is(WBundleDataHandleReader, \h030)
    <2>1. Fitting(\h030, <<At(\h000, Pointer), At(\h008, U32), At(\h00C, U32), At(\h010,
          Pointer), At(\h018, Pointer), At(\h020, Pointer), At(\h028, U32), At(\h02C,
          U32)>>)
      BY SMT DEF Fitting
    <2>. QED
      BY SMT, <2>1, FittingIsRight DEF WBundleDataHandleReader
  <1>12. Is(WMemoryFileReader, \h030)
    <2>1. Fitting(\h030, <<At(\h000, Pointer), At(\h008, U32), At(\h00C, U32), At(\h010,
          Pointer), At(\h018, Pointer), At(\h020, U64), At(\h028, U64)>>)
      BY SMT DEF Fitting
    <2>. QED
      BY SMT, <2>1, FittingIsRight DEF WMemoryFileReader
  <1>13. Is(WXBundleFileMapping, \h020)
    <2>1. Fitting(\h020, <<At(\h000, Pad(\h10)), At(\h010, U32), At(\h014, Pad(\h0C))>>)
      BY SMT DEF Fitting
    <2>. QED
      BY SMT, <2>1, FittingIsRight DEF WXBundleFileMapping
  <1>14. Is(WXBitSet, \h010)
    <2>1. Fitting(\h010, <<At(\h000, Pointer), At(\h008, U32), At(\h00C, U32)>>)
      BY SMT DEF Fitting
    <2>. QED
      BY SMT, <2>1, FittingIsRight DEF WXBitSet
  <1>15. Is(WXBundleFileLocation, \h014)
    <2>1. Fitting(\h014, <<At(\h000, U32), At(\h004, U32), At(\h008, U32), At(\h00C,
          U32), At(\h010, U32)>>)
      BY SMT DEF Fitting
    <2>. QED
      BY SMT, <2>1, FittingIsRight DEF WXBundleFileLocation
  <1>16. Is(WXBundleFileIndex, \h044)
    <2>1. Fitting(\h044, <<At(\h000, Pad(\h30)), At(\h030, Pointer), At(\h038, U32),
          At(\h03C, Pointer)>>)
      BY SMT DEF Fitting
    <2>. QED
      BY SMT, <2>1, FittingIsRight DEF WXBundleFileIndex
  <1>17. Is(WDiskBundle, \h03C)
    <2>1. Fitting(\h03C, <<At(\h000, Pointer), At(\h008, WXString), At(\h014, WXString),
          At(\h020, U32), At(\h024, Pad(\h0C)), At(\h030, WXWideString)>>)
      BY SMT, <1>1 DEF Fitting, WXWideString
    <2>. QED
      BY SMT, <2>1, FittingIsRight DEF WDiskBundle
  <1>18. Is(WXBundleManager, \h068)
    <2>1. Fitting(\h068, <<At(\h000, Pad(\h10)), At(\h010, Pointer), At(\h018,
          WXBitSet), At(\h028, WXBitSet), At(\h038, WXBitSet), At(\h048, Pad(8)),
          At(\h050, Pointer), At(\h058, U32), At(\h05C, Pointer), At(\h064, U32)>>)
      BY SMT, <1>14 DEF Fitting
    <2>. QED
      BY SMT, <2>1, FittingIsRight DEF WXBundleManager
  <1>19. Is(WDepot, \h160)
    <2>1. Fitting(\h160, <<At(\h000, WDirectory), At(\h050, Pointer), At(\h058,
          Pad(\h100)), At(\h158, Pointer)>>)
      BY SMT, <1>5 DEF Fitting
    <2>. QED
      BY SMT, <2>1, FittingIsRight DEF WDepot
  <1>20. Is(WIReferencable, \h010)
    <2>1. Fitting(\h010, <<At(\h000, Pointer), At(\h008, Pointer)>>)
      BY SMT DEF Fitting
    <2>. QED
      BY SMT, <2>1, FittingIsRight DEF WIReferencable
  <1>21. Is(WProperty, \h030)
    <2>1. Fitting(\h030, <<At(\h000, Pointer), At(\h008, Pointer), At(\h010, Pad(\h10)),
          At(\h020, U32), At(\h024, U32), At(\h028, Pad(8))>>)
      BY SMT DEF Fitting
    <2>. QED
      BY SMT, <2>1, FittingIsRight DEF WProperty
  <1>22. Is(WParticleEmitter, \h118)
    <2>1. Fitting(\h118, <<At(\h000, Pointer), At(\h008, Pad(\h110))>>)
      BY SMT DEF Fitting
    <2>. QED
      BY SMT, <2>1, FittingIsRight DEF WParticleEmitter
  <1>23. Is(WDependencyLoader, \h020)
    <2>1. Fitting(\h020, <<At(\h000, Pointer), At(\h008, Pad(\h10)), At(\h018,
          Pointer)>>)
      BY SMT DEF Fitting
    <2>. QED
      BY SMT, <2>1, FittingIsRight DEF WDependencyLoader
  <1>. QED
    BY Zenon, <1>1, <1>2, <1>3, <1>4, <1>5, <1>6, <1>7, <1>8, <1>9, <1>10, <1>11, <1>12,
       <1>13, <1>14, <1>15, <1>16, <1>17, <1>18, <1>19, <1>20, <1>21, <1>22, <1>23

\* Every structure is where the mod says it is, in every state.
THEOREM LayoutHolds == Spec => []LayoutAsCommented
  <1>1. \A s \in Structures : s.commented
    BY Zenon, StructuresRight DEF Structures, Is, Right
  <1>2. LayoutAsCommented
    BY Zenon, <1>1 DEF LayoutAsCommented
  <1>. QED
    BY <1>2, PTL

-----------------------------------------------------------------------------
(* The members of an emitter and those that are sent.                         *)

NameOf(f) == f.name

LEMMA NamedName == ASSUME NEW a, NEW b, NEW c PROVE NameOf(Named(a, b, c)) = a
  BY DEF Named, NameOf
LEMMA AtName    == ASSUME NEW b, NEW c PROVE NameOf(At(b, c)) = "unnamed"
  BY DEF At, NameOf

LEMMA Listed ==
  /\ Len(Wire) = 71 /\ DOMAIN Wire = 1 .. 71
  /\ Wire[1] = "initializer_bitset" /\ Wire[2] = "modificator_bitset"
  /\ DOMAIN ModuleData = 1 .. 78
  BY SMT DEF Wire, ModuleData

LEMMA ListedMember ==
  ASSUME NEW f \in ToSet(ModuleData)
  PROVE  \E n \in 1 .. 78 : f = ModuleData[n]
  <1>1. \E n \in DOMAIN ModuleData : f = ModuleData[n]
    BY Zenon DEF ToSet
  <1>. QED
    BY Zenon, <1>1, Listed

\* What is sent has no name twice.
LEMMA WireDistinct == \A m, n \in 1 .. 71 : Wire[m] = Wire[n] => m = n
  BY SMT DEF Wire

LEMMA WireNamed == \A m \in 1 .. 71 : Wire[m] # "unnamed" /\ (m >= 3 => Wire[m] \notin Bitsets)
  BY SMT DEF Wire, Bitsets

\* Every named member is sent.
LEMMA MembersSent ==
  \A n \in 1 .. 78 : NameOf(ModuleData[n]) # "unnamed" =>
                       \E m \in 3 .. 71 : Wire[m] = NameOf(ModuleData[n])
  BY SMT, NamedName, AtName DEF ModuleData, Wire

\* Besides the two bitsets nothing else is.
LEMMA SentMembers ==
  \A m \in 3 .. 71 : \E n \in 1 .. 78 : Wire[m] = NameOf(ModuleData[n])
  BY SMT, NamedName DEF ModuleData, Wire

LEMMA TypesOfMembers == \A n \in 1 .. 78 : Right(TypeOf(ModuleData[n]))
  <1>1. Right(Array(16, F32))
    BY ArrayRight, ScalarsRight
  <1>. QED
    BY SMT, <1>1, ScalarsRight, PadRight, StructuresRight, AtType, NamedType DEF ModuleData, Is

\* What is sent is what there is.
LEMMA WireIsMembers == {Wire[m] : m \in 1 .. 71} = Bitsets \cup Members
  <1>1. ASSUME NEW m \in 1 .. 71 PROVE Wire[m] \in Bitsets \cup Members
    <2>1. CASE m \in 3 .. 71
      <3>1. PICK n \in 1 .. 78 : Wire[m] = NameOf(ModuleData[n])
        BY <2>1, SentMembers
      <3>2. ModuleData[n] \in ToSet(ModuleData)
        BY Zenon, Listed DEF ToSet
      <3>3. Wire[m] # "unnamed"
        BY WireNamed
      <3>. QED
        BY Zenon, <3>1, <3>2, <3>3 DEF Members, NameOf
    <2>2. CASE m \notin 3 .. 71
      <3>1. m = 1 \/ m = 2
        BY <2>2
      <3>. QED
        BY Zenon, <3>1, Listed DEF Bitsets
    <2>. QED
      BY <2>1, <2>2
  <1>2. ASSUME NEW x \in Members PROVE \E m \in 1 .. 71 : Wire[m] = x
    <2>1. PICK f \in ToSet(ModuleData) : x = f.name /\ x # "unnamed"
      BY Zenon DEF Members
    <2>2. PICK n \in 1 .. 78 : f = ModuleData[n]
      BY ListedMember
    <2>3. PICK m \in 3 .. 71 : Wire[m] = x
      BY Zenon, <2>1, <2>2, MembersSent DEF NameOf
    <2>4. m \in 1 .. 71
      OBVIOUS
    <2>. QED
      BY Zenon, <2>3, <2>4
  <1>3. \A x \in Bitsets : \E m \in 1 .. 71 : Wire[m] = x
    <2>1. 1 \in 1 .. 71 /\ 2 \in 1 .. 71
      OBVIOUS
    <2>. QED
      BY Zenon, <2>1, Listed DEF Bitsets
  <1>. QED
    BY Zenon, <1>1, <1>2, <1>3

LEMMA WireCounts == Cardinality(Bitsets \cup Members) = 71
  <1>1. PICK f : f = [m \in 1 .. 71 |-> Wire[m]]
    OBVIOUS
  <1>2. \A m \in 1 .. 71 : f[m] = Wire[m]
    BY Zenon, <1>1
  <1>3. f \in Bijection(1 .. 71, {Wire[m] : m \in 1 .. 71})
    <2>1. f \in [1 .. 71 -> {Wire[m] : m \in 1 .. 71}]
      BY Zenon, <1>1
    <2>2. \A x, y \in 1 .. 71 : f[x] = f[y] => x = y
      BY Zenon, <1>2, WireDistinct
    <2>3. \A t \in {Wire[m] : m \in 1 .. 71} : \E s \in 1 .. 71 : f[s] = t
      BY Zenon, <1>2
    <2>. QED
      BY Zenon, <2>1, <2>2, <2>3 DEF Bijection, Injection, Surjection, IsInjective
  <1>4. IsFiniteSet(1 .. 71) /\ Cardinality(1 .. 71) = 71
    <2>1. 1 \in Int /\ 71 \in Int /\ ~(1 > 71) /\ 71 - 1 + 1 = 71
      OBVIOUS
    <2>. QED
      BY Zenon, <2>1, FS_Interval
  <1>5. Cardinality({Wire[m] : m \in 1 .. 71}) = Cardinality(1 .. 71)
    BY ZenonT(30), <1>3, <1>4, FS_Bijection DEF ExistsBijection
  <1>. QED
    BY Zenon, <1>4, <1>5, WireIsMembers

\* The type by which a member is sent.
LEMMA TypeRight ==
  ASSUME NEW m \in 1 .. 71
  PROVE  Type(Wire[m]).size \in Nat /\ Type(Wire[m]).floats \in Nat
  <1>1. CASE Wire[m] \in Bitsets
    <2>1. Type(Wire[m]) = U32
      BY Zenon, <1>1 DEF Type
    <2>2. Right(U32)
      BY ScalarsRight
    <2>. QED
      BY <2>1, <2>2 DEF Right, Types
  <1>2. CASE Wire[m] \notin Bitsets
    <2>1. PICK g \in ToSet(ModuleData) : g.name = Wire[m]
      BY Zenon, <1>2, WireIsMembers DEF Members
    <2>2. PICK f : f = CHOOSE h \in ToSet(ModuleData) : h.name = Wire[m]
      OBVIOUS
    <2>3. f \in ToSet(ModuleData)
      BY Zenon, <2>1, <2>2
    <2>4. PICK n \in 1 .. 78 : f = ModuleData[n]
      BY <2>3, ListedMember
    <2>5. Right(f.type)
      BY Zenon, <2>4, TypesOfMembers DEF TypeOf
    <2>6. Type(Wire[m]) = f.type
      BY Zenon, <1>2, <2>2 DEF Type
    <2>. QED
      BY <2>5, <2>6 DEF Right, Types
  <1>. QED
    BY <1>1, <1>2

-----------------------------------------------------------------------------
(* The inductive invariant.                                                   *)

Entries == [name : {"found"} \cup {Wire[m] : m \in 1 .. 71}, said : 0 .. 255, bytes : Nat]

Typed ==
  /\ odd \in Odd /\ length \in Lengths /\ rewritten \in BOOLEAN /\ torn \in BOOLEAN
  /\ k \in 1 .. 72 /\ step \in {"check", "length", "items"} /\ item \in Nat
  /\ response \in Seq(Entries) /\ sent \in [type : {0, 2, 8}, response : Seq(Entries)]

\* LengthOf and Whole, of any state: buffer o with l items, and whether it was
\* changed (w), and torn by that (t).
LengthIn(name, o, l) == IF name = o THEN l ELSE 1
WholeIn(e, o, l, w, t) ==
  IF IsBuffer(e.name)
  THEN (e.name = o => ~t) =>
         /\ e.bytes = e.said * 4 * Type(e.name).floats
         /\ ~w => e.said = LengthIn(e.name, o, l)
  ELSE e.bytes = Type(e.name).size

\* The entries of a response are those of the members, in their order.
InOrder(r) == \A n \in 2 .. Len(r) : r[n].name = Wire[n - 1]

\* All members before the k-th are encoded, each whole.
SoFar ==
  sent.type = 0 =>
    /\ Len(response) = IF step = "items" THEN k + 1 ELSE k
    /\ InOrder(response)
    /\ \A n \in 2 .. k : WholeIn(response[n], odd, length, rewritten, torn)

\* The k-th is as long as its entry says and has its first items, but for what
\* the engine changed since its length was looked at.
Inside ==
  sent.type = 0 /\ step # "check" =>
    /\ k <= 71 /\ IsBuffer(Wire[k])
    /\ (Wire[k] = odd => ~torn) =>
         /\ LengthIn(Wire[k], odd, length) < 64
         /\ step = "items" => /\ item <= LengthIn(Wire[k], odd, length)
                              /\ response[k + 1].said = LengthIn(Wire[k], odd, length)
    /\ step = "items" => response[k + 1].bytes = item * 4 * Type(Wire[k]).floats

\* What is sent is complete, or nothing but that a buffer is too long.
Answered ==
  /\ sent.type = 8 => /\ Len(sent.response) = 72 /\ InOrder(sent.response)
                      /\ \A n \in 2 .. 72 :
                           WholeIn(sent.response[n], odd, length, rewritten, torn)
  /\ sent.type = 2 => sent.response = <<>> /\ length >= 64

Inv == Typed /\ SoFar /\ Inside /\ (torn => rewritten) /\ Answered

-----------------------------------------------------------------------------
(* What an appended entry, and four bytes per float in the last one, do.      *)

OneMore(s, r, e) ==
  /\ s \in Seq(Entries) /\ Len(s) = Len(r) + 1 /\ s[Len(r) + 1] = e
  /\ \A n \in 1 .. Len(r) : s[n] = r[n]

LEMMA AppendIsOneMore ==
  ASSUME NEW r \in Seq(Entries), NEW e \in Entries
  PROVE  OneMore(Append(r, e), r, e)
  BY AppendProperties DEF OneMore

Longer(s, r, b) ==
  /\ s \in Seq(Entries) /\ Len(s) = Len(r)
  /\ \A n \in 1 .. Len(r) - 1 : s[n] = r[n]
  /\ s[Len(r)].name = r[Len(r)].name /\ s[Len(r)].said = r[Len(r)].said
  /\ s[Len(r)].bytes = r[Len(r)].bytes + b

LEMMA ExceptIsLonger ==
  ASSUME NEW r \in Seq(Entries), Len(r) >= 1, NEW b \in Nat
  PROVE  Longer([r EXCEPT ![Len(r)].bytes = @ + b], r, b)
  <1>1. PICK l \in Nat : l = Len(r) /\ l \in 1 .. Len(r) /\ DOMAIN r = 1 .. l
    OBVIOUS
  <1>2. PICK e \in Entries : e = r[l]
    BY <1>1
  <1>3. PICK f : f = [e EXCEPT !.bytes = @ + b]
    OBVIOUS
  <1>4. f \in Entries /\ f.name = e.name /\ f.said = e.said /\ f.bytes = e.bytes + b
    <2>1. PICK x \in {"found"} \cup {Wire[m] : m \in 1 .. 71}, y \in 0 .. 255, z \in Nat :
            e = [name |-> x, said |-> y, bytes |-> z]
      BY Zenon DEF Entries
    <2>2. f = [name |-> x, said |-> y, bytes |-> z + b]
      BY <1>3, <2>1
    <2>3. z + b \in Nat
      OBVIOUS
    <2>4. f \in Entries
      BY Zenon, <2>2, <2>3 DEF Entries
    <2>. QED
      BY <2>1, <2>2, <2>4
  <1>5. PICK s : s = [r EXCEPT ![l] = f]
    OBVIOUS
  <1>6. [r EXCEPT ![Len(r)].bytes = @ + b] = s
    BY <1>1, <1>2, <1>3, <1>5
  <1>7. s \in Seq(Entries) /\ Len(s) = l
    BY <1>1, <1>4, <1>5
  <1>8. s[l] = f /\ \A n \in 1 .. l - 1 : s[n] = r[n]
    BY <1>1, <1>5
  <1>. QED
    BY Zenon, <1>1, <1>2, <1>4, <1>6, <1>7, <1>8 DEF Longer

LEMMA NotEmpty == ASSUME NEW r, Len(r) = 72 PROVE r # <<>>
  <1>1. Len(<<>>) = 0
    OBVIOUS
  <1>2. Len(r) # 0
    OBVIOUS
  <1>. QED
    BY Zenon, <1>1, <1>2

LEMMA DomainOfTail == ASSUME NEW s \in Seq(Entries), Len(s) = 71 PROVE DOMAIN s = 1 .. 71
  OBVIOUS

LEMMA TailOfResponse ==
  ASSUME NEW r \in Seq(Entries), Len(r) = 72
  PROVE  /\ Len(Tail(r)) = 71 /\ DOMAIN Tail(r) = 1 .. 71
         /\ \A n \in 1 .. 71 : Tail(r)[n] = r[n + 1]
  <1>1. r # <<>>
    BY Zenon, NotEmpty
  <1>2. /\ Tail(r) \in Seq(Entries) /\ Len(Tail(r)) = Len(r) - 1
        /\ \A n \in 1 .. Len(Tail(r)) : Tail(r)[n] = r[n + 1]
    BY <1>1, HeadTailProperties
  <1>3. Len(Tail(r)) = 71
    BY <1>2
  <1>4. DOMAIN Tail(r) = 1 .. 71
    BY Zenon, <1>2, <1>3, DomainOfTail
  <1>. QED
    BY Zenon, <1>2, <1>3, <1>4

\* The engine's change leaves an entry whole, or tears its buffer.
LEMMA WholeIsKept ==
  ASSUME NEW e, NEW o, NEW l, NEW m, NEW t \in BOOLEAN, WholeIn(e, o, l, FALSE, FALSE)
  PROVE  WholeIn(e, o, m, TRUE, t)
  BY Zenon DEF WholeIn

-----------------------------------------------------------------------------
(* Every step.                                                                *)

LEMMA LengthIsNat ==
  ASSUME NEW name, Typed
  PROVE  LengthIn(name, odd, length) \in Nat /\ LengthOf(name) = LengthIn(name, odd, length)
  BY LengthsAssumption DEF Typed, LengthIn, LengthOf

LEMMA InitHolds == Init => Inv
  <1>. SUFFICES ASSUME Init PROVE Inv
    OBVIOUS
  <1>1. PICK e : e = Appended("found", 0, 1)
    OBVIOUS
  <1>2. e \in Entries
    BY <1>1 DEF Appended, Entries
  <1>3. response = <<e>> /\ response \in Seq(Entries) /\ Len(response) = 1
    BY <1>1, <1>2 DEF Init
  <1>4. /\ <<>> \in Seq(Entries) /\ sent.type = 0
        /\ sent \in [type : {0, 2, 8}, response : Seq(Entries)]
    BY DEF Init
  <1>5. Typed
    <2>1. rewritten \in BOOLEAN /\ torn \in BOOLEAN
      BY Zenon DEF Init
    <2>2. odd \in Odd /\ length \in Lengths /\ k \in 1 .. 72 /\ step = "check" /\ item \in Nat
      BY DEF Init
    <2>. QED
      BY Zenon, <1>3, <1>4, <2>1, <2>2 DEF Typed
  <1>6. SoFar
    <2>1. \A n : n \notin 2 .. 1
      OBVIOUS
    <2>2. k = 1 /\ step = "check" /\ "check" # "items"
      BY DEF Init
    <2>. QED
      BY Zenon, <1>3, <2>1, <2>2 DEF SoFar, InOrder
  <1>7. Inside /\ (torn => rewritten) /\ Answered
    BY <1>4 DEF Init, Inside, Answered
  <1>. QED
    BY <1>5, <1>6, <1>7 DEF Inv

\* A member is at its place in the wire's order, and step is "check" unless it is
\* a buffer.
LEMMA AppendMemberKeeps == ASSUME Inv, AppendMember PROVE Inv'
  <1>1. k \in 1 .. 71 /\ sent.type = 0 /\ ~IsBuffer(Wire[k]) /\ k' = k + 1
    BY Listed DEF Inv, Typed, AppendMember, Encoding, Member
  <1>2. step = "check"
    BY Zenon, <1>1 DEF Inv, Inside
  <1>3. PICK e : e = Appended(Wire[k], 0, Type(Wire[k]).size)
    OBVIOUS
  <1>4. e.name = Wire[k] /\ e.bytes = Type(Wire[k]).size /\ e \in Entries
    <2>1. Type(Wire[k]).size \in Nat
      BY Zenon, <1>1, TypeRight
    <2>2. 0 \in 0 .. 255
      OBVIOUS
    <2>. QED
      BY Zenon, <1>1, <1>3, <2>1, <2>2 DEF Appended, Entries
  <1>5. PICK r : r = response /\ r \in Seq(Entries) /\ Len(r) = k /\ InOrder(r)
    BY Zenon, <1>1, <1>2 DEF Inv, Typed, SoFar
  <1>6. PICK s : s = response' /\ OneMore(s, r, e)
    <2>1. response' = Append(r, e)
      BY Zenon, <1>3, <1>5 DEF AppendMember, Member
    <2>. QED
      BY Zenon, <1>4, <1>5, <2>1, AppendIsOneMore
  <1>7. UNCHANGED <<odd, length, rewritten, torn, step, item, sent>>
    BY DEF AppendMember, Thread
  <1>8. Typed'
    BY <1>1, <1>6, <1>7 DEF Inv, Typed, OneMore
  <1>9. s \in Seq(Entries) /\ Len(s) = k + 1 /\ s[k + 1] = e /\ \A n \in 1 .. k : s[n] = r[n]
    BY Zenon, <1>5, <1>6 DEF OneMore
  <1>10. InOrder(s)
    <2>. SUFFICES ASSUME NEW n \in 2 .. k + 1 PROVE s[n].name = Wire[n - 1]
      BY Zenon, <1>9 DEF InOrder
    <2>1. CASE n = k + 1
      <3>1. n - 1 = k
        BY <1>1, <2>1
      <3>. QED
        BY Zenon, <1>4, <1>9, <2>1, <3>1
    <2>2. CASE n # k + 1
      <3>1. n \in 1 .. k /\ n \in 2 .. Len(r)
        BY <1>1, <1>5, <2>2
      <3>. QED
        BY Zenon, <1>5, <1>9, <3>1 DEF InOrder
    <2>. QED
      BY <2>1, <2>2
  <1>11. ASSUME NEW n \in 2 .. k + 1 PROVE WholeIn(s[n], odd, length, rewritten, torn)
    <2>1. CASE n = k + 1
      BY Zenon, <1>1, <1>4, <1>9, <2>1 DEF WholeIn
    <2>2. CASE n # k + 1
      <3>1. n \in 1 .. k /\ n \in 2 .. k
        BY <1>1, <2>2
      <3>2. WholeIn(r[n], odd, length, rewritten, torn)
        BY Zenon, <1>1, <1>5, <3>1 DEF Inv, SoFar
      <3>. QED
        BY Zenon, <1>9, <3>1, <3>2
    <2>. QED
      BY <2>1, <2>2
  <1>12. SoFar'
    BY Zenon, <1>1, <1>2, <1>6, <1>7, <1>9, <1>10, <1>11 DEF SoFar
  <1>13. Inside'
    BY Zenon, <1>2, <1>7 DEF Inside
  <1>14. (torn => rewritten)' /\ Answered'
    BY Zenon, <1>7 DEF Inv, Answered
  <1>. QED
    BY Zenon, <1>8, <1>12, <1>13, <1>14 DEF Inv

LEMMA CheckLengthKeeps == ASSUME Inv, CheckLength PROVE Inv'
  <1>1. k \in 1 .. 71 /\ sent.type = 0 /\ IsBuffer(Wire[k]) /\ step = "check"
    BY Listed DEF Inv, Typed, CheckLength, Encoding, Member
  <1>2. UNCHANGED <<odd, length, rewritten, torn, k, item>>
    BY DEF CheckLength, Thread
  <1>3. PICK l \in Nat : l = LengthIn(Wire[k], odd, length) /\ l = LengthOf(Wire[k])
    BY LengthIsNat DEF Inv
  <1>4. CASE l < 64 /\ step' = "length" /\ UNCHANGED <<response, sent>>
    <2>1. Typed'
      BY <1>2, <1>4 DEF Inv, Typed
    <2>2. SoFar'
      <3>1. step # "items" /\ step' # "items"
        BY <1>1, <1>4
      <3>. QED
        BY Zenon, <1>2, <1>4, <3>1 DEF Inv, SoFar
    <2>3. Inside'
      <3>1. k <= 71 /\ step' # "items"
        BY <1>1, <1>4
      <3>. QED
        BY Zenon, <1>1, <1>2, <1>3, <1>4, <3>1 DEF Inside
    <2>4. (torn => rewritten)' /\ Answered'
      BY Zenon, <1>2, <1>4 DEF Inv, Answered
    <2>. QED
      BY Zenon, <2>1, <2>2, <2>3, <2>4 DEF Inv
  <1>5. CASE /\ l >= 64 /\ response' = Cleared /\ sent' = [type |-> 2, response |-> response']
             /\ UNCHANGED step
    <2>1. response' = <<>> /\ sent' = [type |-> 2, response |-> <<>>] /\ <<>> \in Seq(Entries)
      BY <1>5 DEF Cleared
    <2>2. sent'.type = 2 /\ sent'.response = <<>>
      BY <2>1
    <2>3. sent' \in [type : {0, 2, 8}, response : Seq(Entries)]
      BY <2>1
    <2>4. Typed'
      BY <1>2, <1>5, <2>1, <2>3 DEF Inv, Typed
    <2>5. length >= 64
      BY <1>3, <1>5 DEF LengthIn
    <2>6. SoFar' /\ Inside' /\ Answered'
      BY <1>2, <2>2, <2>5 DEF SoFar, Inside, Answered
    <2>7. (torn => rewritten)'
      BY Zenon, <1>2 DEF Inv
    <2>. QED
      BY Zenon, <2>4, <2>6, <2>7 DEF Inv
  <1>. QED
    BY Zenon, <1>3, <1>4, <1>5 DEF CheckLength, Member

LEMMA AppendLengthKeeps == ASSUME Inv, AppendLength PROVE Inv'
  <1>1. k \in 1 .. 71 /\ sent.type = 0 /\ IsBuffer(Wire[k]) /\ step = "length"
    BY Listed DEF Inv, Typed, AppendLength, Encoding, Member
  <1>2. UNCHANGED <<odd, length, rewritten, torn, k, sent>> /\ step' = "items" /\ item' = 0
    BY DEF AppendLength, Thread
  <1>3. PICK l \in Nat : l = LengthIn(Wire[k], odd, length) /\ l = LengthOf(Wire[k])
    BY LengthIsNat DEF Inv
  <1>4. PICK e : e = Appended(Wire[k], AsUint8(l), 0)
    OBVIOUS
  <1>5. e.name = Wire[k] /\ e.bytes = 0 /\ e \in Entries /\ (l < 64 => e.said = l)
    <2>1. AsUint8(l) \in 0 .. 255 /\ (l < 64 => AsUint8(l) = l)
      BY <1>3 DEF AsUint8
    <2>2. 0 \in Nat
      OBVIOUS
    <2>. QED
      BY Zenon, <1>1, <1>4, <2>1, <2>2 DEF Appended, Entries
  <1>6. PICK r : r = response /\ r \in Seq(Entries) /\ Len(r) = k /\ InOrder(r)
    <2>1. step # "items"
      BY <1>1
    <2>. QED
      BY Zenon, <1>1, <2>1 DEF Inv, Typed, SoFar
  <1>7. PICK s : s = response' /\ OneMore(s, r, e)
    <2>1. response' = Append(r, e)
      BY Zenon, <1>3, <1>4, <1>6 DEF AppendLength, Member
    <2>. QED
      BY Zenon, <1>5, <1>6, <2>1, AppendIsOneMore
  <1>8. s \in Seq(Entries) /\ Len(s) = k + 1 /\ s[k + 1] = e /\ \A n \in 1 .. k : s[n] = r[n]
    BY Zenon, <1>6, <1>7 DEF OneMore
  <1>9. Typed'
    BY <1>2, <1>7, <1>8 DEF Inv, Typed
  <1>10. InOrder(s)
    <2>. SUFFICES ASSUME NEW n \in 2 .. k + 1 PROVE s[n].name = Wire[n - 1]
      BY Zenon, <1>8 DEF InOrder
    <2>1. CASE n = k + 1
      <3>1. n - 1 = k
        BY <1>1, <2>1
      <3>. QED
        BY Zenon, <1>5, <1>8, <2>1, <3>1
    <2>2. CASE n # k + 1
      <3>1. n \in 1 .. k /\ n \in 2 .. Len(r)
        BY <1>1, <1>6, <2>2
      <3>. QED
        BY Zenon, <1>6, <1>8, <3>1 DEF InOrder
    <2>. QED
      BY <2>1, <2>2
  <1>11. ASSUME NEW n \in 2 .. k PROVE WholeIn(s[n], odd, length, rewritten, torn)
    <2>1. n \in 1 .. k
      BY <1>1
    <2>2. WholeIn(r[n], odd, length, rewritten, torn)
      BY Zenon, <1>1, <1>6 DEF Inv, SoFar
    <2>. QED
      BY Zenon, <1>8, <2>1, <2>2
  <1>12. SoFar'
    BY Zenon, <1>2, <1>7, <1>8, <1>10, <1>11 DEF SoFar
  <1>13. Inside'
    <2>1. k <= 71 /\ 0 <= l
      BY <1>1, <1>3
    <2>2. PICK f \in Nat : f = Type(Wire[k]).floats
      BY Zenon, <1>1, TypeRight
    <2>3. 0 * 4 * f = 0
      BY <2>2
    <2>4. step # "check"
      BY <1>1
    <2>5. (Wire[k] = odd => ~torn) => l < 64
      BY Zenon, <1>1, <1>3, <2>4 DEF Inv, Inside
    <2>. QED
      BY Zenon, <1>1, <1>2, <1>3, <1>5, <1>7, <1>8, <2>1, <2>2, <2>3, <2>5 DEF Inside
  <1>14. (torn => rewritten)' /\ Answered'
    <2>1. sent.type # 8 /\ sent.type # 2
      BY <1>1
    <2>. QED
      BY Zenon, <1>2, <2>1 DEF Inv, Answered
  <1>. QED
    BY Zenon, <1>9, <1>12, <1>13, <1>14 DEF Inv

LEMMA AppendItemKeeps == ASSUME Inv, AppendItem PROVE Inv'
  <1>1. k \in 1 .. 71 /\ sent.type = 0 /\ IsBuffer(Wire[k]) /\ step = "items" /\ item \in Nat
    BY Listed DEF Inv, Typed, AppendItem, Encoding, Member
  <1>2. UNCHANGED <<odd, length, rewritten, torn, sent>>
    BY DEF AppendItem, Thread
  <1>3. PICK l \in Nat : l = LengthIn(Wire[k], odd, length) /\ l = LengthOf(Wire[k])
    BY LengthIsNat DEF Inv
  <1>4. PICK f \in Nat : f = Type(Wire[k]).floats
    BY Zenon, <1>1, TypeRight
  <1>5. PICK r : r = response /\ r \in Seq(Entries) /\ Len(r) = k + 1 /\ InOrder(r)
    BY Zenon, <1>1 DEF Inv, Typed, SoFar
  <1>6. /\ (Wire[k] = odd => ~torn) => l < 64 /\ item <= l /\ r[k + 1].said = l
        /\ r[k + 1].bytes = item * 4 * f
    <2>1. step # "check"
      BY <1>1
    <2>. QED
      BY Zenon, <1>1, <1>3, <1>4, <1>5, <2>1 DEF Inv, Inside
  <1>7. r[k + 1].name = Wire[k]
    <2>1. k + 1 \in 2 .. Len(r) /\ (k + 1) - 1 = k
      BY <1>1, <1>5
    <2>. QED
      BY <1>5, <2>1 DEF InOrder
  <1>8. \A n \in 2 .. k : WholeIn(r[n], odd, length, rewritten, torn)
    BY Zenon, <1>1, <1>5 DEF Inv, SoFar
  <1>9. (torn => rewritten)' /\ Answered'
    <2>1. sent.type # 8 /\ sent.type # 2
      BY <1>1
    <2>. QED
      BY Zenon, <1>2, <2>1 DEF Inv, Answered
  <1>10. CASE /\ item < l
              /\ response' = [response EXCEPT ![Len(response)].bytes = @ + 4 * Type(Wire[k]).floats]
              /\ item' = item + 1 /\ UNCHANGED <<k, step>>
    <2>1. PICK b \in Nat : b = 4 * f
      BY <1>4
    <2>2. PICK s : s = response' /\ Longer(s, r, b)
      <3>1. response' = [r EXCEPT ![Len(r)].bytes = @ + b]
        BY Zenon, <1>4, <1>5, <1>10, <2>1
      <3>2. Len(r) >= 1
        BY <1>1, <1>5
      <3>. QED
        BY Zenon, <1>5, <3>1, <3>2, ExceptIsLonger
    <2>3. /\ s \in Seq(Entries) /\ Len(s) = k + 1
          /\ \A n \in 1 .. (k + 1) - 1 : s[n] = r[n]
          /\ s[k + 1].name = r[k + 1].name /\ s[k + 1].said = r[k + 1].said
          /\ s[k + 1].bytes = r[k + 1].bytes + b
      BY Zenon, <1>5, <2>2 DEF Longer
    <2>4. \A n \in 2 .. k + 1 : n = k + 1 \/ (n \in 1 .. (k + 1) - 1 /\ n \in 2 .. k)
      BY <1>1
    <2>5. Typed'
      BY <1>1, <1>2, <1>10, <2>2, <2>3 DEF Inv, Typed
    <2>6. InOrder(s)
      BY Zenon, <1>5, <2>3, <2>4 DEF InOrder
    <2>7. \A n \in 2 .. k : WholeIn(s[n], odd, length, rewritten, torn)
      <3>1. \A n \in 2 .. k : n \in 1 .. (k + 1) - 1
        BY <1>1
      <3>. QED
        BY Zenon, <1>8, <2>3, <3>1
    <2>8. SoFar'
      BY Zenon, <1>1, <1>2, <1>10, <2>2, <2>3, <2>6, <2>7 DEF SoFar
    <2>9. Inside'
      <3>1. k <= 71 /\ item + 1 <= l
        <4>1. item < l
          BY Zenon, <1>10
        <4>. QED
          BY <1>1, <1>3, <4>1
      <3>2. item * 4 * f + b = (item + 1) * 4 * f
        BY <1>1, <1>4, <2>1
      <3>. QED
        BY Zenon, <1>1, <1>2, <1>3, <1>4, <1>6, <1>10, <2>2, <2>3, <3>1, <3>2 DEF Inside
    <2>. QED
      BY Zenon, <1>9, <2>5, <2>8, <2>9 DEF Inv
  <1>11. CASE item >= l /\ k' = k + 1 /\ step' = "check" /\ UNCHANGED <<item, response>>
    <2>1. Typed'
      BY <1>1, <1>2, <1>11 DEF Inv, Typed
    <2>2. WholeIn(r[k + 1], odd, length, rewritten, torn)
      <3>1. (Wire[k] = odd => ~torn) => item = l
        BY <1>1, <1>3, <1>6, <1>11
      <3>. QED
        BY Zenon, <1>1, <1>3, <1>4, <1>6, <1>7, <3>1 DEF WholeIn
    <2>3. \A n \in 2 .. k + 1 : WholeIn(r[n], odd, length, rewritten, torn)
      <3>1. \A n \in 2 .. k + 1 : n = k + 1 \/ n \in 2 .. k
        BY <1>1
      <3>. QED
        BY Zenon, <1>8, <2>2, <3>1
    <2>4. SoFar'
      <3>1. step' # "items"
        BY <1>11
      <3>. QED
        BY Zenon, <1>2, <1>5, <1>11, <2>3, <3>1 DEF SoFar
    <2>5. Inside'
      BY Zenon, <1>11 DEF Inside
    <2>. QED
      BY Zenon, <1>9, <2>1, <2>4, <2>5 DEF Inv
  <1>. QED
    BY Zenon, <1>3, <1>10, <1>11 DEF AppendItem, Member

LEMMA SendKeeps == ASSUME Inv, Send PROVE Inv'
  <1>1. k = 72 /\ sent.type = 0
    BY Listed DEF Inv, Typed, Send
  <1>2. step = "check"
    <2>1. ~(k <= 71)
      BY <1>1
    <2>. QED
      BY Zenon, <1>1, <2>1 DEF Inv, Inside
  <1>3. UNCHANGED <<odd, length, rewritten, torn, k, step, item, response>>
        /\ sent' = [type |-> 8, response |-> response]
    BY DEF Send, Thread
  <1>4. PICK r : r = response /\ r \in Seq(Entries)
    BY Zenon DEF Inv, Typed
  <1>5. Len(r) = 72 /\ InOrder(r) /\ \A n \in 2 .. 72 : WholeIn(r[n], odd, length, rewritten, torn)
    <2>1. step # "items"
      BY <1>2
    <2>. QED
      BY Zenon, <1>1, <1>4, <2>1 DEF Inv, SoFar
  <1>6. /\ sent'.type = 8 /\ sent'.response = r
        /\ sent' \in [type : {0, 2, 8}, response : Seq(Entries)]
    BY <1>3, <1>4
  <1>7. Typed'
    BY Zenon, <1>3, <1>6 DEF Inv, Typed
  <1>8. SoFar' /\ Inside'
    BY <1>6 DEF SoFar, Inside
  <1>9. Answered'
    <2>1. sent'.type # 2
      BY <1>6
    <2>. QED
      BY Zenon, <1>3, <1>5, <1>6, <2>1 DEF Answered
  <1>. QED
    BY Zenon, <1>3, <1>7, <1>8, <1>9 DEF Inv

LEMMA RewriteKeeps == ASSUME Inv, Rewrite PROVE Inv'
  <1>1. sent.type = 0 /\ ~rewritten /\ rewritten' /\ k \in 1 .. 72
    BY DEF Inv, Typed, Rewrite
  <1>2. length' \in Lengths /\ UNCHANGED <<odd, k, step, item, response, sent>>
    BY DEF Rewrite
  <1>3. rewritten = FALSE /\ torn = FALSE /\ rewritten' = TRUE /\ torn' \in BOOLEAN
    <2>1. torn' \in BOOLEAN
      BY Zenon DEF Rewrite
    <2>. QED
      BY Zenon, <1>1, <2>1 DEF Inv, Typed, Rewrite
  <1>4. torn' <=> k <= 71 /\ Wire[k] = odd /\ step # "check"
    BY Zenon, <1>1, Listed DEF Rewrite, Encoding, Member
  <1>5. Typed'
    BY Zenon, <1>2, <1>3 DEF Inv, Typed
  <1>6. ASSUME NEW e, WholeIn(e, odd, length, rewritten, torn)
        PROVE  WholeIn(e, odd', length', rewritten', torn')
    BY Zenon, <1>2, <1>3, <1>6, WholeIsKept
  <1>7. SoFar'
    BY Zenon, <1>1, <1>2, <1>6 DEF Inv, SoFar
  <1>8. Inside'
    <2>1. CASE step = "check"
      BY Zenon, <1>2, <2>1 DEF Inside
    <2>2. CASE step # "check" /\ Wire[k] = odd
      BY Zenon, <1>1, <1>2, <1>4, <2>2 DEF Inv, Inside
    <2>3. CASE step # "check" /\ Wire[k] # odd
      <3>1. LengthIn(Wire[k], odd', length') = LengthIn(Wire[k], odd, length)
        BY Zenon, <1>2, <2>3 DEF LengthIn
      <3>. QED
        BY Zenon, <1>1, <1>2, <2>3, <3>1 DEF Inv, Inside
    <2>. QED
      BY Zenon, <2>1, <2>2, <2>3
  <1>9. Answered'
    <2>1. sent.type # 8 /\ sent.type # 2
      BY <1>1
    <2>. QED
      BY Zenon, <1>2, <2>1 DEF Answered
  <1>. QED
    BY Zenon, <1>3, <1>5, <1>7, <1>8, <1>9 DEF Inv

LEMMA NextKeeps == ASSUME Inv, [Next]_vars PROVE Inv'
  <1>1. CASE UNCHANGED vars
    <2>1. UNCHANGED <<odd, length, rewritten, torn, k, step, item, response, sent>>
      BY <1>1 DEF vars
    <2>2. Typed' /\ SoFar'
      BY Zenon, <2>1 DEF Inv, Typed, SoFar
    <2>3. Inside'
      BY Zenon, <2>1 DEF Inv, Inside
    <2>4. Answered'
      BY Zenon, <2>1 DEF Inv, Answered
    <2>. QED
      BY Zenon, <2>1, <2>2, <2>3, <2>4 DEF Inv
  <1>. QED
    BY Zenon, <1>1, AppendMemberKeeps, CheckLengthKeeps, AppendLengthKeeps, AppendItemKeeps,
       SendKeeps, RewriteKeeps DEF Next

LEMMA InvHolds == Spec => []Inv
  BY InitHolds, NextKeeps, PTL DEF Spec

-----------------------------------------------------------------------------
(* What follows.                                                              *)

\* Types, for buffers of any lengths.
THEOREM TypeCorrect == Spec => []TypeOK
  <1>1. Inv => TypeOK
    <2>. SUFFICES ASSUME Inv PROVE TypeOK
      OBVIOUS
    <2>1. ASSUME NEW n \in DOMAIN response
          PROVE  response[n].said \in 0 .. 255 /\ response[n].bytes \in Nat
      <3>1. PICK r : r = response /\ r \in Seq(Entries)
        BY Zenon DEF Inv, Typed
      <3>2. r[n] \in Entries
        BY <3>1
      <3>. QED
        BY Zenon, <3>1, <3>2 DEF Entries
    <2>2. k \in 1 .. Len(Wire) + 1
      BY Listed DEF Inv, Typed
    <2>3. sent.type \in {0, 2, 8}
      BY DEF Inv, Typed
    <2>. QED
      BY Zenon, <2>1, <2>2, <2>3 DEF Inv, Typed, TypeOK
  <1>. QED
    BY <1>1, InvHolds, PTL

\* Whatever lengths the buffers have, whichever of them the engine changes and
\* when: message 8 has every member of the emitter once and whole, as many bytes
\* as its length says, but for the buffer that changed under the encoder; message
\* 2 comes only of 64 items or more, and is empty.
THEOREM DetailsAreWhole == Spec => []DetailsWhole
  <1>1. Inv => DetailsWhole
    <2>. SUFFICES ASSUME Inv PROVE DetailsWhole
      OBVIOUS
    <2>1. ASSUME sent.type = 8
          PROVE  /\ Len(Tail(sent.response)) = Cardinality(Bitsets \cup Members)
                 /\ {Tail(sent.response)[n].name : n \in DOMAIN Tail(sent.response)}
                      = Bitsets \cup Members
                 /\ \A n \in DOMAIN Tail(sent.response) : Whole(Tail(sent.response)[n])
      <3>1. PICK r : /\ r = sent.response /\ r \in Seq(Entries) /\ Len(r) = 72 /\ InOrder(r)
                     /\ \A n \in 2 .. 72 : WholeIn(r[n], odd, length, rewritten, torn)
        BY Zenon, <2>1 DEF Inv, Typed, Answered
      <3>2. PICK s : s = Tail(r)
        OBVIOUS
      <3>3. Len(s) = 71 /\ DOMAIN s = 1 .. 71 /\ \A n \in 1 .. 71 : s[n] = r[n + 1]
        BY Zenon, <3>1, <3>2, TailOfResponse
      <3>4. ASSUME NEW n \in 1 .. 71 PROVE s[n].name = Wire[n] /\ Whole(s[n])
        <4>1. n + 1 \in 2 .. 72 /\ n + 1 \in 2 .. Len(r) /\ (n + 1) - 1 = n
          <5>1. Len(r) = 72
            BY Zenon, <3>1
          <5>. QED
            BY <5>1
        <4>2. r[n + 1].name = Wire[n]
          <5>1. InOrder(r)
            BY Zenon, <3>1
          <5>. QED
            BY <4>1, <5>1 DEF InOrder
        <4>3. WholeIn(r[n + 1], odd, length, rewritten, torn)
          BY Zenon, <3>1, <4>1
        <4>4. \A e : WholeIn(e, odd, length, rewritten, torn) => Whole(e)
          BY Zenon DEF WholeIn, Whole, LengthIn, LengthOf
        <4>. QED
          BY Zenon, <3>3, <4>2, <4>3, <4>4
      <3>5. {s[n].name : n \in DOMAIN s} = {Wire[n] : n \in 1 .. 71}
        <4>1. \A n \in 1 .. 71 : s[n].name = Wire[n]
          BY Zenon, <3>4
        <4>2. {s[n].name : n \in 1 .. 71} = {Wire[n] : n \in 1 .. 71}
          BY Zenon, <4>1
        <4>. QED
          BY Zenon, <3>3, <4>2
      <3>6. s = Tail(sent.response)
        BY Zenon, <3>1, <3>2
      <3>7. Len(s) = Cardinality(Bitsets \cup Members)
        BY Zenon, <3>3, WireCounts
      <3>8. {s[n].name : n \in DOMAIN s} = Bitsets \cup Members
        BY Zenon, <3>5, WireIsMembers
      <3>9. \A n \in DOMAIN s : Whole(s[n])
        BY Zenon, <3>3, <3>4
      <3>. QED
        BY Zenon, <3>6, <3>7, <3>8, <3>9
    <2>2. ASSUME sent.type = 2 PROVE sent.response = <<>> /\ LengthOf(odd) >= 64
      BY Zenon, <2>2 DEF Inv, Answered, LengthOf
    <2>. QED
      BY Zenon, <2>1, <2>2 DEF DetailsWhole
  <1>. QED
    BY <1>1, InvHolds, PTL
===============================================================================
