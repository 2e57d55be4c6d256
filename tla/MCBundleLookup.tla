--------------------------- MODULE MCBundleLookup ---------------------------
EXTENDS BundleLookup, TLC

CONSTANTS d1, d2

Plain    == <<97>>
Accented == <<97, 233>>
Odd      == <<55357>>    \* a surrogate

MCDirectories == (d1 :> [parent |-> None, name |-> Plain])
                 @@ (d2 :> [parent |-> d1, name |-> Accented])

File(directory, name) == [directory |-> directory, name |-> name]

\* Of three slots for files and four for mappings, some are beyond the counts.
MCManagers ==
  [file_count : {0, 2, 3},
   files : {[n \in 0 .. 3 |-> IF n = 1 THEN f ELSE File(d1, Plain)] :
              f \in {None, File(None, Odd), File(d2, Accented), File(d1, <<>>)}},
   mapping_count : {0, 2, 3},
   mappings : {[n \in 0 .. 3 |-> n], [n \in 0 .. 3 |-> IF n = 0 THEN 1 ELSE 0]},
   locations : {[n \in 0 .. 3 |-> 0], [n \in 0 .. 3 |-> 1], [n \in 0 .. 3 |-> 2]},
   bundle_count : {1, 2},
   bundles : {[n \in 0 .. 2 |-> IF n = 0 THEN Accented ELSE b] : b \in {None, Plain, Odd}}]

MCUnknown  == <<60, 62>>
MCNotFound == <<60, 45, 62>>
MCSlash    == <<47>>
=============================================================================
