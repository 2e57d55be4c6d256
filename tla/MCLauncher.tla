----------------------------- MODULE MCLauncher -----------------------------
EXTENDS Launcher

AnImport(kernel32, first) == [kernel32 |-> kernel32, first |-> first]

\* kernel32 first, with the function imported twice; in the middle, without it,
\* between others that have its address as well; twice, and so also the last;
\* not at all.
MCImages ==
  {[imports |-> <<AnImport(TRUE, 1), AnImport(FALSE, 5)>>,
    slots |-> <<"GetStartupInfoW", "other", "GetStartupInfoW", "null", "other", "null">>],
   [imports |-> <<AnImport(FALSE, 1), AnImport(TRUE, 3), AnImport(FALSE, 5)>>,
    slots |-> <<"GetStartupInfoW", "null", "other", "null", "GetStartupInfoW", "null">>],
   [imports |-> <<AnImport(TRUE, 1), AnImport(FALSE, 3), AnImport(TRUE, 5)>>,
    slots |-> <<"GetStartupInfoW", "null", "other", "null", "GetStartupInfoW", "null">>],
   [imports |-> <<AnImport(FALSE, 1)>>, slots |-> <<"GetStartupInfoW", "null">>]}

AFile(directory, dll, loads, exports) ==
  [directory |-> directory, dll |-> dll, loads |-> loads, exports |-> exports]
AnEntry(directory, mod, files) == [directory |-> directory, mod |-> mod, files |-> files]

Good == AFile(FALSE, TRUE, TRUE, TRUE)
Odd  == <<AFile(FALSE, TRUE, FALSE, FALSE), Good, AFile(FALSE, TRUE, TRUE, FALSE),
          AFile(TRUE, TRUE, TRUE, TRUE), AFile(FALSE, FALSE, TRUE, TRUE), Good>>

MCFolders ==
  {<<>>,
   <<AnEntry(TRUE, FALSE, <<Good>>), AnEntry(TRUE, TRUE, Odd), AnEntry(FALSE, TRUE, <<>>),
     AnEntry(TRUE, TRUE, <<>>), AnEntry(TRUE, TRUE, <<Good>>)>>}
=============================================================================
