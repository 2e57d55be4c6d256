--------------------------- MODULE ServerLifetime ---------------------------
(* What the TCP server promises about its lifetime: its memory is released    *)
(* only when no detached thread that was given `this` is still running, and   *)
(* once it is being destroyed only a thread that is running can start another *)
(* one.  TcpServer.tla is shown to implement this specification.              *)

CONSTANT Threads

VARIABLES
  phase,    \* "open", "closing" (the destructor runs) or "gone" (memory released)
  live      \* threads that may still touch the object

lifetimeVars == <<phase, live>>

Init ==
  /\ phase = "open"
  /\ live = {}

Begin(t) ==
  /\ phase = "open" \/ live # {}
  /\ t \notin live
  /\ live' = live \cup {t}
  /\ UNCHANGED phase

End(t) ==
  /\ t \in live
  /\ live' = live \ {t}
  /\ UNCHANGED phase

Close ==
  /\ phase = "open"
  /\ phase' = "closing"
  /\ UNCHANGED live

Release ==
  /\ phase = "closing"
  /\ live = {}
  /\ phase' = "gone"
  /\ UNCHANGED live

Next ==
  \/ Close
  \/ Release
  \/ \E t \in Threads : Begin(t) \/ End(t)

Spec == Init /\ [][Next]_lifetimeVars
=============================================================================
