--------------------------- MODULE EndlessConnection ---------------------------
(* Liveness of PeerConnection.tla with a client that need never stop asking:  *)
(* when all that was asked is answered and read, the count of requests starts *)
(* again, so that the bound on them is no end of the conversation.            *)
EXTENDS PeerConnection

Forget ==
  /\ pc \in Reading /\ part = "header" /\ total = 0
  /\ asked # <<>> /\ answered = Len(asked) /\ drained = Len(out)
  /\ asked' = <<>> /\ answered' = 0 /\ promised' = <<>> /\ out' = <<>> /\ drained' = 0
  /\ UNCHANGED <<threadVars, stop_event, fd, conn, wire, inbox>>

\* The thread is scheduled, and what the client wrote arrives; nothing makes the
\* client read.
Endless == Init /\ [][Next \/ Forget]_vars /\ WF_vars(ThreadStep) /\ WF_vars(Arrive)

-----------------------------------------------------------------------------
(* Properties.                                                                *)

\* Every request the client sent is answered in full if the client reads, unless
\* the connection is ended first, by the client, by the stop event, for a body
\* that is too long or for a wait that failed, or its events were not selected.
ClientReads == WF_vars(Drain)
RequestsAnswered ==
  ClientReads =>
    \A k \in 1 .. MaxRequests :
      Len(asked) >= k ~> \/ answered >= k /\ drained = Len(promised)
                         \/ pc = "left" \/ conn # "open" \/ stop_event \/ fd.READ = "never"

\* The stop event ends the thread, also when the client no longer reads and when
\* the events were not selected.  It does not end it while it need never wait:
\* a client that always has the next data ready keeps it going for ever, and
\* so does the error after a reset.
Waits    == pc \in {"recv_wait", "send_wait"}
KeptBusy == <>[]~Waits /\ []<>(pc = "recv" /\ inbox # <<>>)
StopEndsThread == <>stop_event => KeptBusy \/ <>(pc = "left" \/ conn = "reset")

\* A client that closes its side ends the thread, also when it does not read.
\* Only one that has asked for more than it reads leaves it waiting to write:
\* the close does not show before the request behind is read.
StuckWriting == pc = "send_wait" /\ Space = 0 /\ inbox # <<>>
CloseEndsThread ==
  <>(conn = "shut") => \/ <>(conn \in {"closed", "reset"}) \/ <>[]StuckWriting
                      \/ fd.CLOSE = "never"
=============================================================================
