---------------------------- MODULE PeerConnection ----------------------------
(* One peer thread of the server (peer_handler, peer_read, peer_write and     *)
(* network_wait of server/tcp_server.cpp) and the client it talks to: how     *)
(* requests are cut out of the byte stream, how answers are put on it, and    *)
(* how the thread sleeps on Winsock's edge-triggered events in between.       *)
(* Streams are sequences of units <<kind, message number, position>>; a       *)
(* message is HeaderSize units of header followed by its body.                *)
EXTENDS Naturals, Sequences

CONSTANTS
  HeaderSize,    \* units of a header: 6 bytes in the code
  MaxLength,     \* longest body accepted: 0x100000 bytes in the code
  AnswerLengths, \* body lengths the handlers answer with
  MaxRequests,   \* bound: requests the client sends
  SendSpace      \* units the socket's send buffer holds

ASSUME Bounds ==
  /\ HeaderSize \in Nat \ {0} /\ SendSpace \in Nat \ {0}
  /\ MaxLength \in Nat /\ MaxRequests \in Nat /\ AnswerLengths \subseteq Nat

VARIABLES
  pc, part,                \* program point; which buffer is being read or written
  header, message_body,    \* the buffers of peer_handler; sender reuses header
  response, total,         \* sender's message; total_received or total_sent
  success, stop_event,
  fd,                      \* Winsock's record of each network event
  wire, inbox,             \* request units under way, and in the receive buffer
  out, drained,            \* all units ever sent; how many the client has taken
  conn,                    \* "open", "shut" or "reset" by the client, "closed" here
  asked, answered, promised  \* history: request lengths, requests dispatched, and
                           \* the answers their handlers gave

bufferVars == <<header, message_body, response>>
threadVars == <<pc, part, bufferVars, total, success>>
clientVars == <<wire, asked, conn>>
history    == <<answered, promised>>
vars == <<threadVars, stop_event, fd, clientVars, inbox, out, drained, history>>

Message(kind, k, n) == [i \in 1 .. HeaderSize + n |-> <<kind, k, i>>]
HeaderOf(message)   == SubSeq(message, 1, HeaderSize)
BodyOf(message)     == SubSeq(message, HeaderSize + 1, Len(message))

Zero      == <<"zero", 0, 0>>
Zeros(n)  == [i \in 1 .. n |-> Zero]
Resize(buffer, n) == [i \in 1 .. n |-> IF i \in DOMAIN buffer THEN buffer[i] ELSE Zero]

\* WSACreateEvent and WSAEventSelect may fail, which nothing looks at.
Selected   == [READ |-> "armed", WRITE |-> "recorded", CLOSE |-> "armed"]
Unselected == [event \in {"READ", "WRITE", "CLOSE"} |-> "never"]

Init ==   \* after WSAEventSelect on a freshly accepted socket
  /\ pc = "recv" /\ part = "header"
  /\ header = Zeros(HeaderSize)
  /\ message_body = <<>> /\ response = <<>>
  /\ total = 0
  /\ success = TRUE /\ stop_event = FALSE
  /\ fd \in {Selected, Unselected}
  /\ wire = <<>> /\ inbox = <<>> /\ out = <<>> /\ drained = 0
  /\ conn = "open"
  /\ asked = <<>> /\ answered = 0 /\ promised = <<>>

-----------------------------------------------------------------------------
(* Winsock.  An event that happens while "armed" is "recorded" and signals    *)
(* io_event; WSAEnumNetworkEvents turns it "posted", and only the matching    *)
(* call, recv or a send that would block, arms it again.  FD_CLOSE happens    *)
(* when the client closes or when all that it had sent before is read.        *)

NoWriteMask == {"READ", "CLOSE"}            \* mutants: an event is missing
NoCloseMask == {"READ", "WRITE"}
Mask        == {"READ", "WRITE", "CLOSE"}   \* WSAEventSelect

Record(event) ==
  IF event \in Mask /\ fd[event] = "armed" THEN [fd EXCEPT ![event] = "recorded"] ELSE fd
Signalled == \E event \in DOMAIN fd : fd[event] = "recorded"

AfterRecv(left) ==
  [Record(IF conn = "shut" /\ left = <<>> THEN "CLOSE" ELSE "READ")
     EXCEPT !.READ = IF fd.READ = "never" THEN fd.READ
                     ELSE IF left # <<>> \/ fd.READ = "recorded" THEN "recorded" ELSE "armed"]
AfterBlockedSend == [fd EXCEPT !.WRITE = IF @ = "posted" THEN "armed" ELSE @]
Enumerated == [event \in DOMAIN fd |-> IF fd[event] = "recorded" THEN "posted" ELSE fd[event]]

Space == SendSpace - (Len(out) - drained)

-----------------------------------------------------------------------------
(* The client and the network.                                                *)

Ask(n) ==
  /\ conn = "open" /\ Len(asked) < MaxRequests
  /\ asked' = Append(asked, n)
  /\ wire' = wire \o Message("ask", Len(asked) + 1, n)
  /\ UNCHANGED <<threadVars, stop_event, fd, conn, inbox, out, drained, history>>

Arrive ==   \* segments of any size, one unit at a time
  /\ wire # <<>> /\ conn \in {"open", "shut"}
  /\ inbox' = Append(inbox, Head(wire))
  /\ wire' = Tail(wire)
  /\ fd' = Record("READ")
  /\ UNCHANGED <<threadVars, stop_event, conn, out, drained, asked, history>>

Drain ==
  /\ drained < Len(out) /\ conn # "reset"
  /\ drained' = drained + 1
  /\ fd' = Record("WRITE")
  /\ UNCHANGED <<threadVars, stop_event, clientVars, inbox, out, history>>

Shut ==   \* the client closes its side once all it wrote has arrived
  /\ conn = "open" /\ wire = <<>>
  /\ conn' = "shut"
  /\ fd' = Record("CLOSE") \/ (inbox # <<>> /\ fd' = fd)
  /\ UNCHANGED <<threadVars, stop_event, wire, asked, inbox, out, drained, history>>

Reset ==
  /\ conn \in {"open", "shut"}
  /\ conn' = "reset"
  /\ wire' = <<>> /\ inbox' = <<>>
  /\ fd' = Record("CLOSE")
  /\ UNCHANGED <<threadVars, stop_event, asked, out, drained, history>>

SetStop ==
  /\ ~stop_event
  /\ stop_event' = TRUE
  /\ UNCHANGED <<threadVars, fd, clientVars, inbox, out, drained, history>>

-----------------------------------------------------------------------------
(* The peer thread.                                                           *)

Thread(from) == pc = from /\ UNCHANGED <<stop_event, wire, asked, drained>>

Leave ==   \* OnLeave: closesocket
  /\ pc' = "left"
  /\ conn' = IF conn = "reset" THEN "reset" ELSE "closed"

\* The buffer that peer_read fills or peer_write sends.
Buffer == IF part = "header" THEN header ELSE IF pc = "recv" THEN message_body ELSE response

PutAtStart(buffer, units) ==   \* mutant: &buffer[0] for &buffer[total_received]
  [i \in DOMAIN buffer |-> IF i \in DOMAIN units THEN units[i] ELSE buffer[i]]
Put(buffer, units) ==
  [i \in DOMAIN buffer |-> IF i - total \in DOMAIN units THEN units[i - total] ELSE buffer[i]]

\* peer_read and peer_write start at the buffer's first unit.
KeepTotal == total   \* mutant: the counter is not reset
Restart   == 0

Receive ==   \* recv returned some of the units
  /\ Thread("recv")
  /\ \E n \in 1 .. (Len(Buffer) - total) :
       /\ n <= Len(inbox)
       /\ LET units == SubSeq(inbox, 1, n)
          IN  IF part = "header"
              THEN header' = Put(header, units) /\ UNCHANGED message_body
              ELSE message_body' = Put(message_body, units) /\ UNCHANGED header
       /\ inbox' = SubSeq(inbox, n + 1, Len(inbox))
       /\ total' = total + n
  /\ fd' = AfterRecv(inbox')
  /\ UNCHANGED <<pc, part, response, success, conn, out, history>>

ReceiveBlocks ==   \* WSAEWOULDBLOCK
  /\ Thread("recv")
  /\ total < Len(Buffer) /\ inbox = <<>> /\ conn = "open"
  /\ pc' = "recv_wait"
  /\ fd' = AfterRecv(<<>>)
  /\ UNCHANGED <<part, bufferVars, total, success, conn, inbox, out, history>>

ReceiveEnds ==   \* recv returned 0
  /\ Thread("recv")
  /\ total < Len(Buffer) /\ inbox = <<>> /\ conn = "shut"
  /\ Leave
  /\ UNCHANGED <<part, bufferVars, total, success, fd, inbox, out, history>>

\* Any other error: the call is repeated at once, for as long as it fails.
Spin ==
  /\ pc \in {"recv", "send"} /\ total < Len(Buffer) /\ conn = "reset"
  /\ UNCHANGED vars

LengthOf(h) ==   \* message_length, as the client put it into the header
  LET unit == h[HeaderSize] IN IF unit[1] = "ask" THEN asked[unit[2]] ELSE 0

ReadHeader ==   \* peer_read filled the header
  /\ Thread("recv")
  /\ part = "header" /\ total = HeaderSize
  /\ IF LengthOf(header) > MaxLength
     THEN Leave /\ UNCHANGED <<part, message_body, total>>
     ELSE /\ message_body' = Resize(message_body, LengthOf(header))
          /\ part' = "body" /\ total' = Restart
          /\ UNCHANGED <<pc, conn>>
  /\ UNCHANGED <<header, response, success, fd, inbox, out, history>>

ReadBody ==
  /\ Thread("recv")
  /\ part = "body" /\ total = Len(message_body)
  /\ pc' = "handler"
  /\ UNCHANGED <<part, bufferVars, total, success, fd, conn, inbox, out, history>>

Answer(n) ==   \* the handler calls sender once: the header is overwritten
  /\ Thread("handler")
  /\ LET message == Message("answer", answered + 1, n)
     IN  /\ header' = HeaderOf(message)
         /\ response' = BodyOf(message)
         /\ promised' = promised \o message
  /\ answered' = answered + 1
  /\ pc' = "send" /\ part' = "header" /\ total' = Restart
  /\ UNCHANGED <<message_body, success, fd, conn, inbox, out>>

Send ==   \* send took some of the units
  /\ Thread("send") /\ conn \in {"open", "shut"}
  /\ \E n \in 1 .. (Len(Buffer) - total) :
       /\ n <= Space
       /\ out' = out \o SubSeq(Buffer, total + 1, total + n)
       /\ total' = total + n
  /\ UNCHANGED <<pc, part, bufferVars, success, fd, conn, inbox, history>>

SendBlocks ==
  /\ Thread("send") /\ conn \in {"open", "shut"}
  /\ total < Len(Buffer) /\ Space = 0
  /\ pc' = "send_wait"
  /\ fd' = AfterBlockedSend
  /\ UNCHANGED <<part, bufferVars, total, success, conn, inbox, out, history>>

\* success = peer_write(header) && peer_write(message)
SentHeader ==
  /\ Thread("send")
  /\ part = "header" /\ total = HeaderSize
  /\ part' = "body" /\ total' = Restart
  /\ UNCHANGED <<pc, bufferVars, success, fd, conn, inbox, out, history>>

SentMessage ==
  /\ Thread("send")
  /\ part = "body" /\ total = Len(response)
  /\ success' = TRUE
  /\ pc' = "answered"
  /\ UNCHANGED <<part, bufferVars, total, fd, conn, inbox, out, history>>

Ignored   == TRUE      \* mutant: the loop goes on after a failed send
Succeeded == success

Loop ==   \* the handler has returned
  /\ Thread("answered")
  /\ IF Succeeded
     THEN pc' = "recv" /\ part' = "header" /\ total' = Restart /\ UNCHANGED conn
     ELSE Leave /\ UNCHANGED <<part, total>>
  /\ UNCHANGED <<bufferVars, success, fd, inbox, out, history>>

-----------------------------------------------------------------------------
(* network_wait.                                                              *)

WaitFails(io) ==   \* false: peer_read ends the thread, peer_write fails the sender
  IF io = "recv" THEN Leave /\ UNCHANGED success
  ELSE pc' = "answered" /\ success' = FALSE /\ UNCHANGED conn

Waiting(io) == [recv |-> "recv_wait", send |-> "send_wait"][io]
Enum(io)    == [recv |-> "recv_enum", send |-> "send_enum"][io]

Deaf     == FALSE        \* mutant: the stop event is not waited for
SeesStop == stop_event   \* index 0 of events

WaitStops(io) ==
  /\ Thread(Waiting(io)) /\ SeesStop
  /\ WaitFails(io)
  /\ UNCHANGED <<part, bufferVars, total, fd, inbox, out, history>>

WaitWakes(io) ==
  /\ Thread(Waiting(io)) /\ ~SeesStop /\ Signalled
  /\ pc' = Enum(io)
  /\ UNCHANGED <<part, bufferVars, total, success, fd, conn, inbox, out, history>>

WaitEnumerates(io) ==
  /\ Thread(Enum(io))
  /\ fd' = Enumerated
  /\ IF fd.CLOSE = "recorded" THEN WaitFails(io) ELSE pc' = io /\ UNCHANGED <<success, conn>>
  /\ UNCHANGED <<part, bufferVars, total, inbox, out, history>>

WaitAborts(io) ==   \* WSA_WAIT_FAILED or SOCKET_ERROR
  /\ Thread(Waiting(io)) \/ Thread(Enum(io))
  /\ WaitFails(io)
  /\ UNCHANGED <<part, bufferVars, total, fd, inbox, out, history>>

-----------------------------------------------------------------------------

ThreadStep ==
  \/ Receive \/ ReceiveBlocks \/ ReceiveEnds \/ ReadHeader \/ ReadBody
  \/ \E n \in AnswerLengths : Answer(n)
  \/ Send \/ SendBlocks \/ SentHeader \/ SentMessage \/ Loop
  \/ \E io \in {"recv", "send"} : WaitStops(io) \/ WaitWakes(io) \/ WaitEnumerates(io)

Environment ==
  \/ \E n \in 0 .. MaxLength + 1 : Ask(n)
  \/ Shut \/ Reset \/ SetStop
  \/ \E io \in {"recv", "send"} : WaitAborts(io)

Done == pc = "left" /\ UNCHANGED vars

Next == ThreadStep \/ Arrive \/ Drain \/ Environment \/ Spin \/ Done

Spec == Init /\ [][Next]_vars

-----------------------------------------------------------------------------
(* Properties.                                                                *)

Reading == {"recv", "recv_wait", "recv_enum", "handler"}
Writing == {"send", "send_wait", "send_enum", "answered"}

Units == {"ask", "answer"} \X (1 .. MaxRequests) \X Nat

\* Every variable keeps the values the code can give it; no transfer counter
\* passes the end of its buffer.
TypeOK ==
  /\ pc \in Reading \cup Writing \cup {"left"} /\ part \in {"header", "body"}
  /\ header \in [1 .. HeaderSize -> Units \cup {Zero}]
  /\ message_body \in Seq(Units \cup {Zero}) /\ response \in Seq(Units)
  /\ total \in Nat /\ (pc \in {"recv", "send"} => total <= Len(Buffer))
  /\ success \in BOOLEAN /\ stop_event \in BOOLEAN
  /\ fd \in [{"READ", "WRITE", "CLOSE"} -> {"armed", "recorded", "posted", "never"}]
  /\ wire \in Seq(Units) /\ inbox \in Seq(Units) /\ out \in Seq(Units)
  /\ drained \in 0 .. Len(out) /\ conn \in {"open", "shut", "reset", "closed"}
  /\ asked \in Seq(Nat) /\ answered \in 0 .. Len(asked) /\ promised \in Seq(Units)

\* However the stream was cut into segments, and although answers are written
\* through the buffer that headers are read into, the handler gets exactly the
\* next request: its header, and its whole body of an acceptable length.
FramedRight ==
  pc = "handler" =>
    /\ answered < Len(asked) /\ asked[answered + 1] <= MaxLength
    /\ LET request == Message("ask", answered + 1, asked[answered + 1])
       IN  header = HeaderOf(request) /\ message_body = BodyOf(request)

\* The client receives a prefix of the handlers' answers, in the order of its
\* requests, and no request is read before the previous answer is sent whole.
AnswersInOrder ==
  /\ Len(out) <= Len(promised) /\ out = SubSeq(promised, 1, Len(out))
  /\ pc \in Reading => out = promised

\* The thread never sleeps over something it could do: although one event object
\* serves both directions and each wait consumes the records of both.  Only where
\* the events could not be selected does nothing wake it but the stop event; and a
\* close shows when what the client sent before it has been read.
Shows(event) == fd[event] \in {"recorded", "never"}
NoLostWakeup ==
  /\ pc = "recv_wait" /\ inbox # <<>> => Shows("READ")
  /\ pc = "send_wait" /\ Space > 0 => Shows("WRITE")
  /\ pc \in {"recv_wait", "send_wait"} =>
       /\ conn = "shut" /\ inbox = <<>> => Shows("CLOSE")
       /\ conn = "reset" => Shows("CLOSE")
=============================================================================
