------------------------- MODULE PeerConnectionProofs -------------------------
(* The safety of PeerConnection.tla for any sizes of header, bodies, answers  *)
(* and send buffer, and any number of requests.  What is still to be read is  *)
(* described unit by unit: the rest of a message follows each of its units,   *)
(* and the next message its last.  That holds of every end of the stream, so  *)
(* it needs no induction over the messages.                                   *)
EXTENDS PeerConnection, SequenceTheorems, TLAPS

\* What is still to be read: the receive buffer, then what is under way.
Ahead == inbox \o wire

\* In the stream s of requests of lengths a, place i is unit j of request k: the
\* rest of that request follows, and then the first unit of the next one.
Follows(s, a, i, k, j) ==
  /\ i + (HeaderSize + a[k] - j) <= Len(s)
  /\ \A d \in 0 .. HeaderSize + a[k] - j : s[i + d] = <<"ask", k, j + d>>
  /\ IF i + (HeaderSize + a[k] - j) = Len(s) THEN k = Len(a)
     ELSE s[i + (HeaderSize + a[k] - j) + 1] = <<"ask", k + 1, 1>>

Stream(s, a) ==
  \A i \in 1 .. Len(s) :
    \E k \in 1 .. Len(a) : \E j \in 1 .. HeaderSize + a[k] : Follows(s, a, i, k, j)

\* The unit that is due when g units of request n + 1 have been read.
Due(a, n, g) ==
  IF g > 0 /\ g = HeaderSize + a[n + 1] THEN <<"ask", n + 2, 1>> ELSE <<"ask", n + 1, g + 1>>

\* The stream goes on with the unit that is due; if nothing is ahead, everything
\* asked has been read.
GoesOn(s, a, due) ==
  IF s = <<>> THEN due = <<"ask", Len(a) + 1, 1>> ELSE s[1] = due

\* How much of request answered + 1 has been read.
Got == IF pc \in Reading THEN IF part = "header" THEN total ELSE HeaderSize + total ELSE 0

StreamRight ==
  IF conn = "reset" THEN Ahead = <<>>
  ELSE Stream(Ahead, asked) /\ GoesOn(Ahead, asked, Due(asked, answered, Got))

\* While a request is read, the buffers have what the counter says of it.
RequestHeld ==
  /\ Got > 0 => answered < Len(asked)
  /\ \A i \in 1 .. HeaderSize : i <= Got => header[i] = <<"ask", answered + 1, i>>
  /\ part = "header" => total <= HeaderSize
  /\ part = "body" =>
       /\ Len(message_body) = asked[answered + 1]
       /\ asked[answered + 1] <= MaxLength
       /\ total <= Len(message_body)
       /\ \A i \in 1 .. total : message_body[i] = <<"ask", answered + 1, HeaderSize + i>>
  /\ pc = "handler" => part = "body" /\ total = Len(message_body)

\* While an answer is written, the buffers are the end of what was promised and
\* the client has been sent what the counter says of it.
AnswerStart == Len(promised) - (HeaderSize + Len(response))
AnswerHeld ==
  /\ AnswerStart \in Nat
  /\ \A i \in 1 .. HeaderSize : promised[AnswerStart + i] = header[i]
  /\ \A i \in 1 .. Len(response) : promised[AnswerStart + HeaderSize + i] = response[i]
  /\ total <= IF part = "header" THEN HeaderSize ELSE Len(response)
  /\ Len(out) = AnswerStart + (IF part = "header" THEN total ELSE HeaderSize + total)

Sending == {"send", "send_wait", "send_enum"}

SentRight ==
  /\ Len(out) <= Len(promised) /\ \A i \in 1 .. Len(out) : out[i] = promised[i]
  /\ pc \in Reading \/ (pc = "answered" /\ success) => Len(out) = Len(promised)

Ending == pc = "left" \/ (pc = "answered" /\ ~success)

EventsRight ==
  /\ pc = "recv_wait" => fd.READ # "posted" /\ (inbox # <<>> => Shows("READ"))
  /\ pc = "send_wait" => fd.WRITE # "posted" /\ (Space > 0 => Shows("WRITE"))
  /\ conn = "open" => fd.CLOSE \in {"armed", "never"}
  /\ conn = "shut" => Shows("CLOSE") \/ (inbox # <<>> /\ fd.CLOSE = "armed") \/ Ending
  /\ conn = "reset" => Shows("CLOSE") \/ Ending
  /\ conn = "closed" => pc = "left"
  /\ pc = "left" => conn \in {"closed", "reset"}

Inv ==
  /\ TypeOK /\ Len(asked) <= MaxRequests
  /\ pc # "left" => StreamRight
  /\ pc \in Reading => RequestHeld
  /\ pc \in Sending => AnswerHeld
  /\ SentRight
  /\ EventsRight

-----------------------------------------------------------------------------
(* Messages.                                                                  *)

\* A message is a header and a body, cut where HeaderOf and BodyOf cut it.
LEMMA MessageParts ==
  ASSUME NEW kind \in {"ask", "answer"}, NEW k \in 1 .. MaxRequests, NEW n \in Nat
  PROVE  LET m == Message(kind, k, n)
         IN  /\ m \in Seq(Units) /\ Len(m) = HeaderSize + n
             /\ \A i \in 1 .. HeaderSize + n : m[i] = <<kind, k, i>>
             /\ HeaderOf(m) \in [1 .. HeaderSize -> Units]
             /\ \A i \in 1 .. HeaderSize : HeaderOf(m)[i] = <<kind, k, i>>
             /\ BodyOf(m) \in Seq(Units) /\ Len(BodyOf(m)) = n
             /\ \A i \in 1 .. n : BodyOf(m)[i] = <<kind, k, HeaderSize + i>>
  <1> DEFINE m == Message(kind, k, n)
  <1>1. \A i \in 1 .. HeaderSize + n : m[i] = <<kind, k, i>> /\ m[i] \in Units
    BY Bounds DEF Message, Units
  <1>2. m \in Seq(Units) /\ Len(m) = HeaderSize + n
    BY <1>1, Bounds DEF Message
  <1> HIDE DEF m
  <1>3. /\ HeaderOf(m) \in Seq(Units) /\ Len(HeaderOf(m)) = HeaderSize
        /\ \A i \in 1 .. HeaderSize : HeaderOf(m)[i] = m[i]
    <2>1. \A i \in 1 .. HeaderSize : m[i] \in Units
      BY <1>1, Bounds
    <2>. QED
      BY <2>1, Bounds, SubSeqProperties DEF HeaderOf
  <1>4. /\ BodyOf(m) \in Seq(Units) /\ Len(BodyOf(m)) = n
        /\ \A i \in 1 .. n : BodyOf(m)[i] = m[HeaderSize + i]
    <2>1. \A i \in HeaderSize + 1 .. HeaderSize + n : m[i] \in Units
      BY <1>1, Bounds
    <2>2. /\ SubSeq(m, HeaderSize + 1, HeaderSize + n) \in Seq(Units)
          /\ Len(SubSeq(m, HeaderSize + 1, HeaderSize + n)) = n
          /\ \A i \in 1 .. n : SubSeq(m, HeaderSize + 1, HeaderSize + n)[i] = m[HeaderSize + i]
      BY <2>1, Bounds, SubSeqProperties
    <2>. QED
      BY <1>2, <2>2 DEF BodyOf
  <1>5. \A i \in 1 .. HeaderSize : i \in 1 .. HeaderSize + n
    BY Bounds
  <1>6. \A i \in 1 .. n : HeaderSize + i \in 1 .. HeaderSize + n
    BY Bounds
  <1>7. HeaderOf(m) \in [1 .. HeaderSize -> Units]
    BY <1>3, LenProperties
  <1>. QED
    BY <1>1, <1>2, <1>3, <1>4, <1>5, <1>6, <1>7 DEF m

\* The two parts of a sequence put behind another.
LEMMA Joined ==
  ASSUME NEW S, NEW s \in Seq(S), NEW t \in Seq(S)
  PROVE  /\ s \o t \in Seq(S) /\ Len(s) \in Nat /\ Len(t) \in Nat
         /\ Len(s \o t) = Len(s) + Len(t)
         /\ \A i \in 1 .. Len(s) : (s \o t)[i] = s[i]
         /\ \A i \in 1 .. Len(t) : (s \o t)[Len(s) + i] = t[i]
  <1>1. /\ s \o t \in Seq(S) /\ Len(s) \in Nat /\ Len(t) \in Nat
        /\ Len(s \o t) = Len(s) + Len(t)
        /\ \A i \in 1 .. Len(s) + Len(t) :
             (s \o t)[i] = IF i <= Len(s) THEN s[i] ELSE t[i - Len(s)]
    BY ConcatProperties, LenProperties
  <1>2. ASSUME NEW i \in 1 .. Len(s) PROVE (s \o t)[i] = s[i]
    BY <1>1
  <1>3. ASSUME NEW i \in 1 .. Len(t) PROVE (s \o t)[Len(s) + i] = t[i]
    <2>1. /\ Len(s) + i \in 1 .. Len(s) + Len(t) /\ ~(Len(s) + i <= Len(s))
          /\ (Len(s) + i) - Len(s) = i
      BY <1>1
    <2>. QED
      BY <1>1, <2>1
  <1>. QED
    BY <1>1, <1>2, <1>3

\* A suffix of a sequence.
LEMMA Suffix ==
  ASSUME NEW S, NEW s \in Seq(S), NEW n \in 0 .. Len(s)
  PROVE  LET t == SubSeq(s, n + 1, Len(s))
         IN  /\ t \in Seq(S) /\ Len(t) = Len(s) - n /\ (t = <<>> <=> n = Len(s))
             /\ \A i \in 1 .. Len(s) - n : t[i] = s[n + i]
  <1> DEFINE t == SubSeq(s, n + 1, Len(s))
  <1>1. Len(s) \in Nat /\ \A i \in n + 1 .. Len(s) : s[i] \in S
    BY ElementOfSeq, LenProperties
  <1>2. /\ t \in Seq(S) /\ Len(t) = Len(s) - n
        /\ \A i \in 1 .. Len(s) - n : t[i] = s[n + i]
    <2>1. Len(t) = (IF n + 1 <= Len(s) THEN Len(s) - (n + 1) + 1 ELSE 0) /\ t \in Seq(S)
      BY <1>1, SubSeqProperties
    <2>2. ASSUME NEW i \in 1 .. Len(s) - n PROVE t[i] = s[n + i]
      <3>1. i \in 1 .. Len(s) - (n + 1) + 1 /\ n + 1 + i - 1 = n + i
        BY <1>1
      <3>. QED
        BY <1>1, <3>1, SubSeqProperties
    <2>. QED
      BY <1>1, <2>1, <2>2
  <1>3. t = <<>> <=> Len(t) = 0
    BY <1>2
  <1>. QED
    BY <1>1, <1>2, <1>3

-----------------------------------------------------------------------------
(* The stream.                                                                *)

\* A request is put at its end.
LEMMA StreamLonger ==
  ASSUME NEW s \in Seq(Units), NEW a \in Seq(Nat), NEW n \in Nat, NEW due,
         Len(a) < MaxRequests, Stream(s, a), GoesOn(s, a, due)
  PROVE  LET t == s \o Message("ask", Len(a) + 1, n)
         IN  /\ t \in Seq(Units)
             /\ Stream(t, Append(a, n)) /\ GoesOn(t, Append(a, n), due)
  <1> DEFINE K == Len(a) + 1
             m == Message("ask", K, n)
             t == s \o m
             b == Append(a, n)
  <1>1. /\ K \in 1 .. MaxRequests /\ Len(a) \in Nat /\ Len(s) \in Nat
        /\ HeaderSize \in Nat /\ HeaderSize > 0
    BY Bounds, LenProperties
  <1>2. /\ m \in Seq(Units) /\ Len(m) = HeaderSize + n
        /\ \A i \in 1 .. HeaderSize + n : m[i] = <<"ask", K, i>>
    BY <1>1, MessageParts
  <1>3. /\ b \in Seq(Nat) /\ Len(b) = K /\ b[K] = n
        /\ \A k \in 1 .. Len(a) : b[k] = a[k] /\ a[k] \in Nat
    BY <1>1, AppendProperties, ElementOfSeq
  <1> HIDE DEF m, b
  <1>4. /\ t \in Seq(Units) /\ Len(t) = Len(s) + Len(m)
        /\ \A i \in 1 .. Len(s) : t[i] = s[i]
        /\ \A i \in 1 .. Len(m) : t[Len(s) + i] = m[i]
    <2>1. m \in Seq(Units)
      BY <1>2
    <2>. QED
      BY <2>1, Joined
  <1> HIDE DEF t
  <1>5. /\ t \in Seq(Units) /\ Len(t) = Len(s) + (HeaderSize + n)
        /\ \A i \in 1 .. Len(s) : t[i] = s[i]
        /\ \A i \in 1 .. HeaderSize + n : t[Len(s) + i] = <<"ask", K, i>>
    BY <1>4, <1>2
  <1>6. t[Len(s) + 1] = <<"ask", K, 1>> /\ t # <<>>
    BY <1>1, <1>5
  <1>7. ASSUME NEW i \in 1 .. Len(s)
        PROVE  \E k \in 1 .. Len(b) : \E j \in 1 .. HeaderSize + b[k] : Follows(t, b, i, k, j)
    <2>1. PICK k \in 1 .. Len(a) : \E j \in 1 .. HeaderSize + a[k] : Follows(s, a, i, k, j)
      BY DEF Stream
    <2>2. PICK j \in 1 .. HeaderSize + a[k] : Follows(s, a, i, k, j)
      BY <2>1
    <2>3. PICK r \in Nat : r = HeaderSize + a[k] - j
      BY SMTT(30), <1>1, <1>3
    <2>4. /\ i + r <= Len(s)
          /\ \A d \in 0 .. r : s[i + d] = <<"ask", k, j + d>>
          /\ IF i + r = Len(s) THEN k = Len(a) ELSE s[i + r + 1] = <<"ask", k + 1, 1>>
      BY <2>2, <2>3 DEF Follows
    <2>5. ASSUME NEW d \in 0 .. r PROVE t[i + d] = <<"ask", k, j + d>>
      <3>1. i + d \in 1 .. Len(s)
        BY <1>1, <2>4
      <3>. QED
        BY <1>5, <2>4, <3>1
    <2>6. i + r < Len(t)
      BY <1>1, <1>5, <2>4
    <2>7. t[i + r + 1] = <<"ask", k + 1, 1>>
      <3>1. CASE i + r = Len(s)
        BY <1>6, <2>4, <3>1
      <3>2. CASE i + r # Len(s)
        <4>1. i + r + 1 \in 1 .. Len(s)
          BY <1>1, <2>4, <3>2
        <4>. QED
          BY <1>5, <2>4, <3>2, <4>1
      <3>. QED
        BY <3>1, <3>2
    <2>8. b[k] = a[k] /\ k \in 1 .. Len(b)
      BY <1>1, <1>3
    <2>9. Len(t) \in Nat
      BY <1>5
    <2>10. i + r <= Len(t) /\ i + r # Len(t)
      BY <2>6, <2>9
    <2>11. Follows(t, b, i, k, j)
      BY <2>3, <2>5, <2>7, <2>8, <2>10 DEF Follows
    <2>. QED
      BY <2>8, <2>11
  <1>8. ASSUME NEW i \in Len(s) + 1 .. Len(t)
        PROVE  \E k \in 1 .. Len(b) : \E j \in 1 .. HeaderSize + b[k] : Follows(t, b, i, k, j)
    <2>1. PICK j \in 1 .. HeaderSize + n : i = Len(s) + j
      <3>1. i - Len(s) \in 1 .. HeaderSize + n /\ i = Len(s) + (i - Len(s))
        BY <1>1, <1>5
      <3>. QED
        BY <3>1
    <2>2. PICK r \in Nat : r = HeaderSize + n - j
      BY <1>1
    <2>3. i + r = Len(t)
      BY <1>1, <1>5, <2>1, <2>2
    <2>4. ASSUME NEW d \in 0 .. r PROVE t[i + d] = <<"ask", K, j + d>>
      <3>1. j + d \in 1 .. HeaderSize + n /\ i + d = Len(s) + (j + d)
        BY <1>1, <2>1, <2>2
      <3>. QED
        BY <1>5, <3>1
    <2>5. i + r <= Len(t) /\ r = HeaderSize + b[K] - j /\ K \in 1 .. Len(b)
      BY <1>1, <1>3, <1>5, <2>2, <2>3
    <2>6. K = Len(b)
      BY <1>3
    <2>7. Follows(t, b, i, K, j)
      BY <2>3, <2>4, <2>5, <2>6 DEF Follows
    <2>8. j \in 1 .. HeaderSize + b[K]
      BY <1>3
    <2>. QED
      BY <2>5, <2>7, <2>8
  <1>9. Stream(t, b)
    <2>1. \A i \in 1 .. Len(t) : i \in 1 .. Len(s) \/ i \in Len(s) + 1 .. Len(t)
      BY <1>1, <1>5
    <2>. QED
      BY <1>7, <1>8, <2>1 DEF Stream
  <1>10. GoesOn(t, b, due)
    <2>1. CASE s = <<>>
      BY <1>6, <2>1 DEF GoesOn
    <2>2. CASE s # <<>>
      BY <1>1, <1>5, <1>6, <2>2 DEF GoesOn
    <2>. QED
      BY <2>1, <2>2
  <1>. QED
    BY <1>5, <1>9, <1>10 DEF t, m, b

\* Its first n units are taken by who has read g units of request p + 1 and
\* takes no more than the rest of that request.
LEMMA StreamTaken ==
  ASSUME NEW s \in Seq(Units), NEW a \in Seq(Nat), NEW p \in Nat, NEW g \in Nat,
         NEW n \in 1 .. Len(s),
         Stream(s, a), GoesOn(s, a, Due(a, p, g)),
         g > 0 => p < Len(a),
         p < Len(a) => g + n <= HeaderSize + a[p + 1]
  PROVE  LET t == SubSeq(s, n + 1, Len(s))
         IN  /\ p < Len(a)
             /\ \A d \in 1 .. n : s[d] = <<"ask", p + 1, g + d>>
             /\ Stream(t, a) /\ GoesOn(t, a, Due(a, p, g + n))
  <1> DEFINE t == SubSeq(s, n + 1, Len(s))
  <1>1. Len(a) \in Nat /\ Len(s) \in Nat /\ HeaderSize \in Nat /\ HeaderSize > 0
    BY Bounds, LenProperties
  <1>2. n \in Nat /\ n > 0 /\ n <= Len(s)
    BY <1>1
  <1>3. \A k \in 1 .. Len(a) : a[k] \in Nat
    BY ElementOfSeq
  <1>4. /\ t \in Seq(Units) /\ Len(t) = Len(s) - n /\ (t = <<>> <=> n = Len(s))
        /\ \A i \in 1 .. Len(s) - n : t[i] = s[n + i]
    <2>1. n \in 0 .. Len(s)
      BY <1>1
    <2>. QED
      BY <2>1, Suffix
  <1>5. Len(t) = Len(s) - n
    BY <1>4
  <1> HIDE DEF t
  <1>6. PICK k \in 1 .. Len(a) : \E j \in 1 .. HeaderSize + a[k] : Follows(s, a, 1, k, j)
    <2>1. 1 \in 1 .. Len(s)
      BY <1>1
    <2>. QED
      BY <2>1 DEF Stream
  <1>7. PICK j \in 1 .. HeaderSize + a[k] : Follows(s, a, 1, k, j)
    BY <1>6
  <1>8. PICK r \in Nat : r = HeaderSize + a[k] - j
    BY <1>1, <1>3
  <1>9. /\ 1 + r <= Len(s)
        /\ \A d \in 0 .. r : s[1 + d] = <<"ask", k, j + d>>
        /\ IF 1 + r = Len(s) THEN k = Len(a) ELSE s[1 + r + 1] = <<"ask", k + 1, 1>>
    BY <1>7, <1>8 DEF Follows
  <1>10. s[1] = <<"ask", k, j>> /\ s[1] = Due(a, p, g)
    <2>1. 0 \in 0 .. r /\ 1 + 0 = 1 /\ j + 0 = j
      BY <1>1
    <2>2. s # <<>>
      BY <1>1
    <2>. QED
      BY <1>9, <2>1, <2>2 DEF GoesOn
  <1>11. ~(g > 0 /\ g = HeaderSize + a[p + 1])
    <2>1. SUFFICES ASSUME g > 0 PROVE g # HeaderSize + a[p + 1]
      OBVIOUS
    <2>2. p + 1 \in 1 .. Len(a) /\ p < Len(a)
      BY <1>1, <2>1
    <2>3. a[p + 1] \in Nat
      BY <1>3, <2>2
    <2>. QED
      BY <1>1, <2>1, <2>2, <2>3
  <1>12. k = p + 1 /\ j = g + 1 /\ p < Len(a)
    BY <1>1, <1>10, <1>11 DEF Due
  <1>13. n - 1 <= r /\ 1 + r = HeaderSize + a[k] - g /\ a[k] \in Nat
    <2>1. g + n <= HeaderSize + a[k]
      BY <1>12
    <2>2. PICK l \in Nat : l = a[k]
      BY <1>3
    <2>3. r = HeaderSize + l - (g + 1)
      BY <1>8, <1>12, <2>2
    <2>4. g + n <= HeaderSize + l
      BY <2>1, <2>2
    <2>5. 1 + r = HeaderSize + l - g
      BY <1>1, <2>3
    <2>6. n - 1 <= r
      BY <1>1, <1>2, <2>4, <2>5
    <2>. QED
      BY <2>2, <2>5, <2>6
  <1>14. ASSUME NEW d \in 1 .. n PROVE s[d] = <<"ask", p + 1, g + d>>
    <2>1. d - 1 \in 0 .. r /\ 1 + (d - 1) = d /\ j + (d - 1) = g + d
      BY <1>1, <1>12, <1>13
    <2>. QED
      BY <1>9, <1>12, <2>1
  <1>15. Stream(t, a)
    <2>1. SUFFICES ASSUME NEW i \in 1 .. Len(s) - n
                   PROVE  \E l \in 1 .. Len(a) : \E h \in 1 .. HeaderSize + a[l] :
                            Follows(t, a, i, l, h)
      BY <1>4 DEF Stream
    <2>2. n + i \in 1 .. Len(s)
      BY <1>1
    <2>3. PICK l \in 1 .. Len(a) :
                 \E h \in 1 .. HeaderSize + a[l] : Follows(s, a, n + i, l, h)
      BY <2>2 DEF Stream
    <2>4. PICK h \in 1 .. HeaderSize + a[l] : Follows(s, a, n + i, l, h)
      BY <2>3
    <2>5. PICK q \in Nat : q = HeaderSize + a[l] - h
      BY SMTT(30), <1>1, <1>3
    <2>6. n + i + q <= Len(s)
      BY <2>4, <2>5 DEF Follows
    <2>7. /\ \A d \in 0 .. q : s[n + i + d] = <<"ask", l, h + d>>
          /\ IF n + i + q = Len(s) THEN l = Len(a) ELSE s[n + i + q + 1] = <<"ask", l + 1, 1>>
      BY <2>4, <2>5 DEF Follows
    <2>8. i + q <= Len(t)
      BY <1>1, <1>4, <2>6
    <2>9. ASSUME NEW d \in 0 .. q PROVE t[i + d] = <<"ask", l, h + d>>
      <3>1. i + d \in 1 .. Len(s) - n /\ n + (i + d) = n + i + d
        BY <1>1, <2>6
      <3>2. s[n + i + d] = <<"ask", l, h + d>>
        BY <2>7
      <3>. QED
        BY <1>4, <3>1, <3>2
    <2>10. IF i + q = Len(t) THEN l = Len(a) ELSE t[i + q + 1] = <<"ask", l + 1, 1>>
      <3>1. CASE i + q = Len(t)
        <4>1. PICK N \in Nat : N = Len(s)
          BY <1>1
        <4>2. i + q = N - n
          BY <1>5, <3>1, <4>1
        <4>3. n + i + q = N
          BY <1>2, <4>2
        <4>4. n + i + q = Len(s)
          BY <4>1, <4>3
        <4>. QED
          BY <2>7, <3>1, <4>4
      <3>2. CASE i + q # Len(t)
        <4>1. i + q < Len(s) - n
          <5>1. PICK M \in Nat : M = Len(t)
            BY <1>4, LenProperties
          <5>2. i + q <= M /\ i + q # M
            BY <2>8, <3>2, <5>1
          <5>3. i + q < M
            BY <5>2
          <5>4. i + q < Len(t)
            BY <5>1, <5>3
          <5>. QED
            BY <1>5, <5>4
        <4>2. i + q + 1 <= Len(s) - n /\ i + q + 1 \in Nat
          BY <1>1, <1>2, <4>1
        <4>3. i + q + 1 \in 1 .. Len(s) - n
          BY <1>1, <1>2, <4>2
        <4>4. n + (i + q + 1) = n + i + q + 1
          BY <1>2
        <4>5. n + i + q # Len(s)
          BY <1>1, <1>4, <3>2
        <4>6. s[n + i + q + 1] = <<"ask", l + 1, 1>>
          BY <2>7, <4>5
        <4>. QED
          BY <1>4, <3>2, <4>3, <4>4, <4>6
      <3>. QED
        BY <3>1, <3>2
    <2>11. Follows(t, a, i, l, h)
      BY <2>5, <2>8, <2>9, <2>10 DEF Follows
    <2>. QED
      BY <2>11
  <1>16. GoesOn(t, a, Due(a, p, g + n))
    <2>1. CASE n = Len(s)
      <3>1. 1 + r = Len(s)
        BY <1>1, <1>9, <1>13, <2>1
      <3>2. g + n = HeaderSize + a[p + 1] /\ g + n > 0
        <4>1. n = HeaderSize + a[k] - g
          BY <1>13, <2>1, <3>1
        <4>2. PICK l \in Nat : l = a[k]
          BY <1>13
        <4>3. n = HeaderSize + l - g
          BY <4>1, <4>2
        <4>4. g + n = HeaderSize + l
          BY <1>1, <1>2, <4>3
        <4>5. g + n = HeaderSize + l /\ g + n > 0
          BY <1>2, <4>4
        <4>. QED
          BY <1>12, <4>2, <4>5
      <3>3. p + 2 = Len(a) + 1
        BY <1>1, <1>9, <1>12, <3>1
      <3>4. Due(a, p, g + n) = <<"ask", Len(a) + 1, 1>>
        BY <3>2, <3>3 DEF Due
      <3>. QED
        BY <1>4, <2>1, <3>4 DEF GoesOn
    <2>2. CASE n # Len(s)
      <3>1. t # <<>> /\ t[1] = s[n + 1]
        BY <1>1, <1>4, <2>2
      <3>2. CASE g + n = HeaderSize + a[p + 1]
        <4>1. n = 1 + r
          BY SMTT(30), <1>1, <1>12, <1>13, <3>2
        <4>2. s[n + 1] = <<"ask", k + 1, 1>>
          BY <1>9, <2>2, <4>1
        <4>3. k + 1 = p + 2 /\ g + n > 0
          BY <1>12
        <4>. QED
          BY <3>1, <3>2, <4>2, <4>3 DEF GoesOn, Due
      <3>3. CASE g + n # HeaderSize + a[p + 1]
        <4>1. n \in 0 .. r
          <5>1. PICK l \in Nat : l = a[k]
            BY <1>13
          <5>2. g + n # HeaderSize + l
            BY <1>12, <3>3, <5>1
          <5>3. n # HeaderSize + l - g
            BY <1>1, <1>2, <5>2
          <5>4. n # HeaderSize + a[k] - g
            BY <5>1, <5>3
          <5>5. n # 1 + r
            BY <1>13, <5>4
          <5>. QED
            BY <1>13, <5>5
        <4>2. 1 + n = n + 1 /\ j + n = g + n + 1
          BY <1>12
        <4>3. s[n + 1] = <<"ask", p + 1, g + n + 1>>
          BY <1>9, <1>12, <4>1, <4>2
        <4>. QED
          BY <3>1, <3>3, <4>3 DEF GoesOn, Due
      <3>. QED
        BY <3>2, <3>3
    <2>. QED
      BY <2>1, <2>2
  <1>. QED
    BY <1>12, <1>14, <1>15, <1>16 DEF t

-----------------------------------------------------------------------------
(* Steps.                                                                     *)

\* The buffers are filled with zeros at first.
LEMMA Starts == Init => Inv
  <1>. SUFFICES ASSUME Init PROVE Inv
    OBVIOUS
  <1>1. /\ Ahead = <<>> /\ Got = 0 /\ Due(asked, answered, Got) = <<"ask", 1, 1>>
        /\ Len(asked) = 0 /\ Len(out) = 0 /\ Len(promised) = 0
    BY Bounds DEF Init, Ahead, Got, Due, Reading
  <1>2. TypeOK
    <2>1. header \in [1 .. HeaderSize -> Units \cup {Zero}]
      BY DEF Init, Zeros
    <2>2. pc \in {"recv", "send"} => total <= Len(Buffer)
      BY <2>1, Bounds DEF Init, Buffer, Zeros
    <2>3. /\ message_body \in Seq(Units \cup {Zero}) /\ response \in Seq(Units)
          /\ wire \in Seq(Units) /\ inbox \in Seq(Units) /\ out \in Seq(Units)
          /\ asked \in Seq(Nat) /\ promised \in Seq(Units)
      BY EmptySeq DEF Init
    <2>4. /\ pc \in Reading /\ part \in {"header", "body"} /\ total \in Nat
          /\ fd \in [{"READ", "WRITE", "CLOSE"} -> {"armed", "recorded", "posted", "never"}]
          /\ drained \in 0 .. Len(out) /\ conn \in {"open", "shut", "reset", "closed"}
          /\ answered \in 0 .. Len(asked)
      BY <1>1 DEF Init, Selected, Unselected, Reading
    <2>5. success \in BOOLEAN /\ stop_event \in BOOLEAN
      BY DEF Init
    <2>. QED
      BY <2>1, <2>2, <2>3, <2>4, <2>5 DEF TypeOK
  <1>3. StreamRight
    BY <1>1 DEF StreamRight, Stream, GoesOn
  <1>4. RequestHeld
    BY <1>1, Bounds DEF Init, RequestHeld
  <1>5. SentRight /\ EventsRight
    BY <1>1 DEF Init, Selected, Unselected, SentRight, EventsRight, Shows
  <1>. QED
    BY <1>1, <1>2, <1>3, <1>4, <1>5, Bounds DEF Inv, Init, Sending

\* Types of what most steps look at.
LEMMA Types ==
  ASSUME Inv
  PROVE  /\ inbox \in Seq(Units) /\ wire \in Seq(Units) /\ Ahead \in Seq(Units)
         /\ out \in Seq(Units) /\ promised \in Seq(Units)
         /\ Len(out) \in Nat /\ Len(promised) \in Nat /\ Len(inbox) \in Nat
         /\ asked \in Seq(Nat) /\ Len(asked) \in Nat /\ Len(asked) <= MaxRequests
         /\ answered \in Nat /\ answered <= Len(asked) /\ total \in Nat
         /\ \A k \in 1 .. Len(asked) : asked[k] \in Nat
         /\ HeaderSize \in Nat /\ HeaderSize > 0 /\ MaxRequests \in Nat /\ MaxLength \in Nat
         /\ Got \in Nat
         /\ fd \in [{"READ", "WRITE", "CLOSE"} -> {"armed", "recorded", "posted", "never"}]
  <1>1. /\ inbox \in Seq(Units) /\ wire \in Seq(Units) /\ out \in Seq(Units)
        /\ promised \in Seq(Units) /\ asked \in Seq(Nat) /\ total \in Nat
        /\ answered \in 0 .. Len(asked) /\ Len(asked) <= MaxRequests
        /\ fd \in [{"READ", "WRITE", "CLOSE"} -> {"armed", "recorded", "posted", "never"}]
    BY DEF Inv, TypeOK
  <1>2. Ahead \in Seq(Units)
    BY <1>1, Joined DEF Ahead
  <1>3. /\ Len(out) \in Nat /\ Len(promised) \in Nat /\ Len(inbox) \in Nat /\ Len(asked) \in Nat
        /\ \A k \in 1 .. Len(asked) : asked[k] \in Nat
    BY <1>1, LenProperties, ElementOfSeq
  <1>4. HeaderSize \in Nat /\ HeaderSize > 0 /\ MaxRequests \in Nat /\ MaxLength \in Nat
    BY Bounds
  <1>5. Got \in Nat
    BY <1>1, <1>4 DEF Got
  <1>. QED
    BY <1>1, <1>2, <1>3, <1>4, <1>5

\* An event is recorded if it was armed, and the others are left alone.
LEMMA Recorded ==
  ASSUME NEW event \in {"READ", "WRITE", "CLOSE"},
         fd \in [{"READ", "WRITE", "CLOSE"} -> {"armed", "recorded", "posted", "never"}]
  PROVE  /\ Record(event) \in [{"READ", "WRITE", "CLOSE"} -> {"armed", "recorded", "posted", "never"}]
         /\ Record(event)[event] = IF fd[event] = "armed" THEN "recorded" ELSE fd[event]
         /\ \A e \in {"READ", "WRITE", "CLOSE"} : e # event => Record(event)[e] = fd[e]
  BY DEF Record, Mask

-----------------------------------------------------------------------------
(* The client and the network leave the thread's own state alone, and what    *)
(* the counters and buffers say; the requests asked may become more.          *)

LEMMA ThreadStays ==
  ASSUME Inv, UNCHANGED <<threadVars, out, history>>,
         asked' \in Seq(Nat), Len(asked') >= Len(asked),
         \A k \in 1 .. Len(asked) : asked'[k] = asked[k]
  PROVE  /\ UNCHANGED <<pc, part, header, message_body, response, total, success, out,
                        answered, promised, Got>>
         /\ pc # "left" => Due(asked', answered', Got') = Due(asked, answered, Got)
         /\ pc \in Reading => RequestHeld'
         /\ pc \in Sending => AnswerHeld'
         /\ SentRight'
  <1>1. UNCHANGED <<pc, part, header, message_body, response, total, success, out,
                    answered, promised>>
    BY DEF threadVars, bufferVars, history
  <1>2. Got' = Got
    BY <1>1 DEF Got
  <1>3. /\ Got \in Nat /\ answered \in Nat /\ Len(asked) \in Nat /\ Len(asked') \in Nat
        /\ answered <= Len(asked) /\ HeaderSize \in Nat /\ HeaderSize > 0
    BY Types, LenProperties
  <1>4. Got > 0 => answered < Len(asked)
    BY <1>3 DEF Inv, Got, RequestHeld
  <1>5. Got > 0 => asked'[answered + 1] = asked[answered + 1]
    <2>1. answered < Len(asked) => answered + 1 \in 1 .. Len(asked)
      BY <1>3
    <2>. QED
      BY <1>4, <2>1
  <1>6. Due(asked', answered', Got') = Due(asked, answered, Got)
    BY <1>1, <1>2, <1>5 DEF Due
  <1>7. ASSUME pc \in Reading PROVE RequestHeld'
    <2>1. RequestHeld /\ total \in Nat
      BY <1>7, Types DEF Inv
    <2>2. part = "body" => Got > 0
      BY <1>3, <1>7, <2>1 DEF Got
    <2>3. part = "body" => asked'[answered + 1] = asked[answered + 1]
      BY <1>5, <2>2
    <2>4. Got' > 0 => answered' < Len(asked')
      BY <1>1, <1>2, <1>3, <1>4
    <2>. QED
      BY <1>1, <1>2, <2>1, <2>3, <2>4 DEF RequestHeld
  <1>8. ASSUME pc \in Sending PROVE AnswerHeld'
    BY <1>1, <1>8 DEF Inv, AnswerHeld, AnswerStart
  <1>9. SentRight'
    BY <1>1 DEF Inv, SentRight
  <1>. QED
    BY <1>1, <1>2, <1>6, <1>7, <1>8, <1>9

\* What is left to show of such a step.
LEMMA ClientKeeps ==
  ASSUME Inv, UNCHANGED <<threadVars, out, history>>,
         asked' \in Seq(Nat), Len(asked') >= Len(asked), Len(asked') <= MaxRequests,
         \A k \in 1 .. Len(asked) : asked'[k] = asked[k],
         stop_event' \in BOOLEAN,
         fd' \in [{"READ", "WRITE", "CLOSE"} -> {"armed", "recorded", "posted", "never"}],
         wire' \in Seq(Units), inbox' \in Seq(Units), drained' \in 0 .. Len(out),
         conn' \in {"open", "shut", "reset", "closed"},
         pc # "left" => StreamRight', EventsRight'
  PROVE  Inv'
  <1>1. /\ UNCHANGED <<pc, part, header, message_body, response, total, success, out,
                       answered, promised>>
        /\ pc \in Reading => RequestHeld'
        /\ pc \in Sending => AnswerHeld'
        /\ SentRight'
    BY ThreadStays
  <1>2. answered' \in 0 .. Len(asked')
    <2>1. Len(asked') \in Nat
      BY LenProperties
    <2>. QED
      BY <1>1, <2>1, Types
  <1>3. (pc \in {"recv", "send"} => total <= Len(Buffer))'
    BY <1>1 DEF Inv, TypeOK, Buffer
  <1>4. success' \in BOOLEAN
    BY <1>1 DEF Inv, TypeOK
  <1>5. /\ pc' \in Reading \cup Writing \cup {"left"} /\ part' \in {"header", "body"}
        /\ header' \in [1 .. HeaderSize -> Units \cup {Zero}]
        /\ message_body' \in Seq(Units \cup {Zero}) /\ response' \in Seq(Units)
        /\ total' \in Nat /\ out' \in Seq(Units) /\ promised' \in Seq(Units)
        /\ drained' \in 0 .. Len(out')
    BY <1>1 DEF Inv, TypeOK
  <1>6. TypeOK'
    BY <1>2, <1>3, <1>4, <1>5 DEF TypeOK
  <1>. QED
    BY <1>1, <1>6 DEF Inv

\* The client sends a request: the stream has one more message at its end.
LEMMA AskKeeps ==
  ASSUME Inv, NEW n \in 0 .. MaxLength + 1, Ask(n)
  PROVE  Inv'
  <1>1. /\ conn = "open" /\ Len(asked) < MaxRequests /\ pc # "left"
        /\ asked' = Append(asked, n) /\ wire' = wire \o Message("ask", Len(asked) + 1, n)
        /\ UNCHANGED <<threadVars, stop_event, fd, conn, inbox, out, drained, history>>
    BY DEF Ask, Inv, EventsRight
  <1>2. n \in Nat
    BY Types
  <1>3. /\ asked' \in Seq(Nat) /\ Len(asked') = Len(asked) + 1
        /\ \A k \in 1 .. Len(asked) : asked'[k] = asked[k]
    BY <1>1, <1>2, Types, AppendProperties
  <1>4. Len(asked') >= Len(asked) /\ Len(asked') <= MaxRequests
    BY <1>1, <1>3, Types
  <1>5. PICK m : m = Message("ask", Len(asked) + 1, n)
    OBVIOUS
  <1>6. m \in Seq(Units)
    <2>1. Len(asked) + 1 \in 1 .. MaxRequests
      BY <1>1, Types
    <2>. QED
      BY <1>2, <1>5, <2>1, MessageParts
  <1>7. wire' \in Seq(Units)
    BY <1>1, <1>5, <1>6, Types, Joined
  <1>8. Ahead' = Ahead \o m
    <2>1. Ahead' = inbox \o (wire \o m)
      BY <1>1, <1>5 DEF Ahead
    <2>2. inbox \in Seq(Units) /\ wire \in Seq(Units)
      BY Types
    <2>3. (inbox \o wire) \o m = inbox \o (wire \o m)
      BY <1>6, <2>2, ConcatAssociative
    <2>. QED
      BY <2>1, <2>3 DEF Ahead
  <1>9. StreamRight'
    <2>1. PICK due : due = Due(asked, answered, Got)
      OBVIOUS
    <2>2. Stream(Ahead, asked) /\ GoesOn(Ahead, asked, due)
      BY <1>1, <2>1 DEF Inv, StreamRight
    <2>3. Stream(Ahead', asked') /\ GoesOn(Ahead', asked', due)
      BY <1>1, <1>2, <1>5, <1>8, <2>2, Types, StreamLonger
    <2>4. Due(asked', answered', Got') = due
      BY <1>1, <1>3, <1>4, <2>1, ThreadStays
    <2>. QED
      BY <1>1, <2>3, <2>4 DEF StreamRight
  <1>10. EventsRight'
    BY <1>1 DEF Inv, EventsRight, Shows, Ending, Space, threadVars
  <1>11. /\ stop_event' \in BOOLEAN /\ drained' \in 0 .. Len(out)
         /\ conn' \in {"open", "shut", "reset", "closed"}
    BY <1>1 DEF Inv, TypeOK
  <1>. QED
    BY <1>1, <1>3, <1>4, <1>7, <1>9, <1>10, <1>11, Types, ClientKeeps

\* The frame of the other steps of the client and the network.
LEMMA StreamStays ==
  ASSUME Inv, UNCHANGED <<threadVars, out, history, asked>>, Ahead' = Ahead,
         pc # "left", conn # "reset", conn' # "reset"
  PROVE  StreamRight'
  <1>1. asked' \in Seq(Nat) /\ Len(asked') >= Len(asked)
    BY Types
  <1>2. Due(asked', answered', Got') = Due(asked, answered, Got)
    BY <1>1, ThreadStays
  <1>. QED
    BY <1>2 DEF Inv, StreamRight

LEMMA ArriveKeeps ==
  ASSUME Inv, Arrive
  PROVE  Inv'
  <1>1. /\ wire # <<>> /\ conn \in {"open", "shut"} /\ pc # "left"
        /\ inbox' = Append(inbox, Head(wire)) /\ wire' = Tail(wire) /\ fd' = Record("READ")
        /\ UNCHANGED <<threadVars, stop_event, conn, out, drained, asked, history>>
    BY DEF Arrive, Inv, EventsRight
  <1>2. inbox \in Seq(Units) /\ wire \in Seq(Units)
    BY Types
  <1>3. PICK h \in Units : h = Head(wire)
    BY <1>1, <1>2, HeadTailProperties
  <1>4. wire' \in Seq(Units) /\ inbox' \in Seq(Units) /\ inbox' = inbox \o <<h>>
    BY <1>1, <1>2, <1>3, HeadTailProperties, AppendProperties, AppendIsConcat
  <1>5. wire = <<h>> \o wire'
    <2>1. <<h>> \in Seq(Units) /\ Len(<<h>>) = 1 /\ <<h>>[1] = h
      BY <1>3
    <2>2. /\ Len(wire') = Len(wire) - 1 /\ Len(wire) \in Nat
          /\ \A i \in 1 .. Len(wire') : wire'[i] = wire[i + 1]
      BY <1>1, <1>2, HeadTailProperties, LenProperties
    <2>3. PICK t : t = <<h>> \o wire'
      OBVIOUS
    <2>4. PICK u \in Seq(Units) : u = <<h>>
      BY <2>1
    <2>5. /\ t \in Seq(Units) /\ Len(t) = Len(u) + Len(wire')
          /\ \A i \in 1 .. Len(u) : t[i] = u[i]
          /\ \A i \in 1 .. Len(wire') : t[Len(u) + i] = wire'[i]
      BY <1>4, <2>3, <2>4, Joined
    <2>6. /\ Len(t) = Len(wire) /\ t[1] = h
          /\ \A i \in 1 .. Len(wire) - 1 : t[1 + i] = wire[i + 1]
      BY <2>1, <2>2, <2>4, <2>5
    <2>7. ASSUME NEW i \in 1 .. Len(wire) PROVE wire[i] = t[i]
      <3>1. CASE i = 1
        BY <1>1, <1>3, <2>6, <3>1
      <3>2. CASE i # 1
        <4>1. i - 1 \in 1 .. Len(wire) - 1 /\ 1 + (i - 1) = i /\ (i - 1) + 1 = i
          BY <2>2, <3>2
        <4>. QED
          BY <2>6, <4>1
      <3>. QED
        BY <3>1, <3>2
    <2>8. wire = t
      BY <1>2, <2>5, <2>6, <2>7, SeqEqual
    <2>. QED
      BY <2>3, <2>8
  <1>6. Ahead' = Ahead
    <2>1. <<h>> \in Seq(Units)
      BY <1>3
    <2>2. (inbox \o <<h>>) \o wire' = inbox \o (<<h>> \o wire')
      BY <1>2, <1>4, <2>1, ConcatAssociative
    <2>. QED
      BY <1>4, <1>5, <2>2 DEF Ahead
  <1>7. StreamRight'
    BY <1>1, <1>6, StreamStays
  <1>8. /\ fd' \in [{"READ", "WRITE", "CLOSE"} -> {"armed", "recorded", "posted", "never"}]
        /\ fd'.READ = IF fd.READ = "armed" THEN "recorded" ELSE fd.READ
        /\ fd'.WRITE = fd.WRITE /\ fd'.CLOSE = fd.CLOSE
    BY <1>1, Recorded, Types
  <1>9. EventsRight'
    <2>1. pc = "recv_wait" => fd'.READ \in {"recorded", "never"}
      BY <1>8, Types DEF Inv, EventsRight
    <2>2. inbox' # <<>>
      BY <1>1, <1>2, <1>3, AppendProperties
    <2>. QED
      BY <1>1, <1>8, <2>1, <2>2 DEF Inv, EventsRight, Shows, Ending, Space, threadVars
  <1>10. /\ stop_event' \in BOOLEAN /\ drained' \in 0 .. Len(out)
         /\ conn' \in {"open", "shut", "reset", "closed"}
    BY <1>1 DEF Inv, TypeOK
  <1>. QED
    BY <1>1, <1>4, <1>7, <1>8, <1>9, <1>10, Types, ClientKeeps

LEMMA DrainKeeps ==
  ASSUME Inv, Drain
  PROVE  Inv'
  <1>1. /\ drained < Len(out) /\ conn # "reset" /\ drained' = drained + 1
        /\ fd' = Record("WRITE")
        /\ UNCHANGED <<threadVars, stop_event, wire, asked, conn, inbox, out, history>>
    BY DEF Drain, clientVars
  <1>2. drained' \in 0 .. Len(out)
    <2>1. drained \in Nat
      BY Types DEF Inv, TypeOK
    <2>. QED
      BY <1>1, <2>1, Types
  <1>3. pc # "left" => StreamRight'
    BY <1>1, StreamStays DEF Ahead
  <1>4. /\ fd' \in [{"READ", "WRITE", "CLOSE"} -> {"armed", "recorded", "posted", "never"}]
        /\ fd'.WRITE = IF fd.WRITE = "armed" THEN "recorded" ELSE fd.WRITE
        /\ fd'.READ = fd.READ /\ fd'.CLOSE = fd.CLOSE
    BY <1>1, Recorded, Types
  <1>5. EventsRight'
    <2>1. pc = "send_wait" => fd'.WRITE \in {"recorded", "never"}
      BY <1>4, Types DEF Inv, EventsRight
    <2>. QED
      BY <1>1, <1>4, <2>1 DEF Inv, EventsRight, Shows, Ending, threadVars
  <1>6. stop_event' \in BOOLEAN
    BY <1>1 DEF Inv, TypeOK
  <1>7. /\ conn' \in {"open", "shut", "reset", "closed"}
        /\ wire' \in Seq(Units) /\ inbox' \in Seq(Units)
    BY <1>1 DEF Inv, TypeOK
  <1>. QED
    BY <1>1, <1>2, <1>3, <1>4, <1>5, <1>6, <1>7, Types, ClientKeeps

LEMMA ShutKeeps ==
  ASSUME Inv, Shut
  PROVE  Inv'
  <1>1. /\ conn = "open" /\ conn' = "shut" /\ pc # "left"
        /\ fd' = Record("CLOSE") \/ (inbox # <<>> /\ fd' = fd)
        /\ UNCHANGED <<threadVars, stop_event, wire, asked, inbox, out, drained, history>>
    BY DEF Shut, Inv, EventsRight
  <1>2. StreamRight'
    BY <1>1, StreamStays DEF Ahead
  <1>3. /\ fd' \in [{"READ", "WRITE", "CLOSE"} -> {"armed", "recorded", "posted", "never"}]
        /\ \/ fd'.CLOSE = IF fd.CLOSE = "armed" THEN "recorded" ELSE fd.CLOSE
           \/ inbox # <<>> /\ fd'.CLOSE = fd.CLOSE
        /\ fd'.READ = fd.READ /\ fd'.WRITE = fd.WRITE
    BY <1>1, Recorded, Types
  <1>4. EventsRight'
    BY <1>1, <1>3 DEF Inv, EventsRight, Shows, Ending, Space, threadVars
  <1>5. stop_event' \in BOOLEAN
    BY <1>1 DEF Inv, TypeOK
  <1>6. drained' \in 0 .. Len(out) /\ wire' \in Seq(Units) /\ inbox' \in Seq(Units)
    BY <1>1 DEF Inv, TypeOK
  <1>. QED
    BY <1>1, <1>2, <1>3, <1>4, <1>5, <1>6, Types, ClientKeeps

LEMMA ResetKeeps ==
  ASSUME Inv, Reset
  PROVE  Inv'
  <1>1. /\ conn \in {"open", "shut"} /\ conn' = "reset" /\ wire' = <<>> /\ inbox' = <<>>
        /\ fd' = Record("CLOSE") /\ pc # "left"
        /\ UNCHANGED <<threadVars, stop_event, asked, out, drained, history>>
    BY DEF Reset, Inv, EventsRight
  <1>2. StreamRight'
    <2>1. Ahead' = <<>>
      BY <1>1, EmptySeq DEF Ahead
    <2>. QED
      BY <1>1, <2>1 DEF StreamRight
  <1>3. /\ fd' \in [{"READ", "WRITE", "CLOSE"} -> {"armed", "recorded", "posted", "never"}]
        /\ fd'.CLOSE = IF fd.CLOSE = "armed" THEN "recorded" ELSE fd.CLOSE
        /\ fd'.READ = fd.READ /\ fd'.WRITE = fd.WRITE
    BY <1>1, Recorded, Types
  <1>4. EventsRight'
    BY <1>1, <1>3 DEF Inv, EventsRight, Shows, Ending, Space, threadVars
  <1>5. stop_event' \in BOOLEAN
    BY <1>1 DEF Inv, TypeOK
  <1>6. drained' \in 0 .. Len(out) /\ wire' \in Seq(Units) /\ inbox' \in Seq(Units)
    BY <1>1 DEF Inv, TypeOK
  <1>. QED
    BY <1>1, <1>2, <1>3, <1>4, <1>5, <1>6, Types, ClientKeeps

LEMMA SetStopKeeps ==
  ASSUME Inv, SetStop
  PROVE  Inv'
  <1>1. /\ stop_event' = TRUE
        /\ UNCHANGED <<threadVars, fd, wire, asked, conn, inbox, out, drained, history>>
    BY DEF SetStop, clientVars
  <1>2. pc # "left" => StreamRight'
    BY <1>1 DEF Inv, StreamRight, Ahead, Got, threadVars, history
  <1>3. EventsRight'
    BY <1>1 DEF Inv, EventsRight, Shows, Ending, Space, threadVars
  <1>4. stop_event' \in BOOLEAN
    BY <1>1
  <1>5. /\ drained' \in 0 .. Len(out) /\ wire' \in Seq(Units) /\ inbox' \in Seq(Units)
        /\ conn' \in {"open", "shut", "reset", "closed"}
    BY <1>1 DEF Inv, TypeOK
  <1>. QED
    BY <1>1, <1>2, <1>3, <1>4, <1>5, Types, ClientKeeps

-----------------------------------------------------------------------------
(* Steps of the thread that leave the buffers and counters as they are: it    *)
(* goes on reading, goes on writing, ends a write, or leaves.                 *)

LEMMA MoveKeeps ==
  ASSUME Inv, UNCHANGED <<stop_event, wire, inbox, asked, drained, out, history>>,
         UNCHANGED <<part, bufferVars, total>>,
         fd' \in [{"READ", "WRITE", "CLOSE"} -> {"armed", "recorded", "posted", "never"}],
         success' \in BOOLEAN, conn' \in {"open", "shut", "reset", "closed"},
         \/ pc' = "left"
         \/ /\ conn' = conn /\ pc \in Reading /\ pc' \in Reading
            /\ pc' = "handler" => part = "body" /\ total = Len(message_body)
         \/ conn' = conn /\ pc \in Sending /\ pc' \in Sending
         \/ /\ conn' = conn /\ pc \in Sending /\ pc' = "answered"
            /\ success' => Len(out) = Len(promised),
         EventsRight'
  PROVE  Inv'
  <1>1. /\ UNCHANGED <<part, header, message_body, response, total, out, answered, promised,
                       asked, inbox, wire>>
        /\ UNCHANGED <<stop_event, drained>>
    BY DEF bufferVars, history
  <1>2. /\ pc' \in Reading => pc \in Reading /\ conn' = conn
        /\ pc' \in Sending => pc \in Sending /\ conn' = conn
        /\ pc' = "answered" => pc \in Sending /\ conn' = conn
        /\ pc' \in Reading \cup Writing \cup {"left"}
    BY DEF Reading, Sending, Writing
  <1>3. pc' \in Reading => RequestHeld'
    <2>1. SUFFICES ASSUME pc' \in Reading PROVE RequestHeld'
      OBVIOUS
    <2>2. RequestHeld /\ Got' = Got
      BY <1>1, <1>2, <2>1 DEF Inv, Got
    <2>3. pc' = "handler" => part = "body" /\ total = Len(message_body)
      BY DEF Reading, Sending
    <2>. QED
      BY <1>1, <2>2, <2>3 DEF RequestHeld
  <1>4. pc' \in Sending => AnswerHeld'
    BY <1>1, <1>2 DEF Inv, AnswerHeld, AnswerStart
  <1>5. pc' # "left" => StreamRight'
    <2>1. SUFFICES ASSUME pc' # "left" PROVE StreamRight'
      OBVIOUS
    <2>2. pc # "left" /\ conn' = conn /\ Got' = Got
      BY <1>1, <1>2, <2>1 DEF Reading, Sending, Writing, Got
    <2>. QED
      BY <1>1, <2>2 DEF Inv, StreamRight, Ahead
  <1>6. SentRight'
    <2>1. pc' \in Reading => Len(out) = Len(promised)
      BY <1>2 DEF Inv, SentRight
    <2>2. pc' = "answered" /\ success' => Len(out) = Len(promised)
      BY DEF Reading, Sending
    <2>. QED
      BY <1>1, <2>1, <2>2 DEF Inv, SentRight
  <1>7. (pc \in {"recv", "send"} => total <= Len(Buffer))'
    <2>1. SUFFICES ASSUME pc' \in {"recv", "send"} PROVE total <= Len(Buffer')
      BY <1>1
    <2>2. Len(header) = HeaderSize /\ part \in {"header", "body"}
      BY Types, LenProperties DEF Inv, TypeOK
    <2>3. CASE pc' = "recv"
      <3>1. RequestHeld /\ Buffer' = IF part = "header" THEN header ELSE message_body
        BY <1>1, <1>2, <2>3 DEF Inv, Reading, Buffer
      <3>. QED
        BY <2>2, <3>1 DEF RequestHeld
    <2>4. CASE pc' = "send"
      <3>1. AnswerHeld /\ Buffer' = IF part = "header" THEN header ELSE response
        BY <1>1, <1>2, <2>4 DEF Inv, Sending, Buffer
      <3>. QED
        BY <2>2, <3>1 DEF AnswerHeld
    <2>. QED
      BY <2>1, <2>3, <2>4
  <1>8. stop_event' \in BOOLEAN
    BY <1>1 DEF Inv, TypeOK
  <1>9. /\ part' \in {"header", "body"} /\ header' \in [1 .. HeaderSize -> Units \cup {Zero}]
        /\ message_body' \in Seq(Units \cup {Zero}) /\ response' \in Seq(Units)
        /\ total' \in Nat /\ wire' \in Seq(Units) /\ inbox' \in Seq(Units) /\ out' \in Seq(Units)
        /\ drained' \in 0 .. Len(out') /\ asked' \in Seq(Nat) /\ answered' \in 0 .. Len(asked')
        /\ promised' \in Seq(Units)
    BY <1>1 DEF Inv, TypeOK
  <1>10. TypeOK'
    BY <1>2, <1>7, <1>8, <1>9 DEF TypeOK
  <1>. QED
    BY <1>1, <1>3, <1>4, <1>5, <1>6, <1>10 DEF Inv

LEMMA ReceiveBlocksKeeps ==
  ASSUME Inv, ReceiveBlocks
  PROVE  Inv'
  <1>1. /\ pc = "recv" /\ inbox = <<>> /\ conn = "open" /\ conn' = conn /\ pc' = "recv_wait"
        /\ fd' = AfterRecv(<<>>)
        /\ UNCHANGED <<stop_event, wire, inbox, asked, drained, out, history>>
        /\ UNCHANGED <<part, bufferVars, total>>
    BY DEF ReceiveBlocks, Thread
  <1>2. /\ fd' \in [{"READ", "WRITE", "CLOSE"} -> {"armed", "recorded", "posted", "never"}]
        /\ fd'.READ # "posted" /\ fd'.CLOSE = fd.CLOSE
    BY <1>1, Types DEF AfterRecv, Record, Mask
  <1>3. success' \in BOOLEAN
    BY DEF ReceiveBlocks, Inv, TypeOK
  <1>4. EventsRight'
    BY <1>1, <1>2 DEF Inv, EventsRight
  <1>. QED
    BY <1>1, <1>2, <1>3, <1>4, MoveKeeps DEF Reading

LEMMA ReceiveEndsKeeps ==
  ASSUME Inv, ReceiveEnds
  PROVE  Inv'
  <1>1. /\ pc' = "left" /\ conn' = "closed"
        /\ UNCHANGED <<stop_event, wire, inbox, asked, drained, out, history>>
        /\ UNCHANGED <<part, bufferVars, total, fd>>
    BY DEF ReceiveEnds, Thread, Leave
  <1>2. success' \in BOOLEAN
    BY DEF ReceiveEnds, Inv, TypeOK
  <1>3. EventsRight'
    BY <1>1 DEF EventsRight, Ending
  <1>. QED
    BY <1>1, <1>2, <1>3, Types, MoveKeeps

LEMMA ReadBodyKeeps ==
  ASSUME Inv, ReadBody
  PROVE  Inv'
  <1>1. /\ pc = "recv" /\ part = "body" /\ total = Len(message_body) /\ pc' = "handler"
        /\ UNCHANGED <<stop_event, wire, inbox, asked, drained, out, history>>
        /\ UNCHANGED <<part, bufferVars, total, fd, conn>>
    BY DEF ReadBody, Thread
  <1>2. success' \in BOOLEAN
    BY DEF ReadBody, Inv, TypeOK
  <1>3. EventsRight' /\ conn' \in {"open", "shut", "reset", "closed"}
    BY <1>1 DEF Inv, TypeOK, EventsRight, Shows, Ending
  <1>. QED
    BY <1>1, <1>2, <1>3, Types, MoveKeeps DEF Reading

LEMMA SendBlocksKeeps ==
  ASSUME Inv, SendBlocks
  PROVE  Inv'
  <1>1. /\ pc = "send" /\ conn \in {"open", "shut"} /\ conn' = conn /\ pc' = "send_wait"
        /\ Space = 0 /\ fd' = AfterBlockedSend
        /\ UNCHANGED <<stop_event, wire, inbox, asked, drained, out, history>>
        /\ UNCHANGED <<part, bufferVars, total>>
    BY DEF SendBlocks, Thread
  <1>2. /\ fd' \in [{"READ", "WRITE", "CLOSE"} -> {"armed", "recorded", "posted", "never"}]
        /\ fd'.WRITE # "posted" /\ fd'.CLOSE = fd.CLOSE
    BY <1>1, Types DEF AfterBlockedSend
  <1>3. success' \in BOOLEAN
    BY DEF SendBlocks, Inv, TypeOK
  <1>4. Space' = Space
    BY <1>1 DEF Space
  <1>5. EventsRight'
    BY <1>1, <1>2, <1>4 DEF Inv, EventsRight, Shows, Ending
  <1>. QED
    BY <1>1, <1>2, <1>3, <1>5, MoveKeeps DEF Sending

LEMMA SentMessageKeeps ==
  ASSUME Inv, SentMessage
  PROVE  Inv'
  <1>1. /\ pc = "send" /\ part = "body" /\ total = Len(response) /\ pc' = "answered"
        /\ success' = TRUE
        /\ UNCHANGED <<stop_event, wire, inbox, asked, drained, out, history>>
        /\ UNCHANGED <<part, bufferVars, total, fd, conn>>
    BY DEF SentMessage, Thread
  <1>2. Len(out) = Len(promised)
    <2>1. AnswerHeld
      BY <1>1 DEF Inv, Sending
    <2>. QED
      BY <1>1, <2>1, Types DEF AnswerHeld, AnswerStart
  <1>3. EventsRight' /\ conn' \in {"open", "shut", "reset", "closed"}
    BY <1>1 DEF Inv, TypeOK, EventsRight, Shows, Ending
  <1>4. success' \in BOOLEAN
    BY <1>1
  <1>. QED
    BY <1>1, <1>2, <1>3, <1>4, Types, MoveKeeps DEF Sending

\* A wait that fails ends the thread or the write.
LEMMA WaitFailsKeeps ==
  ASSUME Inv, NEW io \in {"recv", "send"}, WaitFails(io),
         pc \in {Waiting(io), Enum(io)},
         UNCHANGED <<stop_event, wire, inbox, asked, drained, out, history>>,
         UNCHANGED <<part, bufferVars, total>>,
         fd' \in [{"READ", "WRITE", "CLOSE"} -> {"armed", "recorded", "posted", "never"}],
         conn = "open" => fd'.CLOSE \in {"armed", "never"}
  PROVE  Inv'
  <1>1. \/ pc' = "left" /\ conn' \in {"closed", "reset"} /\ success' = success
        \/ pc' = "answered" /\ success' = FALSE /\ conn' = conn /\ pc \in Sending
    <2>1. CASE io = "recv"
      BY <2>1 DEF WaitFails, Leave
    <2>2. CASE io = "send"
      <3>1. pc \in Sending
        BY <2>2 DEF Waiting, Enum, Sending
      <3>. QED
        BY <2>2, <3>1 DEF WaitFails
    <2>. QED
      BY <2>1, <2>2
  <1>2. success' \in BOOLEAN
    <2>1. success \in BOOLEAN
      BY DEF Inv, TypeOK
    <2>. QED
      BY <1>1, <2>1
  <1>3. conn' \in {"open", "shut", "reset", "closed"}
    BY <1>1 DEF Inv, TypeOK
  <1>4. EventsRight'
    <2>1. CASE pc' = "left"
      BY <1>1, <2>1 DEF EventsRight, Ending
    <2>2. CASE pc' # "left"
      <3>1. pc' = "answered" /\ ~success' /\ conn' = conn /\ pc # "left"
        BY <1>1, <2>2 DEF Sending
      <3>. QED
        BY <3>1 DEF Inv, EventsRight, Ending
    <2>. QED
      BY <2>1, <2>2
  <1>5. pc' = "left" \/ (pc' = "answered" /\ conn' = conn /\ pc \in Sending /\ ~success')
    BY <1>1
  <1>. QED
    BY <1>2, <1>3, <1>4, <1>5, MoveKeeps

LEMMA WaitStopsKeeps ==
  ASSUME Inv, NEW io \in {"recv", "send"}, WaitStops(io)
  PROVE  Inv'
  <1>1. /\ pc = Waiting(io) /\ WaitFails(io)
        /\ UNCHANGED <<stop_event, wire, inbox, asked, drained, out, history>>
        /\ UNCHANGED <<part, bufferVars, total, fd>>
    BY DEF WaitStops, Thread
  <1>2. conn = "open" => fd'.CLOSE \in {"armed", "never"}
    BY <1>1 DEF Inv, EventsRight
  <1>. QED
    BY <1>1, <1>2, Types, WaitFailsKeeps

LEMMA WaitAbortsKeeps ==
  ASSUME Inv, NEW io \in {"recv", "send"}, WaitAborts(io)
  PROVE  Inv'
  <1>1. /\ pc \in {Waiting(io), Enum(io)} /\ WaitFails(io)
        /\ UNCHANGED <<stop_event, wire, inbox, asked, drained, out, history>>
        /\ UNCHANGED <<part, bufferVars, total, fd>>
    BY DEF WaitAborts, Thread
  <1>2. conn = "open" => fd'.CLOSE \in {"armed", "never"}
    BY <1>1 DEF Inv, EventsRight
  <1>. QED
    BY <1>1, <1>2, Types, WaitFailsKeeps

LEMMA WaitWakesKeeps ==
  ASSUME Inv, NEW io \in {"recv", "send"}, WaitWakes(io)
  PROVE  Inv'
  <1>1. /\ pc = Waiting(io) /\ pc' = Enum(io)
        /\ UNCHANGED <<stop_event, wire, inbox, asked, drained, out, history>>
        /\ UNCHANGED <<part, bufferVars, total, fd, conn>>
    BY DEF WaitWakes, Thread
  <1>2. success' \in BOOLEAN
    BY DEF WaitWakes, Inv, TypeOK
  <1>3. \/ pc = "recv_wait" /\ pc' = "recv_enum"
        \/ pc = "send_wait" /\ pc' = "send_enum"
    BY <1>1 DEF Waiting, Enum
  <1>4. EventsRight' /\ conn' \in {"open", "shut", "reset", "closed"}
    BY <1>1, <1>3 DEF Inv, TypeOK, EventsRight, Shows, Ending
  <1>. QED
    BY <1>1, <1>2, <1>3, <1>4, Types, MoveKeeps DEF Reading, Sending

\* The close event is consumed only by a wait that fails for it.
LEMMA WaitEnumeratesKeeps ==
  ASSUME Inv, NEW io \in {"recv", "send"}, WaitEnumerates(io)
  PROVE  Inv'
  <1>1. /\ pc = Enum(io) /\ fd' = Enumerated
        /\ IF fd.CLOSE = "recorded" THEN WaitFails(io)
           ELSE pc' = io /\ UNCHANGED <<success, conn>>
        /\ UNCHANGED <<stop_event, wire, inbox, asked, drained, out, history>>
        /\ UNCHANGED <<part, bufferVars, total>>
    BY DEF WaitEnumerates, Thread
  <1>2. /\ fd' \in [{"READ", "WRITE", "CLOSE"} -> {"armed", "recorded", "posted", "never"}]
        /\ fd.CLOSE \in {"armed", "never"} => fd'.CLOSE = fd.CLOSE
    BY <1>1, Types DEF Enumerated
  <1>3. conn = "open" => fd'.CLOSE \in {"armed", "never"}
    BY <1>2 DEF Inv, EventsRight
  <1>4. CASE fd.CLOSE = "recorded"
    BY <1>1, <1>2, <1>3, <1>4, WaitFailsKeeps
  <1>5. CASE fd.CLOSE # "recorded"
    <2>1. success' \in BOOLEAN
      BY <1>1, <1>5 DEF Inv, TypeOK
    <2>2. \/ pc = "recv_enum" /\ pc' = "recv"
          \/ pc = "send_enum" /\ pc' = "send"
      BY <1>1, <1>5 DEF Enum
    <2>3. conn' = conn /\ conn' \in {"open", "shut", "reset", "closed"}
      BY <1>1, <1>5 DEF Inv, TypeOK
    <2>4. EventsRight'
      BY <1>1, <1>2, <1>3, <1>5, <2>2, <2>3 DEF Inv, EventsRight, Shows, Ending
    <2>. QED
      BY <1>1, <1>2, <2>1, <2>2, <2>3, <2>4, MoveKeeps DEF Reading, Sending
  <1>. QED
    BY <1>4, <1>5

-----------------------------------------------------------------------------
(* Steps of the thread that change buffers or counters.                       *)

\* The connection's state and the events that matter while the thread runs.
LEMMA Running ==
  ASSUME Inv, UNCHANGED <<conn, inbox>>, fd'.CLOSE = fd.CLOSE, pc # "left", pc' # "left",
         pc' \notin {"recv_wait", "send_wait", "answered"}, ~(pc = "answered" /\ ~success)
  PROVE  EventsRight'
  BY DEF Inv, EventsRight, Shows, Ending

\* The length found in the header is that of the request that is read.
LEMMA ReadHeaderKeeps ==
  ASSUME Inv, ReadHeader
  PROVE  Inv'
  <1>1. /\ pc = "recv" /\ part = "header" /\ total = HeaderSize
        /\ UNCHANGED <<stop_event, wire, inbox, asked, drained, out, history>>
        /\ UNCHANGED <<header, response, success, fd>>
    BY DEF ReadHeader, Thread
  <1>2. RequestHeld /\ Got = HeaderSize
    BY <1>1 DEF Inv, Reading, Got
  <1>3. answered + 1 \in 1 .. Len(asked) /\ header[HeaderSize] = <<"ask", answered + 1, HeaderSize>>
    <2>1. HeaderSize \in Nat /\ HeaderSize > 0 /\ answered \in Nat /\ Len(asked) \in Nat
      BY Types
    <2>2. answered < Len(asked)
      BY <1>2, <2>1 DEF RequestHeld
    <2>3. HeaderSize \in 1 .. HeaderSize /\ HeaderSize <= Got
      BY <1>2, <2>1
    <2>4. header[HeaderSize] = <<"ask", answered + 1, HeaderSize>>
      BY <1>2, <2>3 DEF RequestHeld
    <2>. QED
      BY <2>1, <2>2, <2>4
  <1>4. PICK n \in Nat : n = asked[answered + 1]
    BY <1>3, Types
  <1>5. LengthOf(header) = n
    BY <1>3, <1>4 DEF LengthOf
  <1>6. success' \in BOOLEAN /\ stop_event' \in BOOLEAN
    BY <1>1 DEF Inv, TypeOK
  <1>7. CASE n > MaxLength
    <2>1. /\ pc' = "left" /\ conn' \in {"closed", "reset"}
          /\ UNCHANGED <<part, message_body, total>>
      BY <1>5, <1>7 DEF ReadHeader, Leave
    <2>2. UNCHANGED <<part, bufferVars, total>>
      BY <1>1, <2>1 DEF bufferVars
    <2>3. EventsRight'
      BY <2>1 DEF EventsRight, Ending
    <2>. QED
      BY <1>1, <1>6, <2>1, <2>2, <2>3, Types, MoveKeeps
  <1>8. CASE ~(n > MaxLength)
    <2>1. /\ message_body' = Resize(message_body, n)
          /\ part' = "body" /\ total' = 0 /\ pc' = "recv" /\ conn' = conn
      BY <1>1, <1>5, <1>8 DEF ReadHeader, Restart
    <2>2. message_body' \in Seq(Units \cup {Zero}) /\ Len(message_body') = n
      <3>1. \A i \in DOMAIN message_body : message_body[i] \in Units \cup {Zero}
        BY ElementOfSeq, LenProperties DEF Inv, TypeOK
      <3>. QED
        BY <2>1, <3>1 DEF Resize
    <2>3. Got' = Got
      BY <1>2, <2>1, Types DEF Got, Reading
    <2>4. StreamRight'
      BY <1>1, <2>1, <2>3 DEF Inv, StreamRight, Ahead, history
    <2>5. RequestHeld'
      <3>1. n <= MaxLength
        BY <1>8, Types
      <3>2. answered' = answered /\ asked' = asked /\ header' = header
        BY <1>1 DEF history
      <3>. QED
        BY <1>2, <1>4, <2>1, <2>2, <2>3, <3>1, <3>2 DEF RequestHeld
    <2>6. SentRight'
      BY <1>1, <2>1 DEF Inv, SentRight, Reading, history
    <2>7. EventsRight'
      BY <1>1, <2>1, Running
    <2>8. /\ pc' \in Reading \cup Writing \cup {"left"} /\ part' \in {"header", "body"}
          /\ header' \in [1 .. HeaderSize -> Units \cup {Zero}] /\ response' \in Seq(Units)
          /\ fd' \in [{"READ", "WRITE", "CLOSE"} -> {"armed", "recorded", "posted", "never"}]
          /\ wire' \in Seq(Units) /\ inbox' \in Seq(Units) /\ out' \in Seq(Units)
          /\ drained' \in 0 .. Len(out') /\ conn' \in {"open", "shut", "reset", "closed"}
          /\ asked' \in Seq(Nat) /\ answered' \in 0 .. Len(asked') /\ promised' \in Seq(Units)
      BY <1>1, <2>1 DEF Inv, TypeOK, Reading, history
    <2>9. total' \in Nat /\ (pc \in {"recv", "send"} => total <= Len(Buffer))'
      BY <2>1, <2>2 DEF Buffer
    <2>10. TypeOK'
      BY <1>6, <2>2, <2>8, <2>9 DEF TypeOK
    <2>. QED
      BY <1>1, <2>1, <2>4, <2>5, <2>6, <2>7, <2>10, Types DEF Inv, Sending, Reading
  <1>. QED
    BY <1>7, <1>8

\* The answer goes behind what was promised, and the next request is due.
LEMMA AnswerKeeps ==
  ASSUME Inv, NEW n \in AnswerLengths, Answer(n)
  PROVE  Inv'
  <1>1. PICK K \in Nat : K = answered + 1
    BY Types
  <1>2. PICK m : m = Message("answer", K, n)
    OBVIOUS
  <1>3. /\ pc = "handler" /\ pc' = "send" /\ part' = "header" /\ total' = 0
        /\ header' = HeaderOf(m) /\ response' = BodyOf(m) /\ promised' = promised \o m
        /\ answered' = K
        /\ UNCHANGED <<stop_event, wire, inbox, asked, drained, out>>
        /\ UNCHANGED <<message_body, success, fd, conn>>
    BY <1>1, <1>2 DEF Answer, Thread, Restart
  <1>4. RequestHeld /\ part = "body" /\ total = Len(message_body) /\ Got = HeaderSize + total
    BY <1>3 DEF Inv, Reading, RequestHeld, Got
  <1>5. /\ K \in 1 .. Len(asked) /\ K \in 1 .. MaxRequests /\ n \in Nat /\ Got > 0
        /\ Got = HeaderSize + asked[answered + 1]
    <2>1. /\ HeaderSize \in Nat /\ HeaderSize > 0 /\ total \in Nat /\ answered \in Nat
          /\ Len(asked) \in Nat /\ Len(asked) <= MaxRequests /\ MaxRequests \in Nat
      BY Types
    <2>2. Got > 0
      BY <1>4, <2>1
    <2>3. Got > 0 /\ Got = HeaderSize + asked[answered + 1]
      BY <1>4, <2>2 DEF RequestHeld
    <2>4. answered < Len(asked)
      BY <1>4, <2>3 DEF RequestHeld
    <2>5. n \in Nat
      BY Bounds
    <2>. QED
      BY <1>1, <2>1, <2>3, <2>4, <2>5
  <1>6. /\ m \in Seq(Units) /\ Len(m) = HeaderSize + n
        /\ \A i \in 1 .. HeaderSize + n : m[i] = <<"answer", K, i>>
        /\ header' \in [1 .. HeaderSize -> Units]
        /\ \A i \in 1 .. HeaderSize : header'[i] = <<"answer", K, i>>
        /\ response' \in Seq(Units) /\ Len(response') = n
        /\ \A i \in 1 .. n : response'[i] = <<"answer", K, HeaderSize + i>>
    BY <1>2, <1>3, <1>5, MessageParts
  <1>7. /\ promised' \in Seq(Units) /\ Len(promised') = Len(promised) + (HeaderSize + n)
        /\ \A i \in 1 .. Len(promised) : promised'[i] = promised[i]
        /\ \A i \in 1 .. HeaderSize + n : promised'[Len(promised) + i] = <<"answer", K, i>>
    <2>1. /\ promised' \in Seq(Units) /\ Len(promised') = Len(promised) + Len(m)
          /\ \A i \in 1 .. Len(promised) : promised'[i] = promised[i]
          /\ \A i \in 1 .. Len(m) : promised'[Len(promised) + i] = m[i]
      <3>1. promised \in Seq(Units) /\ m \in Seq(Units)
        BY <1>6, Types
      <3>. QED
        BY <1>3, <3>1, Joined
    <2>. QED
      BY <1>6, <2>1
  <1>8. StreamRight'
    <2>1. Due(asked, answered, Got) = <<"ask", answered + 2, 1>>
      BY <1>5 DEF Due
    <2>2. Got' = 0
      BY <1>3 DEF Got, Reading
    <2>3. Due(asked', answered', Got') = <<"ask", K + 1, 0 + 1>>
      BY <1>3, <2>2 DEF Due
    <2>4. K + 1 = answered + 2 /\ 0 + 1 = 1
      BY <1>1, Types
    <2>5. Due(asked', answered', Got') = Due(asked, answered, Got)
      BY <2>1, <2>3, <2>4
    <2>. QED
      BY <1>3, <2>5 DEF Inv, StreamRight, Ahead
  <1>9. Len(out) = Len(promised)
    BY <1>3 DEF Inv, SentRight, Reading
  <1>10. AnswerHeld'
    <2>1. Len(promised) \in Nat /\ HeaderSize \in Nat /\ n \in Nat
      BY <1>5, Types
    <2>2. AnswerStart' = Len(promised)
      <3>1. AnswerStart' = Len(promised) + (HeaderSize + n) - (HeaderSize + n)
        BY <1>6, <1>7 DEF AnswerStart
      <3>. QED
        BY <2>1, <3>1
    <2>3. ASSUME NEW i \in 1 .. HeaderSize PROVE promised'[Len(promised) + i] = header'[i]
      <3>1. i \in 1 .. HeaderSize + n
        BY <2>1
      <3>. QED
        BY <1>6, <1>7, <3>1
    <2>4. ASSUME NEW i \in 1 .. n PROVE promised'[Len(promised) + HeaderSize + i] = response'[i]
      <3>1. /\ HeaderSize + i \in 1 .. HeaderSize + n
            /\ Len(promised) + HeaderSize + i = Len(promised) + (HeaderSize + i)
        BY <2>1
      <3>. QED
        BY <1>6, <1>7, <3>1
    <2>5. total' <= HeaderSize /\ Len(out') = Len(promised) + total'
      BY <1>3, <1>9, <2>1
    <2>. QED
      BY <1>3, <1>6, <2>1, <2>2, <2>3, <2>4, <2>5 DEF AnswerHeld
  <1>11. SentRight'
    BY <1>3, <1>5, <1>7, <1>9, Types DEF Inv, SentRight, Reading
  <1>12. EventsRight'
    BY <1>3, Running
  <1>13. success' \in BOOLEAN /\ stop_event' \in BOOLEAN
    BY <1>3 DEF Inv, TypeOK
  <1>14. /\ pc' \in Reading \cup Writing \cup {"left"} /\ part' \in {"header", "body"}
         /\ header' \in [1 .. HeaderSize -> Units \cup {Zero}]
         /\ total' \in Nat /\ (pc' \in {"recv", "send"} => total' <= Len(Buffer'))
    <2>1. header' \in [1 .. HeaderSize -> Units \cup {Zero}]
      BY <1>6
    <2>2. Len(header') = HeaderSize /\ Buffer' = header'
      BY <1>3, <2>1, Types, LenProperties DEF Buffer
    <2>. QED
      BY <1>3, <2>1, <2>2, Types DEF Writing
  <1>15. /\ message_body' \in Seq(Units \cup {Zero})
         /\ fd' \in [{"READ", "WRITE", "CLOSE"} -> {"armed", "recorded", "posted", "never"}]
         /\ wire' \in Seq(Units) /\ inbox' \in Seq(Units) /\ out' \in Seq(Units)
         /\ drained' \in 0 .. Len(out') /\ conn' \in {"open", "shut", "reset", "closed"}
         /\ asked' \in Seq(Nat)
    BY <1>3 DEF Inv, TypeOK
  <1>16. answered' \in 0 .. Len(asked')
    BY <1>3, <1>5, Types
  <1>17. TypeOK'
    BY <1>6, <1>7, <1>13, <1>14, <1>15, <1>16 DEF TypeOK
  <1>. QED
    BY <1>3, <1>8, <1>10, <1>11, <1>12, <1>17, Types DEF Inv, Sending, Reading

\* Between the two writes of an answer.
LEMMA SentHeaderKeeps ==
  ASSUME Inv, SentHeader
  PROVE  Inv'
  <1>1. /\ pc = "send" /\ pc' = "send" /\ part = "header" /\ total = HeaderSize
        /\ part' = "body" /\ total' = 0
        /\ UNCHANGED <<stop_event, wire, inbox, asked, drained, out, answered, promised>>
        /\ UNCHANGED <<header, message_body, response, success, fd, conn>>
    BY DEF SentHeader, Thread, Restart, bufferVars, history
  <1>2. AnswerHeld'
    <2>1. AnswerHeld
      BY <1>1 DEF Inv, Sending
    <2>2. Len(response) \in Nat
      BY LenProperties DEF Inv, TypeOK
    <2>. QED
      BY <1>1, <2>1, <2>2, Types DEF AnswerHeld, AnswerStart
  <1>3. StreamRight' /\ SentRight'
    BY <1>1 DEF Inv, StreamRight, SentRight, Ahead, Got, Reading
  <1>4. EventsRight'
    BY <1>1, Running
  <1>5. success' \in BOOLEAN /\ stop_event' \in BOOLEAN
    BY <1>1 DEF Inv, TypeOK
  <1>6. TypeOK'
    <2>1. total' \in Nat /\ total' <= Len(Buffer')
      <3>1. Buffer' = response /\ Len(response) \in Nat
        BY <1>1, LenProperties DEF Inv, TypeOK, Buffer
      <3>. QED
        BY <1>1, <3>1
    <2>. QED
      BY <1>1, <1>5, <2>1 DEF Inv, TypeOK
  <1>. QED
    BY <1>1, <1>2, <1>3, <1>4, <1>6, Types DEF Inv, Sending, Reading

\* The loop goes on only behind an answer that was sent whole.
LEMMA LoopKeeps ==
  ASSUME Inv, Loop
  PROVE  Inv'
  <1>1. /\ pc = "answered"
        /\ UNCHANGED <<stop_event, wire, inbox, asked, drained, out, history>>
        /\ UNCHANGED <<bufferVars, success, fd>>
    BY DEF Loop, Thread
  <1>2. success' \in BOOLEAN /\ stop_event' \in BOOLEAN
    BY <1>1 DEF Inv, TypeOK
  <1>3. CASE ~success
    <2>1. pc' = "left" /\ conn' \in {"closed", "reset"} /\ UNCHANGED <<part, total>>
      BY <1>3 DEF Loop, Succeeded, Leave
    <2>2. EventsRight'
      BY <2>1 DEF EventsRight, Ending
    <2>. QED
      BY <1>1, <1>2, <2>1, <2>2, Types, MoveKeeps
  <1>4. CASE success
    <2>1. pc' = "recv" /\ part' = "header" /\ total' = 0 /\ conn' = conn
      BY <1>4 DEF Loop, Succeeded, Restart
    <2>2. UNCHANGED <<header, message_body, response, answered, promised>>
      BY <1>1 DEF bufferVars, history
    <2>3. Got = 0 /\ Got' = 0
      BY <1>1, <2>1 DEF Got, Reading
    <2>4. StreamRight'
      BY <1>1, <2>1, <2>2, <2>3 DEF Inv, StreamRight, Ahead
    <2>5. RequestHeld'
      BY <2>1, <2>3, Types DEF RequestHeld
    <2>6. SentRight'
      BY <1>1, <1>4, <2>1, <2>2 DEF Inv, SentRight
    <2>7. EventsRight'
      BY <1>1, <1>4, <2>1, Running
    <2>8. TypeOK'
      <3>1. Len(header) = HeaderSize
        BY Types, LenProperties DEF Inv, TypeOK
      <3>2. total' \in Nat /\ total' <= Len(Buffer')
        BY <2>1, <2>2, <3>1, Types DEF Buffer
      <3>. QED
        BY <1>1, <1>2, <2>1, <2>2, <3>2 DEF Inv, TypeOK, Reading
    <2>. QED
      BY <1>1, <2>1, <2>4, <2>5, <2>6, <2>7, <2>8, Types DEF Inv, Sending, Reading
  <1>. QED
    BY <1>3, <1>4

\* What recv hands out is the rest of the request, or a part of it.
LEMMA ReceiveKeeps ==
  ASSUME Inv, Receive
  PROVE  Inv'
  <1>1. /\ pc = "recv" /\ pc' = "recv" /\ fd' = AfterRecv(inbox')
        /\ UNCHANGED <<stop_event, wire, asked, drained, part, response, success, conn, out>>
        /\ UNCHANGED <<answered, promised>>
    BY DEF Receive, Thread, history
  <1>2. PICK n \in 1 .. (Len(Buffer) - total) :
          /\ n <= Len(inbox)
          /\ IF part = "header"
             THEN header' = Put(header, SubSeq(inbox, 1, n)) /\ UNCHANGED message_body
             ELSE message_body' = Put(message_body, SubSeq(inbox, 1, n)) /\ UNCHANGED header
          /\ inbox' = SubSeq(inbox, n + 1, Len(inbox))
          /\ total' = total + n
    BY DEF Receive
  <1>3. /\ HeaderSize \in Nat /\ HeaderSize > 0 /\ total \in Nat /\ answered \in Nat
        /\ Len(asked) \in Nat /\ Len(inbox) \in Nat /\ Len(header) = HeaderSize
        /\ Len(message_body) \in Nat /\ part \in {"header", "body"}
    <2>1. Len(header) = HeaderSize /\ Len(message_body) \in Nat /\ part \in {"header", "body"}
      BY Types, LenProperties DEF Inv, TypeOK
    <2>. QED
      BY <2>1, Types
  <1>4. n \in Nat /\ n > 0 /\ n <= Len(Buffer) - total /\ n <= Len(inbox)
    BY <1>1, <1>2, <1>3 DEF Buffer
  <1>5. RequestHeld
    BY <1>1 DEF Inv, Reading
  <1>6. /\ part = "header" => Got = total /\ Got' = total + n /\ total + n <= HeaderSize
        /\ part = "body" => /\ Got = HeaderSize + total /\ Got' = HeaderSize + (total + n)
                            /\ total + n <= Len(message_body)
    <2>1. CASE part = "header"
      BY <1>1, <1>2, <1>3, <1>4, <2>1 DEF Got, Reading, Buffer
    <2>2. CASE part = "body"
      BY <1>1, <1>2, <1>3, <1>4, <2>2 DEF Got, Reading, Buffer
    <2>. QED
      BY <1>3, <2>1, <2>2
  <1>7. Got \in Nat /\ Got' = Got + n
    BY <1>3, <1>4, <1>6
  <1>8. PICK units : units = SubSeq(inbox, 1, n)
    OBVIOUS
  <1>9. /\ units \in Seq(Units) /\ Len(units) = n /\ DOMAIN units = 1 .. n
        /\ \A d \in 1 .. n : units[d] = inbox[d]
    <2>1. inbox \in Seq(Units) /\ \A d \in 1 .. n : inbox[d] \in Units
      <3>1. inbox \in Seq(Units)
        BY Types
      <3>2. \A d \in 1 .. Len(inbox) : inbox[d] \in Units
        BY <3>1, ElementOfSeq
      <3>. QED
        BY <1>3, <1>4, <3>1, <3>2
    <2>2. /\ units \in Seq(Units) /\ Len(units) = n
          /\ \A d \in 1 .. n : units[d] = inbox[d]
      BY <1>3, <1>4, <1>8, <2>1, SubSeqProperties
    <2>. QED
      BY <2>2, LenProperties
  <1>10. /\ inbox' \in Seq(Units) /\ Ahead' = SubSeq(Ahead, n + 1, Len(Ahead))
         /\ n \in 1 .. Len(Ahead) /\ Ahead # <<>>
         /\ \A d \in 1 .. n : Ahead[d] = units[d]
    <2>1. inbox \in Seq(Units) /\ wire \in Seq(Units) /\ n \in 0 .. Len(inbox)
      BY <1>3, <1>4, Types
    <2>2. /\ Ahead \in Seq(Units) /\ Len(Ahead) = Len(inbox) + Len(wire)
          /\ Len(wire) \in Nat
          /\ \A i \in 1 .. Len(inbox) : Ahead[i] = inbox[i]
          /\ \A i \in 1 .. Len(wire) : Ahead[Len(inbox) + i] = wire[i]
      BY <2>1, Joined DEF Ahead
    <2>3. PICK rest : rest = inbox'
      OBVIOUS
    <2>4. /\ rest \in Seq(Units) /\ Len(rest) = Len(inbox) - n
          /\ \A i \in 1 .. Len(inbox) - n : rest[i] = inbox[n + i]
      BY <1>2, <2>1, <2>3, Suffix
    <2>5. PICK t : t = rest \o wire
      OBVIOUS
    <2>6. /\ t \in Seq(Units) /\ Len(t) = Len(rest) + Len(wire)
          /\ \A i \in 1 .. Len(rest) : t[i] = rest[i]
          /\ \A i \in 1 .. Len(wire) : t[Len(rest) + i] = wire[i]
      <3>1. rest \in Seq(Units) /\ wire \in Seq(Units)
        BY <2>1, <2>4
      <3>. QED
        BY <2>5, <3>1, Joined
    <2>7. PICK u : u = SubSeq(Ahead, n + 1, Len(Ahead))
      OBVIOUS
    <2>8. n \in 0 .. Len(Ahead) /\ n \in 1 .. Len(Ahead) /\ Len(Ahead) \in Nat
      BY <1>3, <1>4, <2>2
    <2>9. /\ u \in Seq(Units) /\ Len(u) = Len(Ahead) - n
          /\ \A i \in 1 .. Len(Ahead) - n : u[i] = Ahead[n + i]
      BY <2>2, <2>7, <2>8, Suffix
    <2>10. Len(t) = Len(u)
      BY <1>3, <1>4, <2>2, <2>4, <2>6, <2>9
    <2>11. ASSUME NEW i \in 1 .. Len(t) PROVE t[i] = u[i]
      <3>1. u[i] = Ahead[n + i]
        BY <2>9, <2>10
      <3>2. Len(t) = (Len(inbox) - n) + Len(wire)
        BY <2>4, <2>6
      <3>3. CASE i <= Len(inbox) - n
        <4>1. i \in 1 .. Len(inbox) - n /\ n + i \in 1 .. Len(inbox)
          BY <1>3, <1>4, <3>3
        <4>. QED
          BY <2>2, <2>4, <2>6, <3>1, <4>1
      <3>4. CASE i > Len(inbox) - n
        <4>1. PICK j \in 1 .. Len(wire) : i = (Len(inbox) - n) + j
          <5>1. i - (Len(inbox) - n) \in 1 .. Len(wire)
            BY <1>3, <1>4, <2>2, <3>2, <3>4
          <5>2. i = (Len(inbox) - n) + (i - (Len(inbox) - n))
            BY <1>3, <1>4
          <5>. QED
            BY <5>1, <5>2
        <4>2. n + i = Len(inbox) + j
          BY <1>3, <1>4, <4>1
        <4>3. t[i] = wire[j]
          BY <2>4, <2>6, <4>1
        <4>. QED
          BY <2>2, <3>1, <4>2, <4>3
      <3>. QED
        BY <1>3, <1>4, <3>3, <3>4
    <2>12. t = u
      BY <2>6, <2>9, <2>10, <2>11, SeqEqual
    <2>13. Ahead' = t
      BY <1>1, <2>3, <2>5 DEF Ahead
    <2>14. \A d \in 1 .. n : Ahead[d] = units[d]
      <3>1. \A d \in 1 .. n : d \in 1 .. Len(inbox)
        BY <1>3, <1>4
      <3>. QED
        BY <1>9, <2>2, <3>1
    <2>15. Ahead # <<>>
      BY <2>8
    <2>. QED
      BY <2>3, <2>4, <2>7, <2>8, <2>12, <2>13, <2>14, <2>15
  <1>11. /\ conn # "reset" /\ answered < Len(asked)
         /\ \A d \in 1 .. n : units[d] = <<"ask", answered + 1, Got + d>>
         /\ Stream(Ahead', asked) /\ GoesOn(Ahead', asked, Due(asked, answered, Got + n))
    <2>1. /\ conn # "reset" /\ Stream(Ahead, asked)
          /\ GoesOn(Ahead, asked, Due(asked, answered, Got))
      BY <1>1, <1>10 DEF Inv, StreamRight
    <2>2. Got > 0 => answered < Len(asked)
      BY <1>5 DEF RequestHeld
    <2>3. answered < Len(asked) => Got + n <= HeaderSize + asked[answered + 1]
      <3>1. SUFFICES ASSUME answered < Len(asked)
                     PROVE  Got + n <= HeaderSize + asked[answered + 1]
        OBVIOUS
      <3>2. answered + 1 \in 1 .. Len(asked)
        BY <1>3, <3>1
      <3>3. PICK l \in Nat : l = asked[answered + 1]
        BY <3>2, Types
      <3>4. Got + n <= HeaderSize + l
        <4>1. CASE part = "header"
          BY <1>3, <1>4, <1>6, <4>1
        <4>2. CASE part = "body"
          <5>1. Len(message_body) = l
            BY <1>5, <3>3, <4>2 DEF RequestHeld
          <5>. QED
            BY <1>3, <1>4, <1>6, <4>2, <5>1
        <4>. QED
          BY <1>3, <4>1, <4>2
      <3>. QED
        BY <3>3, <3>4
    <2>4. Ahead \in Seq(Units) /\ asked \in Seq(Nat) /\ answered \in Nat
      BY Types
    <2>5. /\ answered < Len(asked)
          /\ \A d \in 1 .. n : Ahead[d] = <<"ask", answered + 1, Got + d>>
          /\ Stream(Ahead', asked) /\ GoesOn(Ahead', asked, Due(asked, answered, Got + n))
      BY <1>7, <1>10, <2>1, <2>2, <2>3, <2>4, StreamTaken
    <2>. QED
      BY <1>10, <2>1, <2>5
  <1>12. StreamRight'
    BY <1>1, <1>7, <1>11 DEF StreamRight
  <1>13. ASSUME NEW buffer, NEW i \in DOMAIN buffer, NEW size \in Nat, DOMAIN buffer = 1 .. size,
                total + n <= size
         PROVE  /\ i <= total => Put(buffer, units)[i] = buffer[i]
                /\ i > total /\ i <= total + n =>
                     Put(buffer, units)[i] = <<"ask", answered + 1, Got + (i - total)>>
                /\ Put(buffer, units)[i] = buffer[i] \/ Put(buffer, units)[i] \in Units
    <2>1. i \in Nat
      BY <1>13
    <2>2. Put(buffer, units)[i] =
            IF i - total \in 1 .. n THEN units[i - total] ELSE buffer[i]
      BY <1>9, <1>13 DEF Put
    <2>3. i <= total => i - total \notin 1 .. n
      BY <1>3, <1>4, <2>1
    <2>4. i > total /\ i <= total + n => i - total \in 1 .. n
      BY <1>3, <1>4, <2>1
    <2>5. i - total \in 1 .. n => units[i - total] \in Units
      BY <1>9, ElementOfSeq
    <2>. QED
      BY <1>11, <2>2, <2>3, <2>4, <2>5
  <1>14. DOMAIN header = 1 .. HeaderSize /\ DOMAIN message_body = 1 .. Len(message_body)
    BY LenProperties DEF Inv, TypeOK
  <1>15. /\ header' \in [1 .. HeaderSize -> Units \cup {Zero}]
         /\ message_body' \in Seq(Units \cup {Zero})
         /\ total' \in Nat /\ total' <= Len(Buffer') /\ RequestHeld'
    <2>1. CASE part = "header"
      <3>1. header' = Put(header, units) /\ message_body' = message_body /\ total' = total + n
        BY <1>2, <1>8, <2>1
      <3>2. header' \in [1 .. HeaderSize -> Units \cup {Zero}]
        <4>1. \A i \in 1 .. HeaderSize : header[i] \in Units \cup {Zero}
          BY DEF Inv, TypeOK
        <4>2. ASSUME NEW i \in 1 .. HeaderSize PROVE header'[i] \in Units \cup {Zero}
          BY <1>3, <1>6, <1>13, <1>14, <2>1, <3>1, <4>1
        <4>3. header' = [i \in 1 .. HeaderSize |-> header'[i]]
          BY <1>14, <3>1 DEF Put
        <4>. QED
          BY <4>2, <4>3
      <3>3. ASSUME NEW i \in 1 .. HeaderSize, i <= Got' PROVE header'[i] = <<"ask", answered + 1, i>>
        <4>1. CASE i <= total
          <5>1. header[i] = <<"ask", answered + 1, i>>
            BY <1>5, <1>6, <2>1, <4>1 DEF RequestHeld
          <5>2. header'[i] = header[i]
            BY <1>3, <1>6, <1>13, <1>14, <2>1, <3>1, <4>1
          <5>. QED
            BY <5>1, <5>2
        <4>2. CASE i > total
          <5>1. i <= total + n
            BY <1>6, <2>1, <3>3
          <5>2. header'[i] = <<"ask", answered + 1, Got + (i - total)>>
            BY <1>3, <1>6, <1>13, <1>14, <2>1, <3>1, <4>2, <5>1
          <5>3. Got + (i - total) = i
            BY <1>3, <1>6, <2>1
          <5>. QED
            BY <5>2, <5>3
        <4>. QED
          BY <1>3, <4>1, <4>2
      <3>4. RequestHeld'
        BY <1>1, <1>6, <1>11, <2>1, <3>1, <3>3 DEF RequestHeld
      <3>5. total' \in Nat /\ total' <= Len(Buffer')
        <4>1. Len(header') = HeaderSize
          BY <1>3, <3>2, LenProperties
        <4>. QED
          BY <1>1, <1>3, <1>4, <1>6, <2>1, <3>1, <4>1 DEF Buffer
      <3>6. message_body' \in Seq(Units \cup {Zero})
        BY <3>1 DEF Inv, TypeOK
      <3>. QED
        BY <3>2, <3>4, <3>5, <3>6
    <2>2. CASE part = "body"
      <3>1. header' = header /\ message_body' = Put(message_body, units) /\ total' = total + n
        BY <1>2, <1>8, <2>2
      <3>2. message_body' \in Seq(Units \cup {Zero}) /\ Len(message_body') = Len(message_body)
        <4>1. \A i \in 1 .. Len(message_body) : message_body[i] \in Units \cup {Zero}
          BY ElementOfSeq DEF Inv, TypeOK
        <4>2. ASSUME NEW i \in 1 .. Len(message_body) PROVE message_body'[i] \in Units \cup {Zero}
          BY <1>3, <1>6, <1>13, <1>14, <2>2, <3>1, <4>1
        <4>3. message_body' = [i \in 1 .. Len(message_body) |-> message_body'[i]]
          BY <1>14, <3>1 DEF Put
        <4>. QED
          BY <1>3, <4>2, <4>3
      <3>3. ASSUME NEW i \in 1 .. total'
            PROVE  message_body'[i] = <<"ask", answered + 1, HeaderSize + i>>
        <4>1. i \in 1 .. Len(message_body) /\ i <= total + n /\ i \in Nat
          BY <1>3, <1>4, <1>6, <2>2, <3>1
        <4>2. CASE i <= total
          <5>1. message_body[i] = <<"ask", answered + 1, HeaderSize + i>>
            BY <1>3, <1>5, <2>2, <4>2 DEF RequestHeld
          <5>2. message_body'[i] = message_body[i]
            BY <1>3, <1>6, <1>13, <1>14, <2>2, <3>1, <4>1, <4>2
          <5>. QED
            BY <5>1, <5>2
        <4>3. CASE i > total
          <5>1. message_body'[i] = <<"ask", answered + 1, Got + (i - total)>>
            BY <1>3, <1>6, <1>13, <1>14, <2>2, <3>1, <4>1, <4>3
          <5>2. Got + (i - total) = HeaderSize + i
            BY <1>3, <1>6, <2>2, <4>1
          <5>. QED
            BY <5>1, <5>2
        <4>. QED
          BY <1>3, <4>1, <4>2, <4>3
      <3>4. ASSUME NEW i \in 1 .. HeaderSize PROVE header'[i] = <<"ask", answered + 1, i>>
        <4>1. i <= Got
          BY <1>3, <1>6, <2>2
        <4>. QED
          BY <1>5, <3>1, <4>1 DEF RequestHeld
      <3>5. total' <= Len(message_body')
        BY <1>6, <2>2, <3>1, <3>2
      <3>6. RequestHeld'
        BY <1>1, <1>5, <1>11, <2>2, <3>2, <3>3, <3>4, <3>5 DEF RequestHeld
      <3>7. total' \in Nat /\ total' <= Len(Buffer')
        BY <1>1, <1>3, <1>4, <2>2, <3>1, <3>5 DEF Buffer
      <3>8. header' \in [1 .. HeaderSize -> Units \cup {Zero}]
        BY <3>1 DEF Inv, TypeOK
      <3>. QED
        BY <3>2, <3>6, <3>7, <3>8
    <2>. QED
      BY <1>3, <2>1, <2>2
  <1>16. SentRight'
    BY <1>1 DEF Inv, SentRight, Reading
  <1>17. /\ fd' \in [{"READ", "WRITE", "CLOSE"} -> {"armed", "recorded", "posted", "never"}]
         /\ conn = "open" => fd'.CLOSE = fd.CLOSE
         /\ fd'.CLOSE = fd.CLOSE \/ fd'.CLOSE = "recorded"
         /\ conn = "shut" /\ inbox' = <<>> /\ fd.CLOSE = "armed" => fd'.CLOSE = "recorded"
    BY <1>1, Types DEF AfterRecv, Record, Mask
  <1>18. EventsRight'
    <2>1. inbox # <<>>
      BY <1>3, <1>4
    <2>. QED
      BY <1>1, <1>17, <2>1 DEF Inv, EventsRight, Shows, Ending
  <1>19. success' \in BOOLEAN /\ stop_event' \in BOOLEAN
    BY <1>1 DEF Inv, TypeOK
  <1>20. /\ pc' \in Reading \cup Writing \cup {"left"} /\ part' \in {"header", "body"}
         /\ response' \in Seq(Units) /\ wire' \in Seq(Units) /\ out' \in Seq(Units)
         /\ drained' \in 0 .. Len(out') /\ conn' \in {"open", "shut", "reset", "closed"}
         /\ asked' \in Seq(Nat) /\ answered' \in 0 .. Len(asked') /\ promised' \in Seq(Units)
    BY <1>1 DEF Inv, TypeOK
  <1>21. TypeOK'
    BY <1>10, <1>15, <1>17, <1>19, <1>20 DEF TypeOK
  <1>. QED
    BY <1>1, <1>12, <1>15, <1>16, <1>18, <1>21, Types DEF Inv, Sending, Reading

\* What send takes is the rest of what was promised, or a part of it.
LEMMA SendKeeps ==
  ASSUME Inv, Send
  PROVE  Inv'
  <1>1. /\ pc = "send" /\ pc' = "send"
        /\ UNCHANGED <<stop_event, wire, inbox, asked, drained, part, success, fd, conn>>
        /\ UNCHANGED <<header, message_body, response, answered, promised>>
    BY DEF Send, Thread, bufferVars, history
  <1>2. PICK n \in 1 .. (Len(Buffer) - total) :
          /\ out' = out \o SubSeq(Buffer, total + 1, total + n)
          /\ total' = total + n
    BY DEF Send
  <1>3. PICK B : B = Buffer
    OBVIOUS
  <1>4. /\ HeaderSize \in Nat /\ HeaderSize > 0 /\ total \in Nat /\ Len(out) \in Nat
        /\ Len(promised) \in Nat /\ Len(header) = HeaderSize /\ Len(response) \in Nat
        /\ part \in {"header", "body"}
    <2>1. Len(header) = HeaderSize /\ Len(response) \in Nat /\ part \in {"header", "body"}
      BY Types, LenProperties DEF Inv, TypeOK
    <2>. QED
      BY <2>1, Types
  <1>5. AnswerHeld
    BY <1>1 DEF Inv, Sending
  \* Where the buffer lies in what was promised.
  <1>6. PICK base \in Nat :
          /\ Len(out) = base + total /\ Len(B) \in Nat /\ base + Len(B) <= Len(promised)
          /\ \A j \in 1 .. Len(B) : B[j] = promised[base + j]
          /\ base = IF part = "header" THEN AnswerStart ELSE AnswerStart + HeaderSize
    <2>1. CASE part = "header"
      <3>1. B = header /\ AnswerStart \in Nat /\ Len(out) = AnswerStart + total
        BY <1>3, <1>5, <2>1 DEF Buffer, AnswerHeld
      <3>2. AnswerStart + HeaderSize <= Len(promised)
        BY <1>4, <3>1 DEF AnswerStart
      <3>3. \A j \in 1 .. HeaderSize : header[j] = promised[AnswerStart + j]
        BY <1>5 DEF AnswerHeld
      <3>. QED
        BY <1>4, <2>1, <3>1, <3>2, <3>3
    <2>2. CASE part = "body"
      <3>1. /\ B = response /\ AnswerStart \in Nat
            /\ Len(out) = AnswerStart + (HeaderSize + total)
        BY <1>1, <1>3, <1>5, <2>2 DEF Buffer, AnswerHeld
      <3>2. AnswerStart + HeaderSize + Len(response) <= Len(promised)
        BY <1>4, <3>1 DEF AnswerStart
      <3>3. \A j \in 1 .. Len(response) : response[j] = promised[AnswerStart + HeaderSize + j]
        BY <1>5 DEF AnswerHeld
      <3>4. Len(out) = (AnswerStart + HeaderSize) + total /\ AnswerStart + HeaderSize \in Nat
        BY <1>4, <3>1
      <3>. QED
        BY <1>4, <2>2, <3>1, <3>2, <3>3, <3>4
    <2>. QED
      BY <1>4, <2>1, <2>2
  <1>7. n \in Nat /\ n > 0 /\ total + n <= Len(B)
    BY <1>2, <1>3, <1>4, <1>6
  <1>8. PICK units : units = SubSeq(B, total + 1, total + n)
    OBVIOUS
  <1>9. /\ units \in Seq(Units) /\ Len(units) = n
        /\ \A d \in 1 .. n : units[d] = promised[Len(out) + d]
    <2>1. ASSUME NEW j \in total + 1 .. total + n
          PROVE  B[j] \in Units /\ B[j] = promised[base + j]
      <3>1. j \in 1 .. Len(B) /\ base + j \in 1 .. Len(promised)
        BY <1>4, <1>6, <1>7
      <3>2. promised \in Seq(Units)
        BY Types
      <3>3. promised[base + j] \in Units
        BY <3>1, <3>2, ElementOfSeq
      <3>. QED
        BY <1>6, <3>1, <3>3
    <2>2. /\ units \in Seq(Units) /\ Len(units) = n
          /\ \A d \in 1 .. n : units[d] = B[total + d]
      <3>1. total + 1 \in Int /\ total + n \in Int /\ (total + n) - (total + 1) + 1 = n
        BY <1>4, <1>7
      <3>2. \A j \in total + 1 .. total + n : B[j] \in Units
        BY <2>1
      <3>3. /\ units \in Seq(Units)
            /\ Len(units) = IF total + 1 <= total + n THEN (total + n) - (total + 1) + 1 ELSE 0
            /\ \A d \in 1 .. (total + n) - (total + 1) + 1 : units[d] = B[(total + 1) + d - 1]
        BY <1>8, <3>1, <3>2, SubSeqProperties
      <3>4. \A d \in 1 .. n : (total + 1) + d - 1 = total + d
        BY <1>4, <1>7
      <3>. QED
        BY <1>4, <1>7, <3>1, <3>3, <3>4
    <2>3. ASSUME NEW d \in 1 .. n PROVE units[d] = promised[Len(out) + d]
      <3>1. total + d \in total + 1 .. total + n /\ base + (total + d) = Len(out) + d
        BY <1>4, <1>6, <1>7
      <3>. QED
        BY <2>1, <2>2, <3>1
    <2>. QED
      BY <2>2, <2>3
  <1>10. /\ out' \in Seq(Units) /\ Len(out') = Len(out) + n
         /\ \A i \in 1 .. Len(out) : out'[i] = out[i]
         /\ \A d \in 1 .. n : out'[Len(out) + d] = units[d]
    <2>1. out \in Seq(Units) /\ units \in Seq(Units) /\ out' = out \o units
      BY <1>2, <1>3, <1>8, <1>9, Types
    <2>2. /\ out' \in Seq(Units) /\ Len(out') = Len(out) + Len(units)
          /\ \A i \in 1 .. Len(out) : out'[i] = out[i]
          /\ \A d \in 1 .. Len(units) : out'[Len(out) + d] = units[d]
      BY <2>1, Joined
    <2>. QED
      BY <1>9, <2>2
  <1>11. SentRight'
    <2>1. Len(out') <= Len(promised)
      BY <1>4, <1>6, <1>7, <1>10
    <2>2. ASSUME NEW i \in 1 .. Len(out') PROVE out'[i] = promised[i]
      <3>1. CASE i <= Len(out)
        <4>1. i \in 1 .. Len(out)
          BY <1>4, <3>1
        <4>. QED
          BY <1>10, <4>1 DEF Inv, SentRight
      <3>2. CASE i > Len(out)
        <4>1. i - Len(out) \in 1 .. n /\ Len(out) + (i - Len(out)) = i
          BY <1>4, <1>7, <1>10, <3>2
        <4>. QED
          BY <1>9, <1>10, <4>1
      <3>. QED
        BY <1>4, <3>1, <3>2
    <2>. QED
      BY <1>1, <2>1, <2>2 DEF SentRight, Reading
  <1>12. AnswerHeld' /\ total' \in Nat /\ total' <= Len(Buffer')
    <2>1. AnswerStart' = AnswerStart /\ AnswerStart \in Nat /\ Buffer' = B
      BY <1>1, <1>3, <1>5 DEF AnswerStart, AnswerHeld, Buffer
    <2>2. total' \in Nat /\ total' <= Len(B)
      BY <1>2, <1>4, <1>7
    <2>3. Len(B) = IF part = "header" THEN HeaderSize ELSE Len(response)
      BY <1>1, <1>3, <1>4 DEF Buffer
    <2>4. Len(out') = AnswerStart + (IF part = "header" THEN total' ELSE HeaderSize + total')
      <3>1. Len(out') = base + total'
        <4>1. Len(out') = (base + total) + n /\ total' = total + n
          BY <1>2, <1>6, <1>10
        <4>2. (base + total) + n = base + (total + n)
          BY <1>4, <1>7
        <4>. QED
          BY <4>1, <4>2
      <3>2. CASE part = "header"
        BY <1>6, <3>1, <3>2
      <3>3. CASE part # "header"
        <4>1. base = AnswerStart + HeaderSize
          BY <1>6, <3>3
        <4>. QED
          BY <1>4, <2>1, <2>2, <3>1, <3>3, <4>1
      <3>. QED
        BY <3>2, <3>3
    <2>. QED
      BY <1>1, <1>5, <2>1, <2>2, <2>3, <2>4 DEF AnswerHeld
  <1>13. StreamRight'
    BY <1>1 DEF Inv, StreamRight, Ahead, Got, Reading
  <1>14. EventsRight'
    BY <1>1, Running
  <1>15. success' \in BOOLEAN /\ stop_event' \in BOOLEAN
    BY <1>1 DEF Inv, TypeOK
  <1>16. drained' \in 0 .. Len(out')
    <2>1. drained \in 0 .. Len(out)
      BY DEF Inv, TypeOK
    <2>. QED
      BY <1>1, <1>4, <1>7, <1>10, <2>1
  <1>17. TypeOK'
    BY <1>1, <1>10, <1>12, <1>15, <1>16 DEF Inv, TypeOK
  <1>. QED
    BY <1>1, <1>11, <1>12, <1>13, <1>14, <1>17, Types DEF Inv, Sending, Reading

-----------------------------------------------------------------------------
(* Every step, and what follows.                                              *)

LEMMA NextKeeps == Inv /\ [Next]_vars => Inv'
  <1>. SUFFICES ASSUME Inv, [Next]_vars PROVE Inv'
    OBVIOUS
  <1>1. CASE UNCHANGED vars
    <2>1. /\ UNCHANGED <<pc, part, header, message_body, response, total>>
          /\ UNCHANGED <<fd, wire, asked, conn, inbox, out, drained, answered, promised>>
          /\ UNCHANGED <<success, stop_event>>
      BY <1>1 DEF vars, threadVars, bufferVars, clientVars, history
    <2>2. success' \in BOOLEAN /\ stop_event' \in BOOLEAN
      BY <2>1 DEF Inv, TypeOK
    <2>3. TypeOK'
      BY <2>1, <2>2 DEF Inv, TypeOK, Buffer
    <2>4. /\ StreamRight' <=> StreamRight
          /\ RequestHeld' <=> RequestHeld
          /\ AnswerHeld' <=> AnswerHeld
      BY <2>1 DEF StreamRight, Ahead, Got, RequestHeld, AnswerHeld, AnswerStart
    <2>5. SentRight' /\ EventsRight'
      BY <2>1 DEF Inv, SentRight, EventsRight, Shows, Ending, Space
    <2>. QED
      BY <2>1, <2>3, <2>4, <2>5 DEF Inv
  <1>2. CASE ThreadStep
    <2>1. ASSUME NEW io \in {"recv", "send"},
                 WaitStops(io) \/ WaitWakes(io) \/ WaitEnumerates(io)
          PROVE  Inv'
      BY <2>1, WaitStopsKeeps, WaitWakesKeeps, WaitEnumeratesKeeps
    <2>. QED
      BY <1>2, <2>1, ReceiveKeeps, ReceiveBlocksKeeps, ReceiveEndsKeeps, ReadHeaderKeeps,
         ReadBodyKeeps, AnswerKeeps, SendKeeps, SendBlocksKeeps, SentHeaderKeeps,
         SentMessageKeeps, LoopKeeps DEF ThreadStep
  <1>3. CASE Environment
    BY <1>3, AskKeeps, ShutKeeps, ResetKeeps, SetStopKeeps, WaitAbortsKeeps DEF Environment
  <1>4. CASE Arrive \/ Drain
    BY <1>4, ArriveKeeps, DrainKeeps
  <1>5. CASE Spin \/ Done
    BY <1>1, <1>5 DEF Spin, Done
  <1>. QED
    BY <1>1, <1>2, <1>3, <1>4, <1>5 DEF Next

LEMMA Invariance == Spec => []Inv
  BY Starts, NextKeeps, PTL DEF Spec

\* Every variable keeps the values the code can give it, and no transfer counter
\* passes the end of its buffer, for any sizes and any number of requests.
THEOREM TypeCorrect == Spec => []TypeOK
  <1>1. Inv => TypeOK
    BY DEF Inv
  <1>. QED
    BY <1>1, Invariance, PTL

\* The handler gets exactly the next request, however the stream was cut: the
\* loops of peer_read count right, whatever the header's and the body's sizes.
THEOREM RequestsFramed == Spec => []FramedRight
  <1>1. Inv => FramedRight
    <2>. SUFFICES ASSUME Inv, pc = "handler"
                  PROVE  /\ answered < Len(asked) /\ asked[answered + 1] <= MaxLength
                         /\ LET request == Message("ask", answered + 1, asked[answered + 1])
                            IN  header = HeaderOf(request) /\ message_body = BodyOf(request)
      BY DEF FramedRight
    <2>1. RequestHeld /\ part = "body" /\ total = Len(message_body) /\ Got = HeaderSize + total
      BY DEF Inv, Reading, RequestHeld, Got
    <2>2. /\ HeaderSize \in Nat /\ HeaderSize > 0 /\ total \in Nat /\ answered \in Nat
          /\ Len(asked) \in Nat /\ Len(asked) <= MaxRequests /\ MaxRequests \in Nat
      BY Types
    <2>3. Got > 0
      BY <2>1, <2>2
    <2>4. answered < Len(asked)
      BY <2>1, <2>3 DEF RequestHeld
    <2>5. answered + 1 \in 1 .. Len(asked) /\ answered + 1 \in 1 .. MaxRequests
      BY <2>2, <2>4
    <2>6. PICK n \in Nat : n = asked[answered + 1]
      BY <2>5, Types
    <2>7. n <= MaxLength /\ Len(message_body) = n
      BY <2>1, <2>6 DEF RequestHeld
    <2>8. PICK m : m = Message("ask", answered + 1, n)
      OBVIOUS
    <2>9. /\ HeaderOf(m) \in [1 .. HeaderSize -> Units]
          /\ \A i \in 1 .. HeaderSize : HeaderOf(m)[i] = <<"ask", answered + 1, i>>
          /\ BodyOf(m) \in Seq(Units) /\ Len(BodyOf(m)) = n
          /\ \A i \in 1 .. n : BodyOf(m)[i] = <<"ask", answered + 1, HeaderSize + i>>
      BY <2>5, <2>8, MessageParts
    <2>10. header = HeaderOf(m)
      <3>1. header \in [1 .. HeaderSize -> Units \cup {Zero}]
        BY DEF Inv, TypeOK
      <3>2. \A i \in 1 .. HeaderSize : i <= Got
        BY <2>1, <2>2
      <3>3. \A i \in 1 .. HeaderSize : header[i] = HeaderOf(m)[i]
        BY <2>1, <2>9, <3>2 DEF RequestHeld
      <3>4. PICK h \in [1 .. HeaderSize -> Units] : h = HeaderOf(m)
        BY <2>9
      <3>5. /\ header = [i \in 1 .. HeaderSize |-> header[i]]
            /\ h = [i \in 1 .. HeaderSize |-> h[i]]
        BY <3>1
      <3>. QED
        BY <3>3, <3>4, <3>5
    <2>11. message_body = BodyOf(m)
      <3>1. message_body \in Seq(Units \cup {Zero})
        BY DEF Inv, TypeOK
      <3>2. BodyOf(m) \in Seq(Units \cup {Zero})
        BY <2>9, SeqMonotonic
      <3>3. \A i \in 1 .. Len(message_body) : message_body[i] = BodyOf(m)[i]
        BY <2>1, <2>7, <2>9 DEF RequestHeld
      <3>. QED
        BY <2>7, <2>9, <3>1, <3>2, <3>3, SeqEqual
    <2>. QED
      BY <2>4, <2>6, <2>7, <2>8, <2>10, <2>11
  <1>. QED
    BY <1>1, Invariance, PTL

\* What the client is sent is a prefix of the handlers' answers in the order of
\* its requests, and all of it before the next request is read.
THEOREM AnswersOrdered == Spec => []AnswersInOrder
  <1>1. Inv => AnswersInOrder
    <2>. SUFFICES ASSUME Inv PROVE AnswersInOrder
      OBVIOUS
    <2>1. /\ out \in Seq(Units) /\ promised \in Seq(Units)
          /\ Len(out) \in Nat /\ Len(promised) \in Nat
      BY Types
    <2>2. /\ Len(out) <= Len(promised)
          /\ \A i \in 1 .. Len(out) : out[i] = promised[i]
          /\ pc \in Reading => Len(out) = Len(promised)
      BY DEF Inv, SentRight
    <2>3. out = SubSeq(promised, 1, Len(out))
      <3>1. PICK t : t = SubSeq(promised, 1, Len(out))
        OBVIOUS
      <3>2. \A i \in 1 .. Len(out) : promised[i] \in Units
        <4>1. \A i \in 1 .. Len(promised) : promised[i] \in Units
          BY <2>1, ElementOfSeq
        <4>. QED
          BY <2>1, <2>2, <4>1
      <3>3. t \in Seq(Units) /\ Len(t) = Len(out) /\ \A i \in 1 .. Len(out) : t[i] = promised[i]
        BY <2>1, <3>1, <3>2, SubSeqProperties
      <3>4. out = t
        BY <2>1, <2>2, <3>3, SeqEqual
      <3>. QED
        BY <3>1, <3>4
    <2>4. pc \in Reading => out = promised
      BY <2>1, <2>2, SeqEqual
    <2>. QED
      BY <2>2, <2>3, <2>4 DEF AnswersInOrder
  <1>. QED
    BY <1>1, Invariance, PTL

\* The thread never sleeps over data, space or a closed connection, although
\* each wait consumes the records of both directions.
THEOREM NeverSleepsOver == Spec => []NoLostWakeup
  <1>1. Inv => NoLostWakeup
    BY DEF Inv, EventsRight, Ending, NoLostWakeup
  <1>. QED
    BY <1>1, Invariance, PTL
===============================================================================
