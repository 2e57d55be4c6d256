--------------------------- MODULE EmitterRegistry ---------------------------
(* What a client of the mod may believe about particle emitters: one table of *)
(* the render emitters that exist, with the file each came from, and answers  *)
(* that are that table, or one entry of it, as it was at one moment between   *)
(* the request and the answer.  EmitterTracking.tla implements this.          *)

CONSTANTS
  Peers, Renders, Files,
  NoAnswer, Absent, Data, Failed

VARIABLES
  table,    \* file of each render emitter that is tracked
  asked,    \* what each peer is being asked: "nothing", "list", a render emitter or
            \* something "malformed"
  answer    \* what it answers

registryVars == <<table, asked, answer>>

Entries(t) == {<<r, t[r]>> : r \in DOMAIN t}

Init ==
  /\ table = <<>>
  /\ asked = [p \in Peers |-> "nothing"]
  /\ answer = [p \in Peers |-> NoAnswer]

Insert(r, f) ==
  /\ table' = [x \in DOMAIN table \cup {r} |-> IF x = r THEN f ELSE table[x]]
  /\ UNCHANGED <<asked, answer>>

Remove(r) ==
  /\ table' = [x \in DOMAIN table \ {r} |-> table[x]]
  /\ UNCHANGED <<asked, answer>>

Ask(p, what) ==
  /\ asked[p] = "nothing"
  /\ asked' = [asked EXCEPT ![p] = what]
  /\ UNCHANGED <<table, answer>>

\* A listing is the whole table; details are Absent, or the emitter's data
\* unless they cannot be encoded.
Replies(what) ==
  IF what = "list" THEN {Entries(table)}
  ELSE IF what = "malformed" THEN {Failed}
  ELSE IF what \in DOMAIN table THEN {Data, Failed} ELSE {Absent}

Reply(p) ==
  /\ asked[p] # "nothing" /\ answer[p] = NoAnswer
  /\ \E reply \in Replies(asked[p]) : answer' = [answer EXCEPT ![p] = reply]
  /\ UNCHANGED <<table, asked>>

Finish(p) ==
  /\ answer[p] # NoAnswer
  /\ answer' = [answer EXCEPT ![p] = NoAnswer]
  /\ asked' = [asked EXCEPT ![p] = "nothing"]
  /\ UNCHANGED table

Next ==
  \/ \E r \in Renders : Remove(r) \/ \E f \in Files : Insert(r, f)
  \/ \E p \in Peers :
       \/ \E what \in Renders \cup {"list", "malformed"} : Ask(p, what)
       \/ Reply(p) \/ Finish(p)

Spec == Init /\ [][Next]_registryVars
=============================================================================
