--------------------------- MODULE Transcript_proofs ---------------------------
(***************************************************************************)
(* The handlers, streams and pages of Answers keep the promises of         *)
(* Transcript, for any numbers of questions and fragments and any mishaps; *)
(* and no page waits for a stream that nobody feeds.                       *)
(*                                                                         *)
(* AnswersInv tells how far each answer has come only where all goes well. *)
(* Here it is completed by what stays true when connections break and the  *)
(* database fails: what a turn shows is the beginning of what its handler  *)
(* has of the answer (Honest), which is what the log has, if it has any    *)
(* (Recorded), and what the one reply of a call says (Replies). A step of  *)
(* the system is then a step of the transcript for one question (Turned),  *)
(* told by what can be seen of it before and after.                        *)
(***************************************************************************)
EXTENDS Answers_proofs

\* Nothing, or all or a part of what is in text.
Part(s, q) ==
  \/ s \in {<<>>, text[q]}
  \/ \E m, n \in 0 .. MaxTokens :
       m <= n /\ s = Prefix(q, m) /\ text[q] = Prefix(q, n)

Recorded(q) ==
  logs[q] # NoRow => pc[q] \in {"logged", "over"} /\ logs[q].answer = text[q]

\* A turn shows a part, never nothing once it was broken off, and what is to be
\* added is there.
Honest(q) ==
  /\ q \in DOMAIN turns =>
       /\ turns[q].answer = Failure \/ Part(turns[q].answer, q)
       /\ ~turns[q].streaming /\ ~Ended(q) => turns[q].answer # <<>>
  /\ \A k \in 1 .. Len(wire[q]) : wire[q][k].event = "delta" =>
       \E n \in 0 .. MaxTokens : text[q] = Prefix(q, n) /\ Got(q) + k <= n

Replies(q) == Replied(q) => pc[q] = "over" /\ Head(wire[q]).text = text[q]

\* A turn of a page that is there has its end to come.
Fed(q) ==
  "truncate" \notin faults /\ open /\ Streaming(q) =>
    /\ reader[q] = "reading"
    /\ q \in broken => wire[q] = <<>>
    /\ q \notin broken /\ pc[q] = "over" =>
         \E k \in 1 .. Len(wire[q]) : wire[q][k].event \in Ends

Sound(q) ==
  /\ Recorded(q)
  /\ q \in Turn => Honest(q) /\ Fed(q)
  /\ q \in Call => Replies(q)

TranscriptInv == AnswersInv /\ \A q \in Question : Sound(q)

KeptOf(q) == IF logs[q] = NoRow THEN {} ELSE {logs[q].answer}

\* The steps of the transcript, for the question they are about.
Seen(q) == <<StageOf(q), ShownOf(q), KeptOf(q)>>
Begins(q) ==
  /\ StageOf(q) = "unasked" /\ StageOf(q)' = "open"
  /\ ShownOf(q)' = ShownOf(q) /\ KeptOf(q)' = KeptOf(q)
Reveals(q) ==
  /\ StageOf(q) = "open" /\ StageOf(q)' = "open" /\ KeptOf(q)' = KeptOf(q)
  /\ ShownOf(q)' \in Texts(q) /\ Len(ShownOf(q)') = Len(ShownOf(q)) + 1
  /\ Book!IsPrefix(ShownOf(q), ShownOf(q)')
  /\ \A k \in KeptOf(q) : Book!IsPrefix(ShownOf(q)', k)
Keeps(q) ==
  /\ StageOf(q) # "unasked" /\ StageOf(q)' = StageOf(q) /\ ShownOf(q)' = ShownOf(q)
  /\ KeptOf(q) = {}
  /\ \E t \in Texts(q) :
       /\ ShownOf(q) = Failure \/ Book!IsPrefix(ShownOf(q), t)
       /\ KeptOf(q)' = {t}
Concludes(q) ==
  /\ StageOf(q) = "open" /\ StageOf(q)' = "concluded" /\ KeptOf(q)' = KeptOf(q)
  /\ \E t \in Texts(q) :
       /\ KeptOf(q) \subseteq {t} /\ ("db" \notin faults => KeptOf(q) = {t})
       /\ ShownOf(q) \in {<<>>, t} /\ ShownOf(q)' \in {ShownOf(q), t}
Breaks(q) ==
  /\ StageOf(q) = "open" /\ StageOf(q)' = "broken off" /\ KeptOf(q)' = KeptOf(q)
  /\ \/ ShownOf(q)' = ShownOf(q)
     \/ ShownOf(q)' = IF ShownOf(q) = <<>> THEN Failure ELSE ShownOf(q)
BreaksLate(q) ==
  /\ StageOf(q) = "concluded" /\ StageOf(q)' = "concluded" /\ KeptOf(q)' = KeptOf(q)
  /\ ShownOf(q)' = IF ShownOf(q) = <<>> THEN Failure ELSE ShownOf(q)
Turned(q) ==
  \/ Seen(q)' = Seen(q)
  \/ Begins(q) \/ Reveals(q) \/ Keeps(q) \/ Concludes(q) \/ Breaks(q) \/ BreaksLate(q)

-----------------------------------------------------------------------------
(* What a step does to one question it does to the transcript.             *)
LEMMA StepOfOne ==
  ASSUME NEW q \in Question, Turned(q), faults' = faults,
         \A i \in Question \ {q} : Seen(i)' = Seen(i)
  PROVE  [Book!Next]_(Book!transcriptVars)
<1> DEFINE stages == [i \in Question |-> StageOf(i)]
           showns == [i \in Question |-> ShownOf(i)]
           kepts == [i \in Question |-> IF logs[i] = NoRow THEN {} ELSE {logs[i].answer}]
<1>1. \A i \in Question \ {q} :
        StageOf(i)' = StageOf(i) /\ ShownOf(i)' = ShownOf(i) /\ KeptOf(i)' = KeptOf(i)
  BY DEF Seen
<1>2. /\ stages' = [stages EXCEPT ![q] = StageOf(q)']
      /\ showns' = [showns EXCEPT ![q] = ShownOf(q)']
      /\ kepts' = [kepts EXCEPT ![q] = KeptOf(q)']
  BY <1>1 DEF KeptOf
<1>3. StageOf(q)' = StageOf(q) => stages' = stages
  BY <1>2
<1>4. ShownOf(q)' = ShownOf(q) => showns' = showns
  BY <1>2
<1>5. KeptOf(q)' = KeptOf(q) => kepts' = kepts
  BY <1>2 DEF KeptOf
<1>6. stages[q] = StageOf(q) /\ showns[q] = ShownOf(q) /\ kepts[q] = KeptOf(q)
  BY DEF KeptOf
<1>7. CASE Seen(q)' = Seen(q)
  <2>1. stages' = stages /\ showns' = showns /\ kepts' = kepts
    BY <1>3, <1>4, <1>5, <1>7 DEF Seen
  <2> QED BY <2>1 DEF Book!transcriptVars
<1>8. CASE Begins(q)
  <2>1. Book!Begin(q)
    BY <1>2, <1>4, <1>5, <1>6, <1>8 DEF Begins, Book!Begin
  <2> QED BY <2>1 DEF Book!Next
<1>9. CASE Reveals(q)
  <2>1. Book!Reveal(q)
    BY <1>2, <1>3, <1>5, <1>6, <1>9 DEF Reveals, Book!Reveal
  <2> QED BY <2>1 DEF Book!Next
<1>10. CASE Keeps(q)
  <2>1. Book!Keep(q)
    BY <1>2, <1>3, <1>4, <1>6, <1>10 DEF Keeps, Book!Keep
  <2> QED BY <2>1 DEF Book!Next
<1>11. CASE Concludes(q)
  <2>1. Book!Conclude(q)
    BY <1>2, <1>4, <1>5, <1>6, <1>11 DEF Concludes, Book!Conclude
  <2> QED BY <2>1 DEF Book!Next
<1>12. CASE Breaks(q)
  <2>1. Book!BreakOff(q)
    BY <1>2, <1>4, <1>5, <1>6, <1>12 DEF Breaks, Book!BreakOff, Book!Fail
  <2> QED BY <2>1 DEF Book!Next
<1>13. CASE BreaksLate(q)
  <2>1. Book!BreakLate(q)
    BY <1>2, <1>3, <1>4, <1>5, <1>6, <1>13 DEF BreaksLate, Book!BreakLate, Book!Fail
  <2> QED BY <2>1 DEF Book!Next
<1> QED BY <1>7, <1>8, <1>9, <1>10, <1>11, <1>12, <1>13 DEF Turned

-----------------------------------------------------------------------------
(* Beginnings of texts.                                                    *)
LEMMA WholeBegins ==
  ASSUME NEW s \in Seq(Fragment)
  PROVE  Book!IsPrefix(s, s) /\ Book!IsPrefix(<<>>, s)
<1>1. SubSeq(s, 1, 0) = <<>> /\ SubSeq(<<>>, 1, 0) = <<>>
  OBVIOUS
<1>2. Len(<<>>) = 0 /\ Len(s) \in Nat
  OBVIOUS
<1> QED BY <1>1, <1>2 DEF Book!IsPrefix

LEMMA PrefixBegins ==
  ASSUME NEW q \in Int, NEW m \in Nat, NEW n \in Nat, m <= n
  PROVE  Book!IsPrefix(Prefix(q, m), Prefix(q, n))
<1>1. PICK s \in Seq(Fragment) : s = Prefix(q, m) /\ Len(s) = m
  BY PrefixIs
<1>2. PICK t \in Seq(Fragment) : t = Prefix(q, n) /\ Len(t) = n
  BY PrefixIs
<1>3. SubSeq(s, 1, m) = SubSeq(t, 1, m)
  <2>1. /\ SubSeq(s, 1, m) \in Seq(Fragment) /\ Len(SubSeq(s, 1, m)) = m
        /\ \A k \in 1 .. m : SubSeq(s, 1, m)[k] = s[k]
    BY <1>1, SubSeqProperties
  <2>2. /\ SubSeq(t, 1, m) \in Seq(Fragment) /\ Len(SubSeq(t, 1, m)) = m
        /\ \A k \in 1 .. m : SubSeq(t, 1, m)[k] = t[k]
    BY <1>2, SubSeqProperties
  <2>3. \A k \in 1 .. m : s[k] = t[k]
    BY <1>1, <1>2 DEF Prefix
  <2> QED BY <2>1, <2>2, <2>3, SeqEqual
<1> QED BY <1>1, <1>2, <1>3 DEF Book!IsPrefix

LEMMA PartBegins ==
  ASSUME NEW q \in Question, Served(q), NEW s, Part(s, q)
  PROVE  Book!IsPrefix(s, text[q])
<1>1. text[q] \in Seq(Fragment) /\ q \in Int
  BY TextsAre, Numbers DEF Served
<1>2. CASE s \in {<<>>, text[q]}
  BY <1>1, <1>2, WholeBegins
<1>3. CASE \E m, n \in 0 .. MaxTokens :
             m <= n /\ s = Prefix(q, m) /\ text[q] = Prefix(q, n)
  <2>1. PICK m \in Nat, n \in Nat : m <= n /\ s = Prefix(q, m) /\ text[q] = Prefix(q, n)
    BY <1>3, Numbers
  <2> QED BY <1>1, <2>1, PrefixBegins
<1> QED BY <1>2, <1>3 DEF Part

-----------------------------------------------------------------------------
(* A question of which nothing has changed that these facts are about.     *)
LEMMA Rests ==
  ASSUME NEW i \in Question, Sound(i), i \in Turn => Shown(i),
         faults' = faults, open' => open /\ (i \in broken' <=> i \in broken),
         pc'[i] = pc[i], text'[i] = text[i],
         wire'[i] = wire[i], i \in Turn => reader'[i] = reader[i],
         logs'[i].answer = logs[i].answer, logs'[i] = NoRow <=> logs[i] = NoRow,
         i \in DOMAIN turns' <=> i \in DOMAIN turns,
         i \in DOMAIN turns =>
           /\ turns'[i].answer = turns[i].answer /\ turns'[i].streaming = turns[i].streaming
           /\ (Ended(i)' <=> Ended(i))
  PROVE  Sound(i)' /\ Seen(i)' = Seen(i)
<1>1. Recorded(i)' /\ KeptOf(i)' = KeptOf(i)
  BY DEF Sound, Recorded, KeptOf
<1>2. Replied(i)' <=> Replied(i)
  BY DEF Replied
<1>3. i \in Call => Replies(i)'
  BY <1>2 DEF Sound, Replies
<1>4. i \in Turn => Fed(i)'
  BY DEF Sound, Fed, Streaming
<1>5. ASSUME i \in Turn PROVE Honest(i)'
  <2>1. CASE i \notin DOMAIN turns
    <3>1. Len(wire'[i]) = 0
      BY <1>5, <2>1 DEF Shown
    <3> QED BY <2>1, <3>1 DEF Honest
  <2>2. CASE i \in DOMAIN turns
    <3>1. Got(i)' = Got(i)
      BY <2>2 DEF Got
    <3>2. Part(turns[i].answer, i)' <=> Part(turns[i].answer, i)
      BY <2>2 DEF Part, Prefix
    <3> QED BY <1>5, <2>2, <3>1, <3>2 DEF Sound, Honest, Prefix
  <2> QED BY <2>1, <2>2
<1>6. StageOf(i)' = StageOf(i)
  BY <1>2 DEF StageOf, Opened, Concluded, Closed
<1>7. ShownOf(i)' = ShownOf(i)
  BY <1>2 DEF ShownOf
<1> QED BY <1>1, <1>3, <1>4, <1>5, <1>6, <1>7 DEF Sound, Seen

-----------------------------------------------------------------------------
(* Steps of a handler.                                                     *)
LEMMA Record ==
  ASSUME Shapes, NEW q \in Question, Served(q), Recorded(q), Serve(q)
  PROVE  Recorded(q)' /\ (~Log(q) => KeptOf(q)' = KeptOf(q))
<1>1. q \in DOMAIN pc /\ q \in DOMAIN text /\ q \in DOMAIN logs
  BY DEF Shapes
<1>2. CASE Log(q)
  BY <1>1, <1>2 DEF Log, Recorded
<1>3. CASE ~Log(q)
  <2>1. logs' = logs /\ pc[q] \in Busy
    BY <1>1, <1>3
       DEF Serve, Refuse, Retrieve, RetrieveFails, StreamToken, StreamEnds, StreamFails,
           Complete, CompleteFails, LogFails, Finish, Busy
  <2>2. \/ pc[q] \in {"asked", "answering", "answered"}
        \/ text'[q] = text[q] /\ pc'[q] \in {"logged", "over"}
    BY <1>1, <1>3
       DEF Serve, Refuse, Retrieve, RetrieveFails, StreamToken, StreamEnds, StreamFails,
           Complete, CompleteFails, LogFails, Finish
  <2> QED BY <1>3, <2>1, <2>2 DEF Recorded, KeptOf
<1> QED BY <1>2, <1>3

LEMMA Logged ==
  ASSUME Shapes, NEW q \in Question, Served(q), Recorded(q), Log(q),
         StageOf(q) # "unasked", StageOf(q)' = StageOf(q), ShownOf(q)' = ShownOf(q),
         ShownOf(q) = Failure \/ Part(ShownOf(q), q)
  PROVE  Keeps(q)
<1>1. q \in DOMAIN logs /\ text[q] \in Texts(q)
  BY DEF Shapes, Served
<1>2. KeptOf(q) = {}
  BY DEF Log, Recorded, KeptOf
<1>3. logs'[q] = [answer |-> text[q], feedback |-> "none"]
  BY <1>1 DEF Log
<1>4. logs'[q] # NoRow
  <2>1. logs'[q].feedback = "none" /\ NoRow.feedback = "no row"
    BY <1>3 DEF NoRow
  <2> QED BY <2>1
<1>5. KeptOf(q)' = {text[q]}
  BY <1>3, <1>4 DEF KeptOf
<1>6. ShownOf(q) = Failure \/ Book!IsPrefix(ShownOf(q), text[q])
  BY PartBegins
<1> QED BY <1>1, <1>2, <1>5, <1>6 DEF Keeps

LEMMA ServeCall ==
  ASSUME AnswersInv, NEW q \in Call, Sound(q), Serve(q)
  PROVE  Sound(q)' /\ Turned(q)
<1>1. /\ q \in Question /\ q \notin Turn /\ Shapes /\ Served(q) /\ Told(q)
      /\ \A x \in Question : Served(x)
  BY Numbers DEF AnswersInv
<1>2. /\ UNCHANGED <<faults, broken, turns, open>>
      /\ pc[q] \in Busy /\ pc'[q] \in Busy \cup {"over"}
  BY <1>1, ServeTouches
<1>3. wire[q] = <<>> /\ q \notin DOMAIN turns /\ q \in DOMAIN pc /\ Recorded(q)
  BY <1>1, <1>2 DEF Told, Busy, Shapes, Sound
<1>4. StageOf(q) = "open" /\ ShownOf(q) = <<>>
  BY <1>1, <1>2, <1>3 DEF StageOf, Opened, Concluded, Closed, Replied, ShownOf, Busy
<1>5. Recorded(q)' /\ (~Log(q) => KeptOf(q)' = KeptOf(q))
  BY <1>1, <1>3, Record
<1>6. ASSUME ~Replied(q)', pc'[q] = "over", ~Log(q) PROVE Sound(q)' /\ Turned(q)
  <2>1. StageOf(q)' = "broken off" /\ ShownOf(q)' = <<>>
    BY <1>1, <1>2, <1>3, <1>6 DEF StageOf, Opened, Concluded, Closed, ShownOf
  <2>2. Breaks(q)
    BY <1>4, <1>5, <1>6, <2>1 DEF Breaks
  <2> QED BY <1>1, <1>5, <1>6, <2>2 DEF Sound, Replies, Turned
<1>7. CASE wire' = wire /\ pc'[q] \in Busy
  <2>1. ~Replied(q)'
    BY <1>3, <1>7 DEF Replied
  <2>2. StageOf(q)' = "open" /\ ShownOf(q)' = <<>>
    BY <1>1, <1>2, <1>3, <1>7, <2>1 DEF StageOf, Opened, Concluded, Closed, ShownOf, Busy
  <2>3. Turned(q)
    <3>1. CASE Log(q)
      <4>1. Part(ShownOf(q), q)
        BY <1>4 DEF Part
      <4>2. Keeps(q)
        BY <1>1, <1>3, <1>4, <2>2, <3>1, <4>1, Logged
      <4> QED BY <4>2 DEF Turned
    <3>2. CASE ~Log(q)
      BY <1>4, <1>5, <2>2, <3>2 DEF Turned, Seen
    <3> QED BY <3>1, <3>2
  <2> QED BY <1>1, <1>5, <2>1, <2>3 DEF Sound, Replies
<1>8. CASE Refuse(q) \/ RetrieveFails(q)
  <2>1. pc'[q] = "over" /\ ~Log(q) /\ Send(q, <<Frame("refused")>>)
    BY <1>1, <1>3, <1>8 DEF Refuse, RetrieveFails, Log
  <2>2. PICK f \in WireFrame : f = Frame("refused") /\ f.event = "refused"
    <3>1. Frame("refused") \in WireFrame /\ Frame("refused").event = "refused"
      BY <1>1, FramesAre DEF Frame
    <3> QED BY <3>1
  <2>3. wire'[q] = <<>> \/ wire'[q] = <<f>>
    <3>1. <<f>> \in Seq(WireFrame) /\ <<>> \o <<f>> = <<f>>
      OBVIOUS
    <3> QED BY <1>1, <1>3, <2>1, <2>2, <3>1, SendIs
  <2>4. ~Replied(q)'
    BY <2>2, <2>3 DEF Replied
  <2> QED BY <1>6, <2>1, <2>4
<1>9. CASE Finish(q)
  <2>1. pc'[q] = "over" /\ ~Log(q) /\ pc[q] = "logged" /\ Send(q, <<Result("reply", q)>>)
        /\ text' = text /\ logs' = logs
    BY <1>1, <1>3, <1>9 DEF Finish, Log
  <2>2. PICK f \in WireFrame : f = Result("reply", q) /\ f.event = "reply" /\ f.text = text[q]
    <3>1. /\ Result("reply", q) \in WireFrame /\ Result("reply", q).event = "reply"
          /\ Result("reply", q).text = text[q]
      BY <1>1, FramesAre DEF Result
    <3> QED BY <3>1
  <2>3. <<f>> \in Seq(WireFrame) /\ <<>> \o <<f>> = <<f>>
    OBVIOUS
  <2>4. CASE q \in broken
    <3>1. ~Replied(q)'
      BY <1>1, <1>3, <2>1, <2>2, <2>3, <2>4, SendIs DEF Replied
    <3> QED BY <1>6, <2>1, <3>1
  <2>5. CASE q \notin broken
    <3>1. wire'[q] = <<f>>
      BY <1>1, <1>3, <2>1, <2>2, <2>3, <2>5, SendIs
    <3>2. wire'[q] # <<>> /\ Head(wire'[q]) = f
      BY <3>1
    <3>3. Replied(q)'
      BY <2>2, <3>2 DEF Replied
    <3>4. StageOf(q)' = "concluded" /\ ShownOf(q)' = text[q]
      BY <1>1, <1>2, <1>3, <2>1, <2>2, <3>2, <3>3 DEF StageOf, Opened, Concluded, ShownOf
    <3>5. KeptOf(q) \subseteq {text[q]} /\ ("db" \notin faults => KeptOf(q) = {text[q]})
      BY <1>1, <1>3, <2>1, <2>5 DEF KeptOf, Recorded, Served
    <3>6. Concludes(q)
      BY <1>1, <1>4, <1>5, <2>1, <3>4, <3>5 DEF Concludes, Served
    <3> QED BY <1>1, <1>5, <2>1, <2>2, <3>2, <3>6 DEF Sound, Replies, Turned
  <2> QED BY <2>4, <2>5
<1> QED
  BY <1>1, <1>3, <1>7, <1>8, <1>9
  DEF Serve, Retrieve, StreamToken, StreamEnds, StreamFails, Complete, CompleteFails,
      Log, LogFails, Busy

LEMMA PrefixesDiffer ==
  ASSUME NEW q \in Int, NEW m \in Nat, NEW n \in Nat, Prefix(q, m) = Prefix(q, n)
  PROVE  m = n
BY PrefixIs

LEMMA PartGrows ==
  ASSUME NEW q \in Question, NEW n \in 0 .. MaxTokens, text[q] = Prefix(q, n),
         NEW s, Part(s, q),
         \/ n + 1 <= MaxTokens /\ text'[q] = Prefix(q, n + 1)
         \/ n = 0 /\ text'[q] = Note
  PROVE  Part(s, q)'
<1>1. q \in Int /\ n \in Nat /\ MaxTokens \in Nat /\ n + 1 \in Nat
  BY Numbers
<1>2. PICK m \in 0 .. MaxTokens : m <= n /\ s = Prefix(q, m)
  <2>1. CASE s = <<>>
    <3>1. s = Prefix(q, 0) /\ 0 \in 0 .. MaxTokens /\ 0 <= n
      BY <1>1, <2>1, PrefixIs
    <3> QED BY <3>1
  <2>2. CASE s = text[q]
    BY <1>1, <2>2
  <2>3. CASE \E m, l \in 0 .. MaxTokens :
               m <= l /\ s = Prefix(q, m) /\ text[q] = Prefix(q, l)
    <3>1. PICK m \in 0 .. MaxTokens, l \in 0 .. MaxTokens :
            m <= l /\ s = Prefix(q, m) /\ text[q] = Prefix(q, l)
      BY <2>3
    <3>2. m \in Nat /\ l \in Nat
      BY <1>1
    <3>3. l = n
      BY <1>1, <3>1, <3>2, PrefixesDiffer
    <3> QED BY <3>1, <3>3
  <2> QED BY <2>1, <2>2, <2>3 DEF Part
<1>3. CASE n + 1 <= MaxTokens /\ text'[q] = Prefix(q, n + 1)
  <2>1. m <= n + 1 /\ n + 1 \in 0 .. MaxTokens /\ Prefix(q, m)' = Prefix(q, m)
        /\ Prefix(q, n + 1)' = Prefix(q, n + 1)
    BY <1>1, <1>2, <1>3 DEF Prefix
  <2> QED BY <1>2, <1>3, <2>1 DEF Part
<1>4. CASE n = 0 /\ text'[q] = Note
  <2>1. s = <<>>
    BY <1>1, <1>2, <1>4, PrefixIs
  <2> QED BY <2>1 DEF Part
<1> QED BY <1>3, <1>4

\* A step of the handler of a turn that sends nothing but fragments.
LEMMA ServeHonest ==
  ASSUME AnswersInv, NEW q \in Turn, Sound(q), Serve(q), pc'[q] \in Busy
  PROVE  Honest(q)' /\ (q \in broken => wire'[q] = wire[q])
<1>1. /\ q \in Question /\ q \in Int /\ q \notin Call /\ Shapes /\ Served(q) /\ Shown(q)
      /\ \A x \in Question : Served(x)
  BY Numbers DEF AnswersInv
<1>2. /\ UNCHANGED <<faults, broken, turns, open, reader>> /\ pc[q] \in Busy
      /\ q \in DOMAIN pc /\ q \in DOMAIN text
  BY <1>1, ServeTouches DEF Shapes
<1>3. q \in DOMAIN turns /\ Honest(q) /\ ~Ended(q) /\ MaxTokens \in Nat
  BY <1>1, <1>2, Numbers DEF Shown, Busy, Sound
<1>4. Got(q)' = Got(q) /\ Ended(q)' = Ended(q) /\ Got(q) \in Nat
      /\ wire[q] \in Seq(WireFrame)
  <2>1. Got(q) \in Nat
    BY <1>1, <1>3, ElementOfSeq DEF Got, Shapes, TurnRow
  <2> QED BY <1>1, <1>2, <2>1 DEF Got, Ended, Shapes
<1>5. PICK a : a = turns[q].answer /\ a = turns'[q].answer
  BY <1>2
<1>6. CASE text'[q] = text[q] /\ wire' = wire
  <2>1. a = Failure \/ Part(a, q)'
    <3>1. a = Failure \/ Part(a, q)
      BY <1>3, <1>5 DEF Honest
    <3> QED BY <1>6, <3>1 DEF Part, Prefix
  <2>2. turns'[q].answer = Failure \/ Part(turns[q].answer, q)'
    BY <1>5, <2>1 DEF Part
  <2> QED BY <1>2, <1>3, <1>4, <1>6, <2>2 DEF Honest, Prefix
<1>7. CASE StreamFails(q) /\ text[q] = <<>>
  <2>1. text[q] = Prefix(q, 0) /\ text'[q] = Note /\ wire' = wire /\ 0 \in 0 .. MaxTokens
    BY <1>1, <1>2, <1>3, <1>7, PrefixIs DEF StreamFails
  <2>2. turns'[q].answer = Failure \/ Part(turns[q].answer, q)'
    <3>1. a = Failure \/ Part(a, q)
      BY <1>3, <1>5 DEF Honest
    <3>2. a = Failure \/ Part(a, q)'
      BY <1>1, <2>1, <3>1, PartGrows
    <3> QED BY <1>5, <3>2 DEF Part
  <2>3. \A k \in 1 .. Len(wire[q]) : wire[q][k].event # "delta"
    <3> SUFFICES ASSUME NEW k \in 1 .. Len(wire[q]), wire[q][k].event = "delta" PROVE FALSE
      OBVIOUS
    <3>1. PICK n \in 0 .. MaxTokens : text[q] = Prefix(q, n) /\ Got(q) + k <= n
      BY <1>3 DEF Honest
    <3>2. n \in Nat /\ n = 0
      BY <1>1, <1>3, <2>1, <3>1, PrefixesDiffer
    <3> QED BY <1>4, <3>1, <3>2
  <2> QED BY <1>2, <1>3, <1>4, <2>1, <2>2, <2>3 DEF Honest
<1>8. CASE StreamToken(q)
  <2>1. PICK n \in 0 .. MaxTokens : text[q] = Prefix(q, n)
    BY <1>1, <1>8 DEF StreamToken, Served
  <2>2. n \in Nat /\ Len(text[q]) = n /\ n + 1 <= MaxTokens /\ n + 1 \in 0 .. MaxTokens
    BY <1>1, <1>3, <1>8, <2>1, PrefixIs DEF StreamToken
  <2>3. text'[q] = Prefix(q, n + 1)
    <3>1. text'[q] = Append(Prefix(q, n), <<q, n + 1>>)
      BY <1>2, <1>8, <2>1, <2>2 DEF StreamToken
    <3> QED BY <1>1, <2>2, <3>1, PrefixExtends
  <2>4. PICK f \in WireFrame :
          f = Delta(q, n + 1) /\ f.event = "delta" /\ f.text = <<<<q, n + 1>>>>
    <3>1. Delta(q, n + 1) \in WireFrame
      BY <1>1, <2>2, FramesAre
    <3>2. Delta(q, n + 1).event = "delta" /\ Delta(q, n + 1).text = <<<<q, n + 1>>>>
      BY DEF Delta
    <3> QED BY <3>1, <3>2
  <2>5. wire'[q] = IF q \in broken THEN wire[q] ELSE wire[q] \o <<f>>
    <3>1. Send(q, <<f>>) /\ <<f>> \in Seq(WireFrame)
      BY <1>8, <2>2, <2>4 DEF StreamToken
    <3> QED BY <1>1, <3>1, SendIs
  <2>6. turns'[q].answer = Failure \/ Part(turns[q].answer, q)'
    <3>1. a = Failure \/ Part(a, q)
      BY <1>3, <1>5 DEF Honest
    <3>2. a = Failure \/ Part(a, q)'
      BY <1>1, <2>1, <2>2, <2>3, <3>1, PartGrows
    <3> QED BY <1>5, <3>2 DEF Part
  <2>7. ASSUME NEW k \in 1 .. Len(wire[q]), wire[q][k].event = "delta"
        PROVE  Got(q) + k <= n + 1
    <3>1. PICK l \in 0 .. MaxTokens : text[q] = Prefix(q, l) /\ Got(q) + k <= l
      BY <1>3, <2>7 DEF Honest
    <3>2. l \in Nat
      BY <1>3
    <3>3. Prefix(q, l) = Prefix(q, n)
      BY <2>1, <3>1
    <3>4. l = n
      BY <1>1, <2>2, <3>2, <3>3, PrefixesDiffer
    <3> QED BY <1>4, <2>2, <3>1, <3>4
  <2>8. ASSUME NEW k \in 1 .. Len(wire'[q]), wire'[q][k].event = "delta"
        PROVE  Got(q) + k <= n + 1
    <3>1. CASE q \in broken
      BY <2>5, <2>7, <2>8, <3>1
    <3>2. CASE q \notin broken
      <4>1. PICK l \in Nat : l = Len(wire[q])
        BY <1>4
      <4>2. /\ Len(wire'[q]) = l + 1 /\ wire'[q][l + 1] = f
            /\ \A j \in 1 .. l : wire'[q][j] = wire[q][j]
        BY <1>4, <2>4, <2>5, <3>2, <4>1, OneMore
      <4>3. CASE k \in 1 .. l
        BY <2>7, <2>8, <4>1, <4>2, <4>3
      <4>4. CASE k = l + 1
        <5>1. FrameOK(q, l + 1)'
          <6>1. Shown(q)'
            BY <1>1, ServeShown
          <6> QED BY <4>1, <4>2, <6>1 DEF Shown
        <5>2. f.text = <<<<q, Got(q) + (l + 1)>>>>
          BY <1>4, <2>4, <4>2, <5>1 DEF FrameOK
        <5>3. Got(q) + (l + 1) = n + 1
          BY <2>4, <5>2
        <5> QED BY <4>4, <5>3, <1>4, <2>2
      <4> QED BY <2>8, <4>1, <4>2, <4>3, <4>4
    <3> QED BY <3>1, <3>2
  <2>9. Prefix(q, n + 1)' = Prefix(q, n + 1)
    BY DEF Prefix
  <2> QED BY <1>2, <1>3, <1>4, <2>2, <2>3, <2>5, <2>6, <2>8, <2>9 DEF Honest
<1> QED
  BY <1>1, <1>2, <1>6, <1>7, <1>8
  DEF Serve, Refuse, Retrieve, RetrieveFails, StreamEnds, StreamFails, Complete,
      CompleteFails, Log, LogFails, Finish, Busy

\* The last step of the handler of a turn sends its end, if anything.
LEMMA FinishHonest ==
  ASSUME AnswersInv, NEW q \in Turn, Sound(q), Serve(q), pc'[q] = "over"
  PROVE  /\ Honest(q)' /\ ~Log(q) /\ (q \in broken => wire'[q] = wire[q])
         /\ q \notin broken => \E k \in 1 .. Len(wire'[q]) : wire'[q][k].event \in Ends
<1>1. /\ q \in Question /\ q \in Int /\ q \notin Call /\ Shapes /\ Shown(q)
      /\ \A x \in Question : Served(x)
  BY Numbers DEF AnswersInv
<1>2. /\ UNCHANGED <<faults, broken, turns, open, reader>> /\ pc[q] \in Busy
      /\ q \in DOMAIN pc /\ q \in DOMAIN turns
  BY <1>1, ServeTouches DEF Shapes, Shown, Busy
<1>3. Honest(q) /\ Got(q)' = Got(q) /\ Ended(q)' = Ended(q) /\ wire[q] \in Seq(WireFrame)
  BY <1>1, <1>2 DEF Sound, Got, Ended, Shapes
<1>4. PICK frames \in Seq(WireFrame) :
        /\ Send(q, frames) /\ frames # <<>> /\ Len(frames) \in Nat \ {0}
        /\ frames[1].event \in Ends
        /\ \A k \in 1 .. Len(frames) : frames[k].event # "delta"
  <2>1. /\ \A e \in {"error", "refused", "eof"} : Frame(e) \in WireFrame /\ Frame(e).event = e
        /\ Result("done", q) \in WireFrame /\ Result("done", q).event = "done"
    BY <1>1, FramesAre DEF Frame, Result
  <2>2. PICK d \in WireFrame, e \in WireFrame, r \in WireFrame, z \in WireFrame :
          /\ d = Result("done", q) /\ d.event = "done" /\ e = Frame("error") /\ e.event = "error"
          /\ r = Frame("refused") /\ r.event = "refused" /\ z = Frame("eof") /\ z.event = "eof"
    BY <2>1
  <2>3. Send(q, <<r>>) \/ Send(q, <<e, z>>) \/ Send(q, <<d, z>>)
    BY <1>1, <1>2, <2>2
       DEF Serve, Refuse, Retrieve, RetrieveFails, StreamToken, StreamEnds, StreamFails,
           Complete, CompleteFails, Log, LogFails, Finish
  <2> DEFINE Final(s) == /\ s \in Seq(WireFrame) /\ s # <<>> /\ Len(s) \in Nat \ {0}
                         /\ s[1].event \in Ends
                         /\ \A k \in 1 .. Len(s) : s[k].event # "delta"
  <2>4. Final(<<r>>)
    <3>1. <<r>> \in Seq(WireFrame) /\ Len(<<r>>) = 1 /\ <<r>>[1] = r
      OBVIOUS
    <3> QED BY <2>2, <3>1 DEF Ends
  <2>5. ASSUME NEW f \in WireFrame, f.event \in {"done", "error"} PROVE Final(<<f, z>>)
    <3>1. <<f, z>> \in Seq(WireFrame) /\ Len(<<f, z>>) = 2 /\ <<f, z>>[1] = f /\ <<f, z>>[2] = z
      OBVIOUS
    <3> QED BY <2>2, <2>5, <3>1 DEF Ends
  <2>6. Final(<<e, z>>) /\ Final(<<d, z>>)
    BY <2>2, <2>5
  <2> QED BY <2>3, <2>4, <2>6
<1>5. wire'[q] = IF q \in broken THEN wire[q] ELSE wire[q] \o frames
  BY <1>1, <1>4, SendIs
<1>6. text'[q] = text[q] /\ ~Log(q)
  BY <1>1, <1>2
     DEF Serve, Refuse, Retrieve, RetrieveFails, StreamToken, StreamEnds, StreamFails,
         Complete, CompleteFails, Log, LogFails, Finish
<1>7. turns'[q].answer = Failure \/ Part(turns[q].answer, q)'
  BY <1>2, <1>3, <1>6 DEF Honest, Part, Prefix
<1>8. ASSUME NEW k \in 1 .. Len(wire'[q]), wire'[q][k].event = "delta"
      PROVE  \E n \in 0 .. MaxTokens : text[q] = Prefix(q, n) /\ Got(q) + k <= n
  <2>1. k \in 1 .. Len(wire[q]) /\ wire[q][k].event = "delta"
    BY <1>3, <1>4, <1>5, <1>8, ConcatProperties
  <2> QED BY <1>3, <2>1 DEF Honest
<1>9. ASSUME q \notin broken
      PROVE  \E k \in 1 .. Len(wire'[q]) : wire'[q][k].event \in Ends
  <2>1. PICK l \in Nat : l = Len(wire[q])
    BY <1>3
  <2>2. wire'[q][l + 1] = frames[1] /\ l + 1 \in 1 .. Len(wire'[q])
    BY <1>3, <1>4, <1>5, <1>9, <2>1, ConcatProperties
  <2> QED BY <1>4, <2>2
<1>10. Honest(q)'
  BY <1>2, <1>3, <1>6, <1>7, <1>8 DEF Honest, Prefix
<1> QED BY <1>5, <1>6, <1>9, <1>10

LEMMA ServeTurn ==
  ASSUME AnswersInv, NEW q \in Turn, Sound(q), Serve(q)
  PROVE  Sound(q)' /\ Turned(q)
<1>1. /\ q \in Question /\ q \notin Call /\ Shapes /\ Served(q) /\ Shown(q) /\ Recorded(q)
      /\ (\A x \in Question : Served(x)) /\ Honest(q) /\ Fed(q)
  BY Numbers DEF AnswersInv, Sound
<1>2. /\ UNCHANGED <<faults, broken, turns, open, reader>>
      /\ pc[q] \in Busy /\ pc'[q] \in Busy \cup {"over"} /\ q \in DOMAIN turns
  BY <1>1, ServeTouches DEF Shown, Busy
<1>3. Recorded(q)' /\ (~Log(q) => KeptOf(q)' = KeptOf(q))
  BY <1>1, Record
<1>4. /\ StageOf(q)' = StageOf(q) /\ ShownOf(q)' = ShownOf(q)
      /\ StageOf(q) # "unasked" /\ ShownOf(q) = turns[q].answer
  BY <1>1, <1>2 DEF StageOf, ShownOf, Opened, Concluded, Closed, Ended
<1>5. Turned(q)
  <2>1. CASE Log(q)
    <3>1. ShownOf(q) = Failure \/ Part(ShownOf(q), q)
      BY <1>1, <1>2, <1>4 DEF Honest
    <3>2. Keeps(q)
      BY <1>1, <1>4, <2>1, <3>1, Logged
    <3> QED BY <3>2 DEF Turned
  <2>2. CASE ~Log(q)
    BY <1>3, <1>4, <2>2 DEF Turned, Seen
  <2> QED BY <2>1, <2>2
<1>6. Honest(q)' /\ (q \in broken => wire'[q] = wire[q])
  BY <1>2, ServeHonest, FinishHonest
<1>7. q \notin broken /\ pc'[q] = "over"
        => \E k \in 1 .. Len(wire'[q]) : wire'[q][k].event \in Ends
  BY FinishHonest
<1>8. Fed(q)'
  BY <1>1, <1>2, <1>6, <1>7 DEF Fed, Streaming
<1> QED BY <1>1, <1>3, <1>5, <1>6, <1>8 DEF Sound

-----------------------------------------------------------------------------
(* Steps of the page for one of its turns.                                 *)
LEMMA ReadLeaves ==
  ASSUME AnswersInv, NEW q \in Turn, Sound(q), Read(q)
  PROVE  /\ UNCHANGED <<faults, pc, text, logs, broken, open>>
         /\ q \in Question /\ q \in Int /\ q \notin Call /\ q \in DOMAIN turns /\ q \in DOMAIN turns'
         /\ Shapes /\ Served(q) /\ Shown(q) /\ Shown(q)' /\ Honest(q) /\ Fed(q)
         /\ turns[q] \in TurnRow /\ Got(q) \in Nat
         /\ wire'[q] \in Seq(WireFrame)
         /\ Recorded(q) /\ Recorded(q)' /\ KeptOf(q)' = KeptOf(q)
<1>1. /\ q \in Question /\ q \in Int /\ q \notin Call /\ Shapes /\ Served(q) /\ Shown(q)
      /\ (\A x \in Question : Served(x)) /\ Honest(q) /\ Fed(q) /\ Recorded(q)
  BY Numbers DEF AnswersInv, Sound
<1>2. Shown(q)' /\ \E rec \in TurnRow, left \in Seq(WireFrame), r \in {"reading", "over"} :
              ReadTouches(q, rec, left, r)
  BY <1>1, ReadShown
<1>3. /\ UNCHANGED <<faults, pc, text, logs, broken, open>>
      /\ q \in DOMAIN turns /\ q \in DOMAIN turns' /\ wire'[q] \in Seq(WireFrame)
  BY <1>2 DEF ReadTouches
<1>4. turns[q] \in TurnRow /\ Got(q) \in Nat
  <2>1. turns[q] \in TurnRow
    BY <1>1, <1>3, ElementOfSeq DEF Shapes
  <2>2. turns[q].answer \in Seq(Fragment)
    BY <2>1 DEF TurnRow
  <2> QED BY <2>1, <2>2 DEF Got
<1>5. Recorded(q)' /\ KeptOf(q)' = KeptOf(q)
  BY <1>1, <1>3 DEF Recorded, KeptOf
<1> QED BY <1>1, <1>2, <1>3, <1>4, <1>5

LEMMA DeltaSounds ==
  ASSUME AnswersInv, NEW q \in Turn, Sound(q), Read(q), OnDelta(q)
  PROVE  Sound(q)' /\ Turned(q)
<1>1. /\ UNCHANGED <<faults, pc, text, logs, broken, open>>
      /\ q \in Question /\ q \in Int /\ q \notin Call /\ q \in DOMAIN turns /\ q \in DOMAIN turns'
      /\ Shapes /\ Shown(q) /\ Honest(q) /\ Fed(q) /\ turns[q] \in TurnRow /\ Got(q) \in Nat
      /\ Recorded(q) /\ Recorded(q)' /\ KeptOf(q)' = KeptOf(q) /\ MaxTokens \in Nat
  BY ReadLeaves, Numbers
<1>2. Handles(q, "delta") /\ reader' = reader
  BY DEF OnDelta
<1>3. /\ wire[q] \in Seq(WireFrame) /\ wire[q] # <<>> /\ Len(wire[q]) \in Nat \ {0}
      /\ Head(wire[q]) = wire[q][1] /\ wire[q][1].event = "delta" /\ FrameOK(q, 1)
      /\ wire' = [wire EXCEPT ![q] = Tail(wire[q])]
      /\ Len(Tail(wire[q])) = Len(wire[q]) - 1
      /\ \A k \in 1 .. Len(wire[q]) - 1 : Tail(wire[q])[k] = wire[q][k + 1]
  BY <1>1, <1>2, Takes
<1>4. PICK l \in Nat, left \in Seq(WireFrame) :
        /\ Len(wire[q]) = l + 1 /\ Len(left) = l /\ wire'[q] = left
        /\ \A k \in 1 .. l : left[k] = wire[q][k + 1]
  <2>1. PICK w \in Seq(WireFrame) : w = Tail(wire[q]) /\ wire'[q] = w
    <3>1. Tail(wire[q]) \in Seq(WireFrame)
      BY <1>3
    <3>2. wire'[q] = Tail(wire[q])
      BY <1>1, <1>3 DEF Shapes
    <3> QED BY <3>1, <3>2
  <2>2. PICK l \in Nat : Len(wire[q]) = l + 1
    <3>1. Len(wire[q]) - 1 \in Nat /\ Len(wire[q]) = (Len(wire[q]) - 1) + 1
      BY <1>3
    <3> QED BY <3>1
  <2>3. Len(w) = l /\ \A k \in 1 .. l : w[k] = wire[q][k + 1]
    BY <1>3, <2>1, <2>2
  <2> QED BY <2>1, <2>2, <2>3
<1>5. PICK n \in Nat : n = Got(q)
  BY <1>1
<1>6. /\ turns[q].streaming /\ ~Ended(q) /\ turns[q].answer = Prefix(q, n)
      /\ Head(wire[q]).text = <<<<q, n + 1>>>> /\ n + 1 <= MaxTokens
  BY <1>1, <1>3, <1>5 DEF FrameOK, Shown
<1>7. /\ turns'[q].answer = Prefix(q, n + 1) /\ turns'[q].streaming
      /\ turns'[q].feedback = turns[q].feedback
  <2>1. turns'[q] = [turns[q] EXCEPT !.answer = turns[q].answer \o Head(wire[q]).text]
    BY <1>1 DEF OnDelta, Shapes
  <2>2. turns[q].answer \o Head(wire[q]).text = Prefix(q, n + 1)
    BY <1>1, <1>6, PrefixExtends
  <2> QED BY <1>1, <1>6, <2>1, <2>2 DEF TurnRow
<1>8. Got(q)' = n + 1
  BY <1>1, <1>7, n + 1 \in Nat, PrefixIs DEF Got
<1>9. PICK m \in 0 .. MaxTokens : text[q] = Prefix(q, m) /\ n + 1 <= m
  BY <1>1, <1>3, <1>5 DEF Honest
<1>10. m \in Nat /\ n + 1 \in 0 .. MaxTokens /\ n + 1 \in Nat
  BY <1>1, <1>6
<1>11. Honest(q)'
  <2>1. Part(turns[q].answer, q)'
    <3>1. Prefix(q, n + 1)' = Prefix(q, n + 1) /\ Prefix(q, m)' = Prefix(q, m)
      BY DEF Prefix
    <3> QED BY <1>1, <1>7, <1>9, <1>10, <3>1 DEF Part
  <2>2. ASSUME NEW k \in 1 .. l, left[k].event = "delta"
        PROVE  \E x \in 0 .. MaxTokens : text[q] = Prefix(q, x) /\ Got(q)' + k <= x
    <3>1. k + 1 \in 1 .. Len(wire[q]) /\ wire[q][k + 1].event = "delta"
      BY <1>4, <2>2
    <3>2. PICK x \in 0 .. MaxTokens : text[q] = Prefix(q, x) /\ n + (k + 1) <= x
      BY <1>1, <1>5, <3>1 DEF Honest
    <3>3. x \in Nat /\ (n + 1) + k <= x
      BY <1>1, <3>2
    <3> QED BY <1>8, <3>2, <3>3
  <2> QED BY <1>1, <1>4, <1>7, <2>1, <2>2 DEF Honest, Prefix
<1>12. Fed(q)'
  <2> SUFFICES ASSUME "truncate" \notin faults, open
               PROVE  /\ reader[q] = "reading" /\ q \notin broken
                      /\ pc[q] = "over" => \E k \in 1 .. l : left[k].event \in Ends
    BY <1>1, <1>2, <1>4 DEF Fed
  <2>1. /\ reader[q] = "reading" /\ q \notin broken
        /\ pc[q] = "over" => \E k \in 1 .. Len(wire[q]) : wire[q][k].event \in Ends
    BY <1>1, <1>3, <1>6 DEF Fed, Streaming
  <2>2. ASSUME NEW k \in 1 .. Len(wire[q]), wire[q][k].event \in Ends
        PROVE  \E j \in 1 .. l : left[j].event \in Ends
    <3>1. k # 1
      BY <1>3, <2>2 DEF Ends
    <3>2. k - 1 \in 1 .. l /\ (k - 1) + 1 = k
      BY <1>4, <2>2, <3>1
    <3>3. left[k - 1] = wire[q][k]
      BY <1>4, <3>2
    <3> QED BY <2>2, <3>2, <3>3
  <2> QED BY <2>1, <2>2
<1>13. Reveals(q)
  <2>1. StageOf(q) = "open" /\ StageOf(q)' = "open"
    BY <1>1, <1>6, <1>7 DEF StageOf, Opened, Concluded, Closed, Ended
  <2>2. ShownOf(q) = Prefix(q, n) /\ ShownOf(q)' = Prefix(q, n + 1)
    BY <1>1, <1>6, <1>7 DEF ShownOf
  <2>3. Prefix(q, n + 1) \in Texts(q)
    BY <1>1, <1>10, TextsAre
  <2>4. Len(Prefix(q, n + 1)) = n + 1 /\ Len(Prefix(q, n)) = n
    BY <1>1, <1>10, PrefixIs
  <2>5. Book!IsPrefix(Prefix(q, n), Prefix(q, n + 1))
    BY <1>1, <1>10, PrefixBegins
  <2>6. \A k \in KeptOf(q) : Book!IsPrefix(Prefix(q, n + 1), k)
    <3>1. Book!IsPrefix(Prefix(q, n + 1), text[q])
      BY <1>1, <1>9, <1>10, PrefixBegins
    <3> QED BY <1>1, <3>1 DEF KeptOf, Recorded
  <2> QED BY <1>1, <2>1, <2>2, <2>3, <2>4, <2>5, <2>6 DEF Reveals
<1> QED BY <1>1, <1>11, <1>12, <1>13 DEF Sound, Turned

\* When a turn does not stream any more, no fragment is on its way.
LEMMA SettledSounds ==
  ASSUME AnswersInv, NEW q \in Turn, Sound(q), Read(q), ~turns'[q].streaming,
         turns'[q].answer = Failure \/ Part(turns'[q].answer, q),
         turns'[q].answer # <<>> \/ Ended(q)'
  PROVE  Sound(q)'
<1>1. /\ UNCHANGED <<text, open, faults>> /\ q \notin Call /\ Recorded(q)' /\ Shown(q)'
  BY ReadLeaves
<1>2. \A k \in 1 .. Len(wire'[q]) : wire'[q][k].event # "delta"
  BY <1>1 DEF Shown, FrameOK
<1>3. turns'[q].answer = Failure \/ Part(turns[q].answer, q)'
  BY <1>1 DEF Part, Prefix
<1>4. Honest(q)'
  BY <1>2, <1>3 DEF Honest
<1>5. Fed(q)'
  BY DEF Fed, Streaming
<1> QED BY <1>1, <1>4, <1>5 DEF Sound

LEMMA DoneSounds ==
  ASSUME AnswersInv, NEW q \in Turn, Sound(q), Read(q), OnDone(q)
  PROVE  Sound(q)' /\ Turned(q)
<1>1. /\ UNCHANGED <<faults, pc, text, logs, broken, open>>
      /\ q \in Question /\ q \in Int /\ q \notin Call /\ q \in DOMAIN turns /\ q \in DOMAIN turns'
      /\ Shapes /\ Served(q) /\ Shown(q) /\ turns[q] \in TurnRow /\ Got(q) \in Nat
      /\ Recorded(q) /\ KeptOf(q)' = KeptOf(q)
  BY ReadLeaves
<1>2. /\ turns[q].streaming /\ Head(wire[q]).text = text[q] /\ AllSaid(q, Got(q))
      /\ "db" \notin faults => logs[q] # NoRow /\ logs[q].answer = text[q]
  <2>1. FrameOK(q, 1) /\ wire[q][1].event = "done" /\ Head(wire[q]) = wire[q][1]
    <3>1. Handles(q, "done")
      BY DEF OnDone
    <3> QED BY <1>1, <3>1, Takes
  <2>2. Got(q) + 1 - 1 = Got(q)
    BY <1>1
  <2> QED BY <2>1, <2>2 DEF FrameOK
<1>3. ~Ended(q) /\ turns[q].answer = Prefix(q, Got(q))
  BY <1>1, <1>2 DEF Shown
<1>4. turns[q].answer \in {<<>>, text[q]}
  <2>1. Got(q) = 0 => turns[q].answer = <<>>
    BY <1>1, <1>3, PrefixIs
  <2> QED BY <1>2, <1>3, <2>1 DEF AllSaid
<1>5. /\ ~turns'[q].streaming /\ turns'[q].feedback = "none"
      /\ turns'[q].answer \in {turns[q].answer, text[q]}
  <2>1. PICK result : /\ result.text \in {text[q], <<>>}
                      /\ result = IF naming = "ts" THEN Head(wire[q]) ELSE Frame("done")
    <3>1. Frame("done").text = <<>> /\ Head(wire[q]).text = text[q]
      BY <1>2 DEF Frame
    <3>2. CASE naming = "ts"
      BY <3>1, <3>2
    <3>3. CASE naming # "ts"
      BY <3>1, <3>3
    <3> QED BY <3>2, <3>3
  <2>2. turns'[q] = [answer |-> IF turns[q].answer = <<>> THEN result.text ELSE turns[q].answer,
                     streaming |-> FALSE, logId |-> result.logId, feedback |-> "none"]
    BY <1>1, <2>1 DEF OnDone, Shapes
  <2> QED BY <2>1, <2>2
<1>6. Sound(q)'
  <2>1. Part(turns'[q].answer, q)
    BY <1>4, <1>5 DEF Part
  <2> QED BY <1>5, <2>1, SettledSounds DEF Ended
<1>7. Concludes(q)
  <2>1. StageOf(q) = "open" /\ StageOf(q)' = "concluded"
    BY <1>1, <1>2, <1>3, <1>5 DEF StageOf, Opened, Concluded, Closed, Ended
  <2>2. ShownOf(q) = turns[q].answer /\ ShownOf(q)' = turns'[q].answer
    BY <1>1 DEF ShownOf
  <2>3. KeptOf(q) \subseteq {text[q]} /\ ("db" \notin faults => KeptOf(q) = {text[q]})
    BY <1>1, <1>2 DEF KeptOf, Recorded
  <2> QED BY <1>1, <1>4, <1>5, <2>1, <2>2, <2>3 DEF Concludes, Served
<1> QED BY <1>6, <1>7 DEF Turned

LEMMA ErrorSounds ==
  ASSUME AnswersInv, NEW q \in Turn, Sound(q), Read(q), onError(q)
  PROVE  Sound(q)' /\ Turned(q)
<1>1. /\ UNCHANGED <<faults, pc, text, logs, broken, open>>
      /\ q \in Question /\ q \notin Call /\ q \in DOMAIN turns /\ q \in DOMAIN turns'
      /\ Shapes /\ Shown(q) /\ Honest(q) /\ turns[q] \in TurnRow
      /\ Recorded(q) /\ KeptOf(q)' = KeptOf(q)
  BY ReadLeaves
<1>2. /\ turns'[q].answer = IF turns[q].answer = <<>> THEN Failure ELSE turns[q].answer
      /\ ~turns'[q].streaming /\ (Ended(q)' <=> Ended(q))
  <2>1. turns'[q] = [turns[q] EXCEPT
          !.answer = IF turns[q].answer = <<>> THEN Failure ELSE turns[q].answer,
          !.streaming = FALSE]
    BY <1>1 DEF onError, Shapes
  <2> QED BY <1>1, <2>1 DEF TurnRow, Ended
<1>3. Sound(q)'
  <2>1. turns'[q].answer = Failure \/ Part(turns'[q].answer, q)
    BY <1>1, <1>2 DEF Honest
  <2>2. turns'[q].answer # <<>>
    BY <1>2, NoteIs
  <2> QED BY <1>2, <2>1, <2>2, SettledSounds
<1>4. ShownOf(q) = turns[q].answer /\ ShownOf(q)' = turns'[q].answer
  BY <1>1 DEF ShownOf
<1>5. CASE Ended(q)
  <2>1. StageOf(q) = "concluded" /\ StageOf(q)' = "concluded"
    BY <1>1, <1>2, <1>5 DEF StageOf, Opened, Concluded
  <2> QED BY <1>1, <1>2, <1>3, <1>4, <2>1 DEF BreaksLate, Turned
<1>6. CASE ~Ended(q) /\ turns[q].streaming
  <2>1. StageOf(q) = "open" /\ StageOf(q)' = "broken off"
    BY <1>1, <1>2, <1>6 DEF StageOf, Opened, Concluded, Closed
  <2> QED BY <1>1, <1>2, <1>3, <1>4, <2>1 DEF Breaks, Turned
<1>7. CASE ~Ended(q) /\ ~turns[q].streaming
  <2>1. StageOf(q) = "broken off" /\ StageOf(q)' = "broken off"
    BY <1>1, <1>2, <1>7 DEF StageOf, Opened, Concluded, Closed
  <2>2. turns'[q].answer = turns[q].answer
    BY <1>1, <1>2, <1>7 DEF Honest
  <2> QED BY <1>1, <1>3, <1>4, <2>1, <2>2 DEF Turned, Seen
<1> QED BY <1>5, <1>6, <1>7

LEMMA BodyEndSounds ==
  ASSUME AnswersInv, NEW q \in Turn, Sound(q), Read(q), BodyEnds(q)
  PROVE  Sound(q)' /\ Turned(q)
<1>1. /\ UNCHANGED <<faults, pc, text, logs, broken, open>>
      /\ q \in Question /\ q \notin Call /\ q \in DOMAIN turns
      /\ Shapes /\ Shown(q) /\ Honest(q) /\ Fed(q)
      /\ Recorded(q)' /\ KeptOf(q)' = KeptOf(q)
  BY ReadLeaves
<1>2. Handles(q, "eof") /\ turns' = turns
  BY DEF BodyEnds
<1>3. wire'[q] = <<>> /\ Len(wire'[q]) = 0
  <2>1. wire' = [wire EXCEPT ![q] = <<>>]
    BY <1>1, <1>2, LastTwo
  <2>2. wire'[q] = <<>>
    BY <1>1, <2>1 DEF Shapes
  <2> QED BY <2>2
<1>4. Honest(q)'
  <2>1. turns'[q].answer = Failure \/ Part(turns[q].answer, q)'
    BY <1>1, <1>2 DEF Honest, Part, Prefix
  <2> QED BY <1>1, <1>2, <1>3, <2>1 DEF Honest, Ended
<1>5. Fed(q)'
  <2> SUFFICES ASSUME "truncate" \notin faults, open, Streaming(q) PROVE FALSE
    BY <1>1, <1>2 DEF Fed, Streaming
  <2>1. /\ wire[q] # <<>> /\ wire[q][1].event = "eof" /\ FrameOK(q, 1)
        /\ Len(wire[q]) \in Nat
    BY <1>1, <1>2, Takes
  <2>2. Len(wire[q]) = 1 /\ (pc[q] = "over" \/ q \in broken)
    BY <2>1 DEF FrameOK
  <2>3. \E k \in 1 .. 1 : wire[q][k].event \in Ends
    BY <1>1, <2>1, <2>2 DEF Fed
  <2> QED BY <2>1, <2>3 DEF Ends
<1>6. Seen(q)' = Seen(q)
  BY <1>1, <1>2 DEF Seen, StageOf, ShownOf, Opened, Concluded, Closed, Ended
<1> QED BY <1>1, <1>4, <1>5, <1>6 DEF Sound, Turned

LEMMA ReadSounds ==
  ASSUME AnswersInv, NEW q \in Turn, Sound(q), Read(q)
  PROVE  Sound(q)' /\ Turned(q)
<1>1. CASE OnDelta(q)
  BY <1>1, DeltaSounds
<1>2. CASE OnDone(q)
  BY <1>2, DoneSounds
<1>3. CASE OnErrorEvent(q) \/ OnRefused(q) \/ ReadFails(q)
  BY <1>3, ErrorSounds DEF OnErrorEvent, OnRefused, ReadFails
<1>4. CASE BodyEnds(q)
  BY <1>4, BodyEndSounds
<1> QED BY <1>1, <1>2, <1>3, <1>4 DEF Read

-----------------------------------------------------------------------------
(* Every step.                                                             *)
OneTurned ==
  /\ faults' = faults
  /\ \E q \in Question : Turned(q) /\ \A i \in Question \ {q} : Seen(i)' = Seen(i)
NoneTurned == faults' = faults /\ \A i \in Question : Seen(i)' = Seen(i)

LEMMA ServeStep ==
  ASSUME TranscriptInv, NEW q \in Question, Serve(q)
  PROVE  (\A i \in Question : Sound(i)') /\ OneTurned
<1>1. AnswersInv /\ Shapes /\ (\A x \in Question : Served(x) /\ Sound(x))
      /\ \A x \in Turn : Shown(x)
  BY DEF TranscriptInv, AnswersInv
<1>2. /\ UNCHANGED <<faults, client, naming, broken, reader, turns, asking, open, votes>>
      /\ \A i \in Question \ {q} : /\ pc'[i] = pc[i] /\ text'[i] = text[i]
                                   /\ logs'[i] = logs[i] /\ wire'[i] = wire[i]
  BY <1>1, ServeTouches
<1>3. Sound(q)' /\ Turned(q)
  BY <1>1, ServeCall, ServeTurn DEF Question
<1>4. ASSUME NEW i \in Question \ {q} PROVE Sound(i)' /\ Seen(i)' = Seen(i)
  BY <1>1, <1>2, Rests DEF Ended
<1> QED BY <1>2, <1>3, <1>4 DEF OneTurned

LEMMA ReadStep ==
  ASSUME TranscriptInv, NEW q \in Turn, Read(q)
  PROVE  (\A i \in Question : Sound(i)') /\ OneTurned
<1>1. AnswersInv /\ Shapes /\ (\A x \in Question : Served(x) /\ Sound(x))
      /\ (\A x \in Turn : Shown(x)) /\ q \in Question
  BY Numbers DEF TranscriptInv, AnswersInv
<1>2. PICK rec \in TurnRow, left \in Seq(WireFrame), r \in {"reading", "over"} :
        ReadTouches(q, rec, left, r)
  BY <1>1, ReadShown
<1>3. /\ UNCHANGED <<faults, client, naming, pc, text, logs, broken, open, votes>>
      /\ DOMAIN turns' = DOMAIN turns /\ \A i \in DOMAIN turns \ {q} : turns'[i] = turns[i]
      /\ \A i \in Question \ {q} : wire'[i] = wire[i]
      /\ \A i \in Turn \ {q} : reader'[i] = reader[i]
  BY <1>2 DEF ReadTouches
<1>4. Sound(q)' /\ Turned(q)
  BY <1>1, ReadSounds
<1>5. ASSUME NEW i \in Question \ {q} PROVE Sound(i)' /\ Seen(i)' = Seen(i)
  BY <1>1, <1>3, Rests DEF Ended
<1> QED BY <1>1, <1>3, <1>4, <1>5 DEF OneTurned

LEMMA AskStep ==
  ASSUME TranscriptInv, Ask
  PROVE  (\A i \in Question : Sound(i)') /\ OneTurned
<1>1. AnswersInv /\ Shapes /\ (\A x \in Question : Served(x) /\ Sound(x))
      /\ \A x \in Turn : Shown(x)
  BY DEF TranscriptInv, AnswersInv
<1> DEFINE new == [answer |-> <<>>, streaming |-> TRUE, logId |-> NoId, feedback |-> "unset"]
<1>2. PICK q \in Turn :
        /\ q = Len(turns) + 1 /\ open /\ turns' = Append(turns, new)
        /\ pc' = [pc EXCEPT ![q] = "asked"] /\ reader' = [reader EXCEPT ![q] = "reading"]
        /\ UNCHANGED <<faults, text, logs, broken, wire, open>>
  BY DEF Ask
<1>3. q \in Question /\ q \notin Call /\ new \in TurnRow
  BY Numbers DEF TurnRow, NoId
<1>4. /\ q \notin DOMAIN turns /\ DOMAIN turns' = DOMAIN turns \cup {q} /\ turns'[q] = new
      /\ \A i \in DOMAIN turns : turns'[i] = turns[i]
  <2> HIDE DEF new
  <2>1. Len(turns) \in Nat /\ DOMAIN turns = 1 .. Len(turns)
    BY <1>1 DEF Shapes
  <2>2. /\ turns' \in Seq(TurnRow) /\ Len(turns') = Len(turns) + 1 /\ turns'[q] = new
        /\ \A i \in 1 .. Len(turns) : turns'[i] = turns[i]
    BY <1>1, <1>2, <1>3, AppendProperties DEF Shapes
  <2>3. DOMAIN turns' = 1 .. Len(turns) + 1
    BY <2>2
  <2> QED BY <1>2, <2>1, <2>2, <2>3
<1>5. pc[q] = "idle" /\ wire[q] = <<>> /\ q \notin broken /\ pc'[q] = "asked" /\ reader'[q] = "reading"
      /\ Recorded(q) /\ Len(wire[q]) = 0
  BY <1>1, <1>2, <1>3, <1>4 DEF Shown, Shapes, Sound
<1>6. Recorded(q)' /\ KeptOf(q)' = KeptOf(q)
  BY <1>2, <1>5 DEF Recorded, KeptOf
<1>7. Honest(q)' /\ Fed(q)'
  BY <1>2, <1>4, <1>5 DEF Honest, Fed, Part
<1>8. Begins(q)
  <2>1. StageOf(q) = "unasked" /\ ShownOf(q) = <<>>
    BY <1>3, <1>4 DEF StageOf, Opened, ShownOf
  <2>2. StageOf(q)' = "open" /\ ShownOf(q)' = <<>>
    BY <1>3, <1>4 DEF StageOf, Opened, Concluded, Ended, Closed, ShownOf
  <2> QED BY <1>6, <2>1, <2>2 DEF Begins
<1>9. ASSUME NEW i \in Question \ {q} PROVE Sound(i)' /\ Seen(i)' = Seen(i)
  <2>1. /\ i \in DOMAIN turns' <=> i \in DOMAIN turns
        /\ i \in DOMAIN turns => turns'[i] = turns[i]
    BY <1>4
  <2>2. pc'[i] = pc[i] /\ (i \in Turn => reader'[i] = reader[i])
    BY <1>1, <1>2 DEF Shapes
  <2> QED BY <1>1, <1>2, <2>1, <2>2, Rests DEF Ended
<1> QED BY <1>2, <1>3, <1>6, <1>7, <1>8, <1>9 DEF OneTurned, Turned, Sound

LEMMA WorldStep ==
  ASSUME TranscriptInv, World
  PROVE  (\A i \in Question : Sound(i)') /\ (OneTurned \/ NoneTurned)
<1>1. /\ AnswersInv /\ Shapes /\ (\A x \in Question : Served(x) /\ Sound(x))
      /\ (\A x \in Turn : Shown(x)) /\ (\A x \in Call : Told(x))
      /\ UNCHANGED <<faults, text, logs, reader, turns>>
  BY DEF TranscriptInv, AnswersInv, World
<1>2. ASSUME NEW q \in Call, CallAsk(q)
      PROVE  (\A i \in Question : Sound(i)') /\ OneTurned
  <2>1. q \in Question /\ q \notin Turn /\ q \notin DOMAIN turns
    BY <1>1, Numbers DEF Shapes
  <2>2. /\ pc[q] = "idle" /\ pc' = [pc EXCEPT ![q] = "asked"] /\ pc'[q] = "asked"
        /\ UNCHANGED <<broken, wire, open>> /\ wire[q] = <<>> /\ Recorded(q)
    BY <1>1, <1>2, <2>1 DEF CallAsk, Told, Shapes, Sound
  <2>3. Recorded(q)' /\ KeptOf(q)' = KeptOf(q)
    BY <1>1, <2>2 DEF Recorded, KeptOf
  <2>4. ~Replied(q) /\ ~Replied(q)'
    BY <2>2 DEF Replied
  <2>5. Begins(q)
    BY <1>1, <2>1, <2>2, <2>3, <2>4
       DEF Begins, StageOf, ShownOf, Opened, Concluded, Closed
  <2>6. ASSUME NEW i \in Question \ {q} PROVE Sound(i)' /\ Seen(i)' = Seen(i)
    <3>1. pc'[i] = pc[i]
      BY <1>1, <2>2 DEF Shapes
    <3> QED BY <1>1, <2>2, <3>1, Rests DEF Ended
  <2> QED BY <1>1, <2>1, <2>3, <2>4, <2>5, <2>6 DEF OneTurned, Turned, Sound, Replies
<1>3. ASSUME NEW q \in Question, Cut(q)
      PROVE  (\A i \in Question : Sound(i)') /\ NoneTurned
  <2>1. /\ broken' = broken \cup {q} /\ wire' = [wire EXCEPT ![q] = <<>>]
        /\ wire'[q] = <<>> /\ Len(wire'[q]) = 0 /\ UNCHANGED <<pc, open>>
    <3>1. wire'[q] = <<>>
      BY <1>1, <1>3 DEF Cut, Shapes
    <3> QED BY <1>3, <3>1 DEF Cut
  <2>2. Recorded(q)' /\ KeptOf(q)' = KeptOf(q)
    BY <1>1, <2>1 DEF Recorded, KeptOf, Sound
  <2>3. ASSUME q \in Turn PROVE Sound(q)' /\ Seen(q)' = Seen(q)
    <3>1. q \notin Call /\ Honest(q) /\ Fed(q) /\ Shown(q)
      BY <1>1, <2>3, Numbers DEF Sound
    <3>2. Honest(q)'
      <4>1. q \in DOMAIN turns => turns'[q].answer = Failure \/ Part(turns[q].answer, q)'
        BY <1>1, <3>1 DEF Honest, Part, Prefix
      <4> QED BY <1>1, <2>1, <3>1, <4>1 DEF Honest, Ended
    <3>3. Fed(q)'
      BY <1>1, <2>1, <3>1 DEF Fed, Streaming
    <3>4. Seen(q)' = Seen(q)
      BY <1>1, <2>2, <2>3, <3>1
         DEF Seen, StageOf, ShownOf, Opened, Concluded, Closed, Ended
    <3> QED BY <2>2, <3>1, <3>2, <3>3, <3>4 DEF Sound
  <2>4. ASSUME q \in Call PROVE Sound(q)' /\ Seen(q)' = Seen(q)
    <3>1. q \notin Turn /\ wire[q] = <<>> /\ q \notin DOMAIN turns
      BY <1>1, <1>3, <2>4, Numbers DEF Cut, Told, Shapes
    <3>2. ~Replied(q) /\ ~Replied(q)'
      BY <2>1, <3>1 DEF Replied
    <3>3. Seen(q)' = Seen(q)
      BY <1>1, <2>1, <2>2, <2>4, <3>1, <3>2
         DEF Seen, StageOf, ShownOf, Opened, Concluded, Closed
    <3> QED BY <2>2, <3>1, <3>2, <3>3 DEF Sound, Replies
  <2>5. Sound(q)' /\ Seen(q)' = Seen(q)
    BY <2>3, <2>4 DEF Question
  <2>6. ASSUME NEW i \in Question \ {q} PROVE Sound(i)' /\ Seen(i)' = Seen(i)
    <3>1. wire'[i] = wire[i] /\ (i \in broken' <=> i \in broken)
      BY <1>1, <2>1 DEF Shapes
    <3> QED BY <1>1, <2>1, <3>1, Rests DEF Ended
  <2> QED BY <1>1, <2>5, <2>6 DEF NoneTurned
<1>4. ASSUME NEW q \in Turn, Truncate(q)
      PROVE  (\A i \in Question : Sound(i)') /\ NoneTurned
  <2>1. /\ broken' = broken \cup {q} /\ wire' = [wire EXCEPT ![q] = Append(wire[q], Frame("eof"))]
        /\ UNCHANGED <<pc, open>> /\ "truncate" \in faults
        /\ q \in Question /\ q \notin Call /\ Honest(q)
    BY <1>1, <1>4, Numbers DEF Truncate, Sound
  <2>2. Recorded(q)' /\ KeptOf(q)' = KeptOf(q)
    BY <1>1, <2>1 DEF Recorded, KeptOf, Sound
  <2>3. \A k \in 1 .. Len(wire'[q]) : wire'[q][k].event = "delta" =>
          k \in 1 .. Len(wire[q]) /\ wire[q][k].event = "delta"
    <3>1. PICK f \in WireFrame : f = Frame("eof") /\ f.event = "eof"
      BY <1>1, <2>1, FramesAre DEF Frame
    <3>2. PICK w \in Seq(WireFrame) : w = wire[q]
      BY <1>1, <2>1 DEF Shapes
    <3>3. /\ Len(wire'[q]) = Len(w) + 1 /\ wire'[q][Len(w) + 1] = f
          /\ \A k \in 1 .. Len(w) : wire'[q][k] = w[k]
      <4>1. wire'[q] = w \o <<f>>
        BY <1>1, <2>1, <3>1, <3>2, OneMore DEF Shapes
      <4> QED BY <3>1, <4>1, OneMore
    <3> QED BY <3>1, <3>2, <3>3
  <2>4. Honest(q)'
    <3>1. q \in DOMAIN turns => turns'[q].answer = Failure \/ Part(turns[q].answer, q)'
      BY <1>1, <2>1 DEF Honest, Part, Prefix
    <3>2. Got(q)' = Got(q)
      BY <1>1 DEF Got
    <3> QED BY <1>1, <2>1, <2>3, <3>1, <3>2 DEF Honest, Ended, Prefix
  <2>5. Seen(q)' = Seen(q) /\ Fed(q)'
    BY <1>1, <2>1, <2>2
       DEF Seen, StageOf, ShownOf, Opened, Concluded, Closed, Ended, Fed
  <2>6. ASSUME NEW i \in Question \ {q} PROVE Sound(i)' /\ Seen(i)' = Seen(i)
    <3>1. wire'[i] = wire[i] /\ (i \in broken' <=> i \in broken)
      BY <1>1, <2>1 DEF Shapes
    <3> QED BY <1>1, <2>1, <3>1, Rests DEF Ended
  <2> QED BY <1>1, <2>1, <2>2, <2>4, <2>5, <2>6 DEF NoneTurned, Sound
<1>5. ASSUME Leave
      PROVE  (\A i \in Question : Sound(i)') /\ NoneTurned
  <2>1. ~open' /\ UNCHANGED <<pc, wire>>
    BY <1>5 DEF Leave
  <2>2. ASSUME NEW i \in Question PROVE Sound(i)' /\ Seen(i)' = Seen(i)
    BY <1>1, <2>1, Rests DEF Ended
  <2> QED BY <1>1, <2>2 DEF NoneTurned
<1> QED BY <1>2, <1>3, <1>4, <1>5 DEF World

\* A vote changes neither an answer nor the row that keeps it.
LEMMA VoteStep ==
  ASSUME TranscriptInv, NEW n \in Vote, Feedback(n)
  PROVE  (\A i \in Question : Sound(i)') /\ NoneTurned
<1>1. /\ AnswersInv /\ Shapes /\ (\A x \in Question : Served(x) /\ Sound(x))
      /\ (\A x \in Turn : Shown(x))
      /\ UNCHANGED <<faults, pc, text, broken, wire, reader, open>>
  BY DEF TranscriptInv, AnswersInv, Feedback
<1>2. ASSUME NEW i \in Question
      PROVE  logs'[i].answer = logs[i].answer /\ (logs'[i] = NoRow <=> logs[i] = NoRow)
  <2>1. CASE SetFeedback(n)
    <3>1. votes[n].state = "sent" /\ votes[n] \in VoteRow
      BY <1>1, <2>1 DEF SetFeedback, Shapes
    <3>2. votes[n] # Unused /\ votes[n].sent \in {"up", "down"}
      BY <1>1, <3>1, VotedTurn DEF AnswersInv, Cast
    <3>3. logs[i] \in LogRow(i)
      BY <1>1 DEF Served
    <3>4. logs'[i] = IF i # votes[n].turn \/ logs[i] = NoRow THEN logs[i]
                     ELSE [logs[i] EXCEPT !.feedback = votes[n].sent]
      BY <1>1, <2>1 DEF SetFeedback, Shapes
    <3>5. CASE logs'[i] = logs[i]
      BY <3>5
    <3>6. CASE logs[i] # NoRow /\ logs'[i] = [logs[i] EXCEPT !.feedback = votes[n].sent]
      <4>1. logs'[i].answer = logs[i].answer /\ logs'[i].feedback = votes[n].sent
        BY <3>3, <3>6 DEF LogRow
      <4>2. NoRow.feedback = "no row"
        BY DEF NoRow
      <4> QED BY <3>2, <3>6, <4>1, <4>2
    <3> QED BY <3>4, <3>5, <3>6
  <2>2. CASE ~SetFeedback(n)
    BY <2>2 DEF Feedback, ClickVote, SetFeedbackFails, VoteReply
  <2> QED BY <2>1, <2>2
<1>3. /\ DOMAIN turns' = DOMAIN turns
      /\ \A i \in DOMAIN turns :
           /\ turns'[i].answer = turns[i].answer /\ turns'[i].streaming = turns[i].streaming
           /\ (Ended(i)' <=> Ended(i))
  <2>1. CASE turns' = turns
    BY <2>1 DEF Ended
  <2>2. CASE VoteReply(n) /\ turns' = [turns EXCEPT ![votes[n].turn].feedback = votes[n].shown]
    <3>1. votes[n].state \in {"served", "failed"}
      BY <2>2 DEF VoteReply
    <3>2. votes[n] # Unused /\ Ended(votes[n].turn) /\ votes[n].shown \in {"none", "up", "down"}
      BY <1>1, <3>1, VotedTurn DEF AnswersInv, Cast
    <3>3. DOMAIN turns' = DOMAIN turns
      BY <2>2
    <3>4. ASSUME NEW i \in DOMAIN turns
          PROVE  /\ turns'[i].answer = turns[i].answer
                 /\ turns'[i].streaming = turns[i].streaming /\ (Ended(i)' <=> Ended(i))
      <4>1. turns[i] \in TurnRow
        BY <1>1, ElementOfSeq DEF Shapes
      <4>2. turns'[i] = IF i = votes[n].turn THEN [turns[i] EXCEPT !.feedback = votes[n].shown]
                        ELSE turns[i]
        BY <2>2
      <4> QED BY <3>2, <4>1, <4>2 DEF Ended, TurnRow
    <3> QED BY <3>3, <3>4
  <2> QED BY <2>1, <2>2 DEF Feedback, ClickVote, SetFeedback, SetFeedbackFails, VoteReply
<1>4. ASSUME NEW i \in Question PROVE Sound(i)' /\ Seen(i)' = Seen(i)
  BY <1>1, <1>2, <1>3, Rests
<1> QED BY <1>1, <1>4 DEF NoneTurned

LEMMA TranscriptStep ==
  ASSUME TranscriptInv, [Next]_vars
  PROVE  TranscriptInv' /\ (OneTurned \/ NoneTurned)
<1>1. AnswersInv'
  BY AnswersStep DEF TranscriptInv
<1>2. CASE \E q \in Question : Serve(q)
  BY <1>1, <1>2, ServeStep DEF TranscriptInv
<1>3. CASE \E q \in Turn : Read(q)
  BY <1>1, <1>3, ReadStep DEF TranscriptInv
<1>4. CASE \E n \in Vote : Feedback(n)
  BY <1>1, <1>4, VoteStep DEF TranscriptInv
<1>5. CASE Ask
  BY <1>1, <1>5, AskStep DEF TranscriptInv
<1>6. CASE World
  BY <1>1, <1>6, WorldStep DEF TranscriptInv
<1>7. CASE UNCHANGED vars
  <2>1. UNCHANGED <<faults, pc, text, logs, broken, wire, reader, turns, open>>
    BY <1>7 DEF vars
  <2>2. ASSUME NEW i \in Question PROVE Sound(i)' /\ Seen(i)' = Seen(i)
    BY <2>1, Rests DEF TranscriptInv, AnswersInv, Ended
  <2> QED BY <1>1, <2>1, <2>2 DEF TranscriptInv, NoneTurned
<1> QED BY <1>2, <1>3, <1>4, <1>5, <1>6, <1>7 DEF Next

LEMMA TranscriptInit ==
  ASSUME Init
  PROVE  TranscriptInv
<1>1. AnswersInv
  BY AnswersInit
<1>2. ASSUME NEW q \in Question PROVE Sound(q)
  <2>1. logs[q] = NoRow /\ wire[q] = <<>> /\ Len(wire[q]) = 0 /\ q \notin DOMAIN turns
    BY <1>2 DEF Init
  <2> QED BY <2>1 DEF Sound, Recorded, Honest, Fed, Streaming, Replies, Replied
<1> QED BY <1>1, <1>2 DEF TranscriptInv

-----------------------------------------------------------------------------
(* The theorems.                                                           *)
\* However a stream, a connection or the database fails: a turn shows the failure
\* or the beginning of what its handler has of the answer, and qa_logs has
\* nothing or all of that.
THEOREM TranscriptInvariant == Spec => []TranscriptInv
<1>1. Init => TranscriptInv
  BY TranscriptInit
<1>2. TranscriptInv /\ [Next]_vars => TranscriptInv'
  BY TranscriptStep
<1> QED BY <1>1, <1>2, PTL DEF Spec

\* The history tells what the user has seen: the text in the row of a turn begins
\* with what the turn shows, though the stream, the connection or the database
\* failed, and the row of a call is what its client was told.
ShownIsOfKept ==
  \A q \in Question : logs[q] # NoRow =>
    /\ q \in DOMAIN turns => \/ turns[q].answer = Failure
                             \/ Book!IsPrefix(turns[q].answer, logs[q].answer)
    /\ q \in Call /\ Replied(q) => Head(wire[q]).text = logs[q].answer

\* A row of qa_logs that is there agrees with the page and with the reply,
\* whatever mishap befell the answer.
THEOREM ShownWasKept == Spec => []ShownIsOfKept
<1>1. TranscriptInv => ShownIsOfKept
  <2> SUFFICES ASSUME TranscriptInv, NEW q \in Question, logs[q] # NoRow
               PROVE  /\ q \in DOMAIN turns => \/ turns[q].answer = Failure
                                               \/ Book!IsPrefix(turns[q].answer, logs[q].answer)
                      /\ q \in Call /\ Replied(q) => Head(wire[q]).text = logs[q].answer
    BY DEF ShownIsOfKept
  <2>1. Served(q) /\ Sound(q) /\ logs[q].answer = text[q]
    BY DEF TranscriptInv, AnswersInv, Sound, Recorded
  <2>2. ASSUME q \in DOMAIN turns, turns[q].answer # Failure
        PROVE  Book!IsPrefix(turns[q].answer, text[q])
    <3>1. q \in Turn
      BY <2>2 DEF TranscriptInv, AnswersInv, Shapes
    <3>2. Part(turns[q].answer, q)
      BY <2>1, <2>2, <3>1 DEF Sound, Honest
    <3> QED BY <2>1, <3>2, PartBegins
  <2> QED BY <2>1, <2>2 DEF Sound, Replies
<1> QED BY <1>1, TranscriptInvariant, PTL

\* While a turn streams its loop reads, and its end is to come from the handler
\* or the wire or as the error of a broken connection, unless something between
\* them ends a body early.
THEOREM TurnsAreFed == Spec => []TurnIsFed
<1>1. TranscriptInv => TurnIsFed
  <2> SUFFICES ASSUME TranscriptInv, "truncate" \notin faults, open, NEW i \in Turn, Streaming(i)
               PROVE  /\ reader[i] = "reading"
                      /\ IF i \in broken THEN wire[i] = <<>>
                         ELSE pc[i] = "over"
                                => \E k \in DOMAIN wire[i] : wire[i][k].event \in Ends
    BY DEF TurnIsFed
  <2>1. Fed(i) /\ wire[i] \in Seq(WireFrame)
    BY Numbers DEF TranscriptInv, Sound, AnswersInv, Shapes
  <2>2. DOMAIN wire[i] = 1 .. Len(wire[i])
    BY <2>1
  <2> QED BY <2>1, <2>2 DEF Fed
<1> QED BY <1>1, TranscriptInvariant, PTL

\* What pages, handlers, streams, votes and mishaps do is what Transcript allows:
\* an answer is revealed fragment by fragment, kept once and as it is shown, and
\* concluded only when it is kept, unless the database failed.
THEOREM AnswersImplementTranscript == Spec => ImplementsTranscript
<1>1. Init => Book!Init
  <2> SUFFICES ASSUME Init PROVE Book!Init
    OBVIOUS
  <2>1. ASSUME NEW q \in Question
        PROVE  StageOf(q) = "unasked" /\ ShownOf(q) = <<>> /\ logs[q] = NoRow
    <3>1. /\ logs[q] = NoRow /\ q \notin DOMAIN turns /\ pc[q] = "idle" /\ wire[q] = <<>>
      BY DEF Init
    <3> QED BY <3>1 DEF StageOf, ShownOf, Opened, Replied
  <2> QED BY <2>1 DEF Book!Init
<1>2. TranscriptInv /\ [Next]_vars => [Book!Next]_(Book!transcriptVars)
  <2> SUFFICES ASSUME TranscriptInv, [Next]_vars
               PROVE  [Book!Next]_(Book!transcriptVars)
    OBVIOUS
  <2>1. CASE OneTurned
    BY <2>1, StepOfOne DEF OneTurned
  <2>2. CASE NoneTurned
    <3>1. \A i \in Question : StageOf(i)' = StageOf(i) /\ ShownOf(i)' = ShownOf(i)
                              /\ KeptOf(i)' = KeptOf(i)
      BY <2>2 DEF NoneTurned, Seen
    <3> QED BY <2>2, <3>1 DEF NoneTurned, KeptOf, Book!transcriptVars
  <2> QED BY <2>1, <2>2, TranscriptStep
<1> QED BY <1>1, <1>2, TranscriptInvariant, PTL DEF Spec, ImplementsTranscript, Book!Spec
=============================================================================
