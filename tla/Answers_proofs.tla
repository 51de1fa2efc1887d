---------------------------- MODULE Answers_proofs ----------------------------
(***************************************************************************)
(* Theorems about questions and answers, for any numbers of turns, calls,  *)
(* fragments and votes and any mishaps. All that connects what a handler   *)
(* has said, what is on the wire and what the page shows is told for one   *)
(* question at a time: Served is about its handler, Shown about a turn of  *)
(* the page, Told about a call of another client. A step changes one       *)
(* question and leaves the others as they are (QuestionKeeps, TurnKeeps).  *)
(***************************************************************************)
EXTENDS Answers, TLAPS, SequenceTheorems

\* The beginning of an answer, by how many fragments it has.
Prefix(q, n) == [k \in 1 .. n |-> <<q, k>>]
Got(q) == Len(turns[q].answer)

Fragment == (Int \X Int)
Stage == {"idle", "asked", "answering", "answered", "logged", "over"}
LogRow(q) == [answer : Texts(q), feedback : {"no row", "none", "up", "down"}]
TurnRow == [answer : Seq(Fragment), streaming : BOOLEAN, logId : Int,
            feedback : {"unset", "none", "up", "down"}]
WireFrame == [event : {"delta", "done", "error", "refused", "eof", "reply"},
              text : Seq(Fragment), logId : Int]
VoteRow == [turn : Int, sent : {"", "up", "down"}, shown : {"", "none", "up", "down"},
            state : {"unused", "sent", "served", "failed", "over"}]

Shapes ==
  /\ broken \subseteq Question /\ reader \in [Turn -> {"idle", "reading", "over"}]
  /\ asking \in BOOLEAN /\ open \in BOOLEAN
  /\ pc \in [Question -> Stage]
  /\ DOMAIN text = Question /\ DOMAIN logs = Question
  /\ wire \in [Question -> Seq(WireFrame)]
  /\ turns \in Seq(TurnRow) /\ DOMAIN turns \subseteq Turn
  /\ votes \in [Vote -> VoteRow]

\* The handler of a question, and the row it has written.
Served(q) ==
  /\ text[q] \in Texts(q) /\ logs[q] \in LogRow(q)
  /\ pc[q] \in {"idle", "asked"} => text[q] = <<>>
  /\ pc[q] = "answering" => \E n \in 0 .. MaxTokens : text[q] = Prefix(q, n)
  /\ pc[q] = "logged" /\ q \notin broken /\ "db" \notin faults
       => logs[q] # NoRow /\ logs[q].answer = text[q]

\* What is on the wire to another client.
Told(q) ==
  wire[q] # <<>> =>
    /\ pc[q] = "over"
    /\ Head(wire[q]).event = "reply" /\ "db" \notin faults
         => logs[q].answer = Head(wire[q]).text

\* The text of an answer is all that the page has and is going to have: n
\* fragments, or the note if there are none.
AllSaid(q, n) == text[q] = Prefix(q, n) \/ (n = 0 /\ text[q] = Note)

\* A frame on the wire to the page. Only the end of the body comes to a turn
\* that has settled.
FrameOK(q, k) ==
  LET f == wire[q][k]
  IN  /\ f.event # "reply"
      /\ f.event # "eof" => turns[q].streaming /\ reader[q] = "reading"
      /\ f.event = "delta" => f.text = <<<<q, Got(q) + k>>>> /\ Got(q) + k <= MaxTokens
      /\ f.event \in {"eof", "refused"} => k = Len(wire[q])
      /\ f.event \in {"done", "error"} =>
           k = Len(wire[q]) - 1 /\ wire[q][k + 1].event = "eof"
      /\ f.event \notin {"delta", "eof"} => pc[q] = "over"
      /\ f.event = "eof" => pc[q] = "over" \/ q \in broken
      /\ f.event = "done" =>
           /\ pc[q] = "over" /\ f.text = text[q] /\ f.logId = q
           /\ AllSaid(q, Got(q) + k - 1)
           /\ "db" \notin faults => logs[q] # NoRow /\ logs[q].answer = text[q]

\* A turn of the page.
Shown(q) ==
  /\ q \in DOMAIN turns <=> pc[q] # "idle"
  /\ reader[q] = "idle" <=> pc[q] = "idle"
  /\ pc[q] = "idle" => wire[q] = <<>> /\ (open => q \notin broken)
  /\ reader[q] = "over" => pc[q] = "over" \/ q \in broken
  /\ ~open => q \in broken
  /\ "cut" \notin faults /\ open /\ q \in broken /\ reader[q] = "reading"
       => wire[q] # <<>> /\ wire[q][Len(wire[q])].event = "eof"
  /\ \A k \in 1 .. Len(wire[q]) : FrameOK(q, k)
  /\ pc[q] \in {"asked", "answering", "answered", "logged"} /\ q \notin broken =>
       /\ \A k \in 1 .. Len(wire[q]) : wire[q][k].event = "delta"
       /\ AllSaid(q, Got(q) + Len(wire[q]))
  /\ q \in DOMAIN turns =>
       /\ turns[q].answer \in Texts(q) \cup {Failure}
       /\ turns[q].logId \in {NoId, q}
       /\ turns[q].streaming =>
            /\ ~Ended(q)
            /\ Got(q) <= MaxTokens /\ turns[q].answer = Prefix(q, Got(q))
       /\ ~turns[q].streaming => pc[q] = "over" \/ reader[q] = "over"
       /\ turns[q].logId # NoId => Ended(q)
       /\ Ended(q) =>
            /\ pc[q] = "over"
            /\ "db" \notin faults =>
                 logs[q] # NoRow /\ turns[q].answer \in {<<>>, Failure, logs[q].answer}

\* At most one turn streams, as long as no connection breaks after its end.
OneStreams ==
  "cut" \notin faults =>
    /\ asking <=> \E i \in DOMAIN turns : turns[i].streaming
    /\ \A i, j \in DOMAIN turns : turns[i].streaming /\ turns[j].streaming => i = j

\* A vote was given for a turn with an id.
Cast(n) ==
  votes[n] # Unused =>
    /\ votes[n].turn \in DOMAIN turns /\ turns[votes[n].turn].logId # NoId
    /\ votes[n].sent \in {"up", "down"} /\ votes[n].shown \in {"none", "up", "down"}
    /\ votes[n].shown # "none" => votes[n].sent = votes[n].shown
    /\ votes[n].state \in {"sent", "served", "failed", "over"}

Flying(n) == votes[n].state \in {"sent", "served", "failed"}

\* Where votes neither are lost nor overtake each other, a turn has one at a
\* time, and the row is as the page shows it or as the vote just served says.
VotesAgree ==
  faults \cap {"db", "cut", "hasty"} = {} =>
    /\ \A m, n \in Vote : Flying(m) /\ Flying(n) /\ votes[m].turn = votes[n].turn => m = n
    /\ \A n \in Vote : votes[n].state = "served" => logs[votes[n].turn].feedback = votes[n].sent
    /\ \A i \in DOMAIN turns :
         turns[i].feedback \in {"up", "down"}
           => \/ logs[i].feedback = turns[i].feedback
              \/ \E n \in Vote : votes[n].state = "served" /\ votes[n].turn = i

AnswersInv ==
  /\ Shapes
  /\ \A q \in Question : Served(q)
  /\ \A q \in Call : Told(q)
  /\ \A q \in Turn : Shown(q)
  /\ OneStreams
  /\ \A n \in Vote : Cast(n)
  /\ VotesAgree

-----------------------------------------------------------------------------
(* Texts, frames and sequences of them.                                    *)
LEMMA Numbers ==
  /\ MaxTurns \in Nat /\ MaxCalls \in Nat /\ MaxTokens \in Nat /\ MaxVotes \in Nat
  /\ Question \subseteq Int /\ Turn \subseteq Question /\ Call \subseteq Question
  /\ \A q \in Question : q # NoId /\ q # 0
  /\ \A q \in Turn : q \notin Call
<1>1. MaxTurns \in Nat /\ MaxCalls \in Nat /\ MaxTokens \in Nat /\ MaxVotes \in Nat
  BY AnswersAssumption
<1> QED BY <1>1 DEF Question, Turn, Call, NoId

LEMMA PrefixIs ==
  ASSUME NEW q \in Int, NEW n \in Nat
  PROVE  /\ Prefix(q, n) \in Seq(Fragment) /\ Len(Prefix(q, n)) = n
         /\ Prefix(q, n) = <<>> <=> n = 0
<1>1. Prefix(q, n) \in [1 .. n -> Fragment]
  BY DEF Prefix, Fragment
<1>2. Prefix(q, n) \in Seq(Fragment) /\ Len(Prefix(q, n)) = n
  BY <1>1
<1>3. CASE n = 0
  BY <1>2, <1>3
<1>4. CASE n # 0
  BY <1>2, <1>4
<1> QED BY <1>2, <1>3, <1>4

LEMMA PrefixExtends ==
  ASSUME NEW q \in Int, NEW n \in Nat
  PROVE  /\ Append(Prefix(q, n), <<q, n + 1>>) = Prefix(q, n + 1)
         /\ Prefix(q, n) \o <<<<q, n + 1>>>> = Prefix(q, n + 1)
<1>1. Prefix(q, n) \in Seq(Fragment) /\ Len(Prefix(q, n)) = n
      /\ Prefix(q, n + 1) \in Seq(Fragment) /\ Len(Prefix(q, n + 1)) = n + 1
  BY PrefixIs, n + 1 \in Nat
<1>2. <<q, n + 1>> \in Fragment
  BY DEF Fragment
<1>3. PICK longer \in Seq(Fragment) :
        /\ longer = Append(Prefix(q, n), <<q, n + 1>>) /\ Len(longer) = n + 1
        /\ \A k \in 1 .. n : longer[k] = Prefix(q, n)[k]
        /\ longer[n + 1] = <<q, n + 1>>
  <2>1. ASSUME NEW s \in Seq(Fragment), NEW e \in Fragment, Len(s) = n
        PROVE  /\ Append(s, e) \in Seq(Fragment) /\ Len(Append(s, e)) = n + 1
               /\ \A k \in 1 .. n : Append(s, e)[k] = s[k]
               /\ Append(s, e)[n + 1] = e
    BY <2>1, AppendProperties
  <2> QED BY <1>1, <1>2, <2>1, Zenon
<1>4. \A k \in 1 .. n + 1 : longer[k] = Prefix(q, n + 1)[k]
  BY <1>3 DEF Prefix
<1>5. longer = Prefix(q, n + 1)
  BY <1>1, <1>3, <1>4, SeqEqual
<1>6. Append(Prefix(q, n), <<q, n + 1>>) = Prefix(q, n) \o <<<<q, n + 1>>>>
  BY <1>1, <1>2, AppendIsConcat
<1> QED BY <1>3, <1>5, <1>6

LEMMA NoteIs ==
  /\ Note \in Seq(Fragment) /\ Len(Note) = 1 /\ Note # <<>>
  /\ Failure \in Seq(Fragment) /\ Failure # <<>>
BY DEF Note, Failure, Fragment

LEMMA TextsAre ==
  ASSUME NEW q \in Question
  PROVE  /\ Texts(q) = {Prefix(q, n) : n \in 0 .. MaxTokens} \cup {Note}
         /\ Texts(q) \subseteq Seq(Fragment) /\ <<>> \in Texts(q)
<1>1. Texts(q) = {Prefix(q, n) : n \in 0 .. MaxTokens} \cup {Note}
  BY DEF Texts, Prefix
<1>2. \A n \in 0 .. MaxTokens : Prefix(q, n) \in Seq(Fragment)
  BY Numbers, PrefixIs
<1>3. Prefix(q, 0) = <<>> /\ 0 \in 0 .. MaxTokens
  BY Numbers, PrefixIs
<1>4. <<>> \in Texts(q)
  BY <1>1, <1>3
<1>5. Texts(q) \subseteq Seq(Fragment)
  BY <1>1, <1>2, NoteIs
<1> QED BY <1>1, <1>4, <1>5

\* A frame or two at the end of what is on the wire.
LEMMA OneMore ==
  ASSUME NEW s \in Seq(WireFrame), NEW f \in WireFrame
  PROVE  /\ s \o <<f>> \in Seq(WireFrame) /\ Len(s \o <<f>>) = Len(s) + 1
         /\ \A k \in 1 .. Len(s) : (s \o <<f>>)[k] = s[k]
         /\ (s \o <<f>>)[Len(s) + 1] = f
         /\ Append(s, f) = s \o <<f>>
BY AppendProperties, AppendIsConcat

LEMMA TwoMore ==
  ASSUME NEW s \in Seq(WireFrame), NEW f \in WireFrame, NEW g \in WireFrame
  PROVE  /\ s \o <<f, g>> \in Seq(WireFrame) /\ Len(s \o <<f, g>>) = Len(s) + 2
         /\ \A k \in 1 .. Len(s) : (s \o <<f, g>>)[k] = s[k]
         /\ (s \o <<f, g>>)[Len(s) + 1] = f /\ (s \o <<f, g>>)[Len(s) + 2] = g
OBVIOUS

LEMMA FramesAre ==
  ASSUME Shapes, \A q \in Question : Served(q), NEW q \in Question
  PROVE  /\ \A k \in Int : Delta(q, k) \in WireFrame
         /\ \A e \in {"done", "reply"} : Result(e, q) \in WireFrame
         /\ \A e \in {"error", "refused", "eof"} : Frame(e) \in WireFrame
<1>1. text[q] \in Seq(Fragment) /\ <<>> \in Seq(Fragment) /\ q \in Int /\ NoId \in Int
  BY TextsAre, Numbers DEF Served, NoId
<1>2. \A k \in Int : <<<<q, k>>>> \in Seq(Fragment)
  BY <1>1 DEF Fragment
<1> QED BY <1>1, <1>2 DEF Delta, Result, Frame, WireFrame

-----------------------------------------------------------------------------
(* Whatever has not changed about a question keeps what is told of it.     *)
LEMMA QuestionKeeps ==
  ASSUME NEW i \in Question, faults' = faults, pc'[i] = pc[i], text'[i] = text[i],
         wire'[i] = wire[i], logs'[i] = logs[i], i \in broken' <=> i \in broken
  PROVE  (Served(i) => Served(i)') /\ (Told(i) => Told(i)')
BY DEF Served, Told, Texts, LogRow

LEMMA TurnLikewise ==
  ASSUME NEW i \in Turn, UNCHANGED <<faults, open>>, pc'[i] = pc[i], text'[i] = text[i],
         wire'[i] = wire[i], i \in broken' <=> i \in broken, reader'[i] = reader[i],
         logs'[i].answer = logs[i].answer, logs'[i] = NoRow <=> logs[i] = NoRow,
         i \in DOMAIN turns' <=> i \in DOMAIN turns,
         i \in DOMAIN turns =>
           /\ turns'[i].answer = turns[i].answer /\ turns'[i].streaming = turns[i].streaming
           /\ turns'[i].logId = turns[i].logId /\ (Ended(i)' <=> Ended(i)),
         Shown(i)
  PROVE  Shown(i)'
<1>1. CASE i \notin DOMAIN turns
  <2>1. wire'[i] = <<>> /\ wire[i] = <<>> /\ pc[i] = "idle"
    BY <1>1 DEF Shown
  <2> QED BY <1>1, <2>1 DEF Shown
<1>2. CASE i \in DOMAIN turns
  <2>1. Got(i)' = Got(i) /\ Ended(i)' = Ended(i) /\ Texts(i)' = Texts(i) /\ i \in DOMAIN turns'
    BY <1>2 DEF Got, Ended, Texts
  <2>2. \A n : AllSaid(i, n)' = AllSaid(i, n)
    BY DEF AllSaid
  <2>3. \A k \in 1 .. Len(wire[i]) : FrameOK(i, k)'
    <3> TAKE k \in 1 .. Len(wire[i])
    <3>1. FrameOK(i, k)
      BY DEF Shown
    <3> QED BY <1>2, <2>1, <2>2, <3>1 DEF FrameOK
  <2> QED BY <1>2, <2>1, <2>2, <2>3 DEF Shown
<1> QED BY <1>1, <1>2

LEMMA TurnKeeps ==
  ASSUME NEW i \in Turn, UNCHANGED <<faults, open>>, pc'[i] = pc[i], text'[i] = text[i],
         wire'[i] = wire[i], logs'[i] = logs[i], i \in broken' <=> i \in broken,
         reader'[i] = reader[i], i \in DOMAIN turns' <=> i \in DOMAIN turns,
         i \in DOMAIN turns => turns'[i] = turns[i], Shown(i)
  PROVE  Shown(i)'
BY TurnLikewise DEF Ended

-----------------------------------------------------------------------------
(* Steps of a handler.                                                     *)
LEMMA SendIs ==
  ASSUME Shapes, NEW q \in Question, NEW frames \in Seq(WireFrame), Send(q, frames)
  PROVE  /\ wire' \in [Question -> Seq(WireFrame)]
         /\ \A i \in Question \ {q} : wire'[i] = wire[i]
         /\ wire'[q] = IF q \in broken THEN wire[q] ELSE wire[q] \o frames
<1>1. wire[q] \o frames \in Seq(WireFrame)
  BY ConcatProperties DEF Shapes
<1> QED BY <1>1 DEF Send, Shapes

Busy == {"asked", "answering", "answered", "logged"}

LEMMA ServeTouches ==
  ASSUME Shapes, \A x \in Question : Served(x), NEW q \in Question, Serve(q)
  PROVE  /\ Shapes'
         /\ UNCHANGED <<faults, client, naming, broken, reader, turns, asking, open, votes>>
         /\ \A i \in Question \ {q} : /\ pc'[i] = pc[i] /\ text'[i] = text[i]
                                      /\ logs'[i] = logs[i] /\ wire'[i] = wire[i]
         /\ pc[q] \in Busy /\ pc'[q] \in Busy \cup {"over"}
<1>1. UNCHANGED <<faults, client, naming, broken, reader, turns, asking, open, votes>>
  BY DEF Serve, page
<1>2. PICK frames \in Seq(WireFrame) : wire' = wire \/ Send(q, frames)
  <2>1. \A e \in {"error", "refused", "eof"} : Frame(e) \in WireFrame
    BY FramesAre
  <2>2. \A e \in {"done", "reply"} : Result(e, q) \in WireFrame
    BY FramesAre
  <2>3. ASSUME StreamToken(q) PROVE Delta(q, Len(text[q]) + 1) \in WireFrame
    <3>1. Len(text[q]) \in Nat
      BY TextsAre DEF Served
    <3> QED BY <3>1, FramesAre
  <2>4. CASE wire' = wire
    <3>1. <<>> \in Seq(WireFrame)
      OBVIOUS
    <3> QED BY <2>4, <3>1
  <2>5. CASE Refuse(q)
    <3>1. <<Frame("refused")>> \in Seq(WireFrame)
      BY <2>1
    <3> QED BY <2>5, <3>1 DEF Refuse
  <2>6. CASE RetrieveFails(q)
    <3>1. <<Frame("refused")>> \in Seq(WireFrame)
          /\ <<Frame("error"), Frame("eof")>> \in Seq(WireFrame)
      BY <2>1
    <3> QED BY <2>6, <3>1 DEF RetrieveFails
  <2>7. CASE StreamToken(q)
    <3>1. <<Delta(q, Len(text[q]) + 1)>> \in Seq(WireFrame)
      BY <2>3, <2>7
    <3> QED BY <2>7, <3>1 DEF StreamToken
  <2>8. CASE Finish(q)
    <3>1. <<Result("reply", q)>> \in Seq(WireFrame)
          /\ <<Result("done", q), Frame("eof")>> \in Seq(WireFrame)
      BY <2>1, <2>2
    <3> QED BY <2>8, <3>1 DEF Finish
  <2> QED
    BY <2>4, <2>5, <2>6, <2>7, <2>8
    DEF Serve, Retrieve, StreamEnds, StreamFails, Complete, CompleteFails, Log, LogFails
<1>3. wire' \in [Question -> Seq(WireFrame)] /\ \A i \in Question \ {q} : wire'[i] = wire[i]
  BY <1>2, SendIs DEF Shapes
<1>4. /\ pc' \in [Question -> Stage] /\ \A i \in Question \ {q} : pc'[i] = pc[i]
      /\ pc[q] \in Busy /\ pc'[q] \in Busy \cup {"over"}
  BY DEF Serve, Refuse, Retrieve, RetrieveFails, StreamToken, StreamEnds, StreamFails,
         Complete, CompleteFails, Log, LogFails, Finish, Shapes, Stage, Busy
<1>5. DOMAIN text' = Question /\ \A i \in Question \ {q} : text'[i] = text[i]
  BY DEF Serve, Refuse, Retrieve, RetrieveFails, StreamToken, StreamEnds, StreamFails,
         Complete, CompleteFails, Log, LogFails, Finish, Shapes
<1>6. DOMAIN logs' = Question /\ \A i \in Question \ {q} : logs'[i] = logs[i]
  BY DEF Serve, Refuse, Retrieve, RetrieveFails, StreamToken, StreamEnds, StreamFails,
         Complete, CompleteFails, Log, LogFails, Finish, Shapes
<1> QED BY <1>1, <1>3, <1>4, <1>5, <1>6 DEF Shapes

LEMMA ServeServed ==
  ASSUME Shapes, \A x \in Question : Served(x), NEW q \in Question, Serve(q)
  PROVE  Served(q)'
<1>1. Served(q) /\ q \in DOMAIN text /\ q \in DOMAIN pc /\ q \in DOMAIN logs
      /\ UNCHANGED <<faults, broken>> /\ q \in Int
  BY Numbers DEF Shapes, Serve
<1>2. Texts(q)' = Texts(q) /\ LogRow(q)' = LogRow(q)
  BY DEF Texts, LogRow
<1>3. CASE Refuse(q) \/ RetrieveFails(q) \/ Finish(q)
  BY <1>1, <1>2, <1>3 DEF Refuse, RetrieveFails, Finish, Served
<1>4. CASE Retrieve(q)
  <2>1. text[q] = Prefix(q, 0) /\ 0 \in 0 .. MaxTokens
    BY <1>1, <1>4, PrefixIs, Numbers DEF Retrieve, Served
  <2> QED BY <1>1, <1>2, <1>4, <2>1 DEF Retrieve, Served
<1>5. CASE StreamToken(q)
  <2>1. PICK n \in 0 .. MaxTokens : text[q] = Prefix(q, n)
    BY <1>1, <1>5 DEF StreamToken, Served
  <2>2. n \in Nat /\ Len(text[q]) = n /\ n + 1 \in 0 .. MaxTokens
    BY <1>1, <1>5, <2>1, PrefixIs, Numbers DEF StreamToken
  <2>3. text'[q] = Prefix(q, n + 1)
    <3>1. text'[q] = Append(Prefix(q, n), <<q, n + 1>>)
      BY <1>1, <1>5, <2>1, <2>2 DEF StreamToken
    <3> QED BY <1>1, <2>2, <3>1, PrefixExtends
  <2>4. text'[q] \in Texts(q)
    BY <2>2, <2>3, TextsAre
  <2> QED BY <1>1, <1>2, <1>5, <2>2, <2>3, <2>4 DEF StreamToken, Served
<1>6. CASE StreamEnds(q)
  BY <1>1, <1>2, <1>6 DEF StreamEnds, Served
<1>7. CASE StreamFails(q)
  <2>1. text'[q] \in Texts(q)
    BY <1>1, <1>7, TextsAre DEF StreamFails, Served
  <2> QED BY <1>1, <1>2, <1>7, <2>1 DEF StreamFails, Served
<1>8. CASE Complete(q) \/ CompleteFails(q)
  <2>1. Prefix(q, MaxTokens) \in Texts(q) /\ Note \in Texts(q)
    BY TextsAre, Numbers
  <2>2. text'[q] \in {Prefix(q, MaxTokens), Note}
    BY <1>1, <1>8 DEF Complete, CompleteFails, Prefix
  <2> QED BY <1>1, <1>2, <1>8, <2>1, <2>2 DEF Complete, CompleteFails, Served
<1>9. CASE Log(q)
  <2>1. logs'[q] = [answer |-> text[q], feedback |-> "none"]
    BY <1>1, <1>9 DEF Log
  <2>2. logs'[q] \in LogRow(q) /\ logs'[q].answer = text[q]
    <3>1. text[q] \in Texts(q)
      BY <1>1 DEF Served
    <3> QED BY <2>1, <3>1 DEF LogRow
  <2>3. logs'[q] # NoRow
    <3>1. logs'[q].feedback = "none" /\ NoRow.feedback = "no row"
      BY <2>1 DEF NoRow
    <3> QED BY <3>1
  <2> QED BY <1>1, <1>2, <1>9, <2>2, <2>3 DEF Log, Served
<1>10. CASE LogFails(q)
  BY <1>1, <1>2, <1>10 DEF LogFails, Served
<1> QED BY <1>3, <1>4, <1>5, <1>6, <1>7, <1>8, <1>9, <1>10 DEF Serve

LEMMA ServeTold ==
  ASSUME Shapes, \A x \in Question : Served(x), NEW q \in Call, Told(q), Serve(q)
  PROVE  Told(q)'
<1>1. q \in Question /\ q \notin Turn /\ q \in DOMAIN pc
      /\ wire[q] = <<>> /\ UNCHANGED <<faults, broken>>
  BY Numbers, ServeTouches DEF Told, Busy, Shapes
<1>2. CASE wire' = wire
  BY <1>1, <1>2 DEF Told
<1>3. ASSUME Send(q, <<Frame("refused")>>), pc'[q] = "over" PROVE Told(q)'
  <2>1. Frame("refused") \in WireFrame /\ Frame("refused").event = "refused"
    BY <1>1, FramesAre DEF Frame
  <2>2. PICK f \in WireFrame : f = Frame("refused") /\ f.event = "refused"
    BY <2>1
  <2>3. wire'[q] = <<>> \/ wire'[q] = <<f>>
    <3>1. <<f>> \in Seq(WireFrame) /\ <<>> \o <<f>> = <<f>>
      OBVIOUS
    <3> QED BY <1>1, <1>3, <2>2, <3>1, SendIs
  <2> QED BY <1>3, <2>2, <2>3 DEF Told
<1>4. CASE Finish(q)
  <2>1. Result("reply", q) \in WireFrame /\ Result("reply", q).text = text[q]
    BY <1>1, FramesAre DEF Result
  <2>2. PICK f \in WireFrame : f = Result("reply", q) /\ f.text = text[q]
    BY <2>1
  <2>3. wire'[q] = <<>> \/ (wire'[q] = <<f>> /\ q \notin broken)
    <3>1. <<f>> \in Seq(WireFrame) /\ <<>> \o <<f>> = <<f>>
      OBVIOUS
    <3> QED BY <1>1, <1>4, <2>2, <3>1, SendIs DEF Finish
  <2>4. pc'[q] = "over" /\ pc[q] = "logged" /\ logs' = logs
    BY <1>1, <1>4 DEF Finish
  <2>5. Served(q)
    BY <1>1
  <2> QED BY <1>1, <2>2, <2>3, <2>4, <2>5 DEF Told, Served
<1> QED
  BY <1>1, <1>2, <1>3, <1>4
  DEF Serve, Refuse, Retrieve, RetrieveFails, StreamToken, StreamEnds, StreamFails,
      Complete, CompleteFails, Log, LogFails

\* A step of the handler of a turn that sends nothing.
LEMMA QuietKeeps ==
  ASSUME NEW q \in Turn, Shown(q), UNCHANGED <<faults, open, broken, reader, turns>>,
         wire'[q] = wire[q], pc[q] \in Busy, pc'[q] \in Busy,
         Got(q) + Len(wire[q]) \in Nat, \A n \in Nat : AllSaid(q, n) => AllSaid(q, n)'
  PROVE  Shown(q)'
<1>1. q \in DOMAIN turns /\ ~Ended(q) /\ pc[q] # "over" /\ pc'[q] # "over"
      /\ pc[q] # "idle" /\ pc'[q] # "idle"
  BY DEF Shown, Busy
<1>2. Got(q)' = Got(q) /\ Ended(q)' = Ended(q) /\ Texts(q)' = Texts(q)
  BY DEF Got, Ended, Texts
<1>3. ASSUME NEW k \in 1 .. Len(wire[q]) PROVE FrameOK(q, k)'
  <2>1. FrameOK(q, k)
    BY DEF Shown
  <2> QED BY <1>1, <1>2, <2>1 DEF FrameOK
<1>4. q \notin broken =>
        /\ \A k \in 1 .. Len(wire[q]) : wire[q][k].event = "delta"
        /\ AllSaid(q, Got(q) + Len(wire[q]))'
  <2> SUFFICES ASSUME q \notin broken
               PROVE  /\ \A k \in 1 .. Len(wire[q]) : wire[q][k].event = "delta"
                      /\ AllSaid(q, Got(q) + Len(wire[q]))'
    OBVIOUS
  <2>1. PICK n \in Nat : n = Got(q) + Len(wire[q])
    OBVIOUS
  <2>2. (\A k \in 1 .. Len(wire[q]) : wire[q][k].event = "delta") /\ AllSaid(q, n)
    BY <2>1 DEF Shown, Busy
  <2>3. AllSaid(q, n)'
    BY <2>2
  <2> QED BY <1>2, <2>1, <2>2, <2>3 DEF AllSaid
<1> QED BY <1>1, <1>2, <1>3, <1>4 DEF Shown

\* The last step of the handler of a turn.
LEMMA FinalKeeps ==
  ASSUME Shapes, \A x \in Question : Served(x),
         NEW q \in Turn, Shown(q), pc[q] \in Busy, pc'[q] = "over",
         UNCHANGED <<faults, open, broken, reader, turns>>,
         text'[q] = text[q], logs'[q] = logs[q],
         NEW frames \in Seq(WireFrame), Send(q, frames),
         \/ frames = <<Frame("refused")>>
         \/ frames = <<Frame("error"), Frame("eof")>>
         \/ /\ frames = <<Result("done", q), Frame("eof")>>
            /\ q \notin broken /\ "db" \notin faults
                 => logs[q] # NoRow /\ logs[q].answer = text[q]
  PROVE  Shown(q)'
<1>1. q \in Question /\ q \in Int /\ q \in DOMAIN turns /\ ~Ended(q) /\ pc[q] # "over"
      /\ pc[q] # "idle" /\ wire[q] \in Seq(WireFrame)
  BY Numbers DEF Shown, Busy, Shapes
<1>2. /\ Got(q)' = Got(q) /\ Ended(q)' = Ended(q) /\ Texts(q)' = Texts(q)
      /\ \A n : AllSaid(q, n)' <=> AllSaid(q, n)
  BY DEF Got, Ended, Texts, AllSaid
<1>3. wire'[q] = IF q \in broken THEN wire[q] ELSE wire[q] \o frames
  BY <1>1, SendIs
<1>4. CASE q \in broken
  <2>1. ASSUME NEW k \in 1 .. Len(wire[q]) PROVE FrameOK(q, k)'
    <3>1. FrameOK(q, k) /\ wire'[q] = wire[q]
      BY <1>3, <1>4 DEF Shown
    <3> QED BY <1>1, <1>2, <1>4, <3>1 DEF FrameOK
  <2> QED BY <1>1, <1>2, <1>3, <1>4, <2>1 DEF Shown
<1>5. CASE q \notin broken
  <2>1. /\ \A k \in 1 .. Len(wire[q]) : wire[q][k].event = "delta"
        /\ AllSaid(q, Got(q) + Len(wire[q]))
        /\ turns[q].streaming /\ reader[q] = "reading" /\ open
    <3>1. reader[q] \in {"idle", "reading", "over"}
      BY DEF Shapes
    <3> QED BY <1>1, <1>5, <3>1 DEF Shown, Busy
  <2>2. PICK n \in Nat : n = Len(wire[q])
    BY <1>1
  <2>3. ASSUME NEW k \in 1 .. n, wire'[q][k] = wire[q][k], n <= Len(wire'[q])
        PROVE  FrameOK(q, k)'
    <3>1. FrameOK(q, k) /\ wire[q][k].event = "delta"
      BY <2>1, <2>2, <2>3 DEF Shown
    <3> QED BY <1>2, <2>3, <3>1 DEF FrameOK
  <2>4. CASE frames = <<Frame("refused")>>
    <3>1. Frame("refused") \in WireFrame /\ Frame("refused").event = "refused"
      BY <1>1 DEF Frame, WireFrame, NoId
    <3>2. /\ Len(wire'[q]) = n + 1 /\ wire'[q][n + 1] = Frame("refused")
          /\ \A k \in 1 .. n : wire'[q][k] = wire[q][k]
      BY <1>1, <1>3, <1>5, <2>2, <2>4, <3>1, OneMore
    <3>3. FrameOK(q, n + 1)'
      BY <2>1, <3>1, <3>2 DEF FrameOK
    <3>4. \A k \in 1 .. n : FrameOK(q, k)'
      <4>1. n <= Len(wire'[q])
        BY <3>2
      <4> QED BY <2>3, <3>2, <4>1
    <3>5. 1 .. Len(wire'[q]) = (1 .. n) \cup {n + 1}
      BY <3>2
    <3>6. \A k \in 1 .. Len(wire'[q]) : FrameOK(q, k)'
      BY <3>3, <3>4, <3>5
    <3> QED BY <1>1, <1>2, <1>5, <2>1, <3>6 DEF Shown
  <2>5. ASSUME NEW f \in WireFrame, f.event \in {"done", "error"},
               frames = <<f, Frame("eof")>>,
               f.event = "done" => /\ f.text = text[q] /\ f.logId = q
                                   /\ "db" \notin faults => logs[q] # NoRow
                                                            /\ logs[q].answer = text[q]
        PROVE  Shown(q)'
    <3>1. Frame("eof") \in WireFrame /\ Frame("eof").event = "eof"
      BY <1>1 DEF Frame, WireFrame, NoId
    <3>2. /\ Len(wire'[q]) = n + 2 /\ wire'[q][n + 1] = f /\ wire'[q][n + 2] = Frame("eof")
          /\ \A k \in 1 .. n : wire'[q][k] = wire[q][k]
      BY <1>1, <1>3, <1>5, <2>2, <2>5, <3>1, TwoMore
    <3>3. Got(q) \in Nat /\ Got(q) + (n + 1) - 1 = Got(q) + n
      <4>1. Got(q) \in Nat
        BY <1>1, ElementOfSeq DEF Got, Shapes, TurnRow
      <4> QED BY <2>2, <4>1
    <3>4. FrameOK(q, n + 1)'
      BY <1>2, <2>1, <2>2, <2>5, <3>1, <3>2, <3>3 DEF FrameOK
    <3>5. FrameOK(q, n + 2)'
      BY <3>1, <3>2 DEF FrameOK
    <3>6. \A k \in 1 .. n : FrameOK(q, k)'
      <4>1. n <= Len(wire'[q])
        BY <3>2
      <4> QED BY <2>3, <3>2, <4>1
    <3>7. 1 .. Len(wire'[q]) = (1 .. n) \cup {n + 1, n + 2}
      BY <3>2
    <3>8. \A k \in 1 .. Len(wire'[q]) : FrameOK(q, k)'
      BY <3>4, <3>5, <3>6, <3>7
    <3> QED BY <1>1, <1>2, <1>5, <2>1, <3>8 DEF Shown
  <2>6. CASE frames = <<Frame("error"), Frame("eof")>>
    <3>1. Frame("error") \in WireFrame /\ Frame("error").event = "error"
      BY <1>1 DEF Frame, WireFrame, NoId
    <3> QED BY <2>5, <2>6, <3>1
  <2>7. CASE /\ frames = <<Result("done", q), Frame("eof")>>
             /\ "db" \notin faults => logs[q] # NoRow /\ logs[q].answer = text[q]
    <3>1. /\ Result("done", q) \in WireFrame /\ Result("done", q).event = "done"
          /\ Result("done", q).text = text[q] /\ Result("done", q).logId = q
      BY <1>1, FramesAre DEF Result
    <3> QED BY <2>5, <2>7, <3>1
  <2> QED BY <1>5, <2>4, <2>6, <2>7
<1> QED BY <1>4, <1>5

LEMMA SpeakKeeps ==
  ASSUME Shapes, \A x \in Question : Served(x),
         NEW q \in Turn, Shown(q), Serve(q), StreamToken(q)
  PROVE  Shown(q)'
<1>1. /\ q \in Question /\ q \in Int /\ q \in DOMAIN turns /\ ~Ended(q)
      /\ pc[q] = "answering" /\ pc'[q] = "answering" /\ wire[q] \in Seq(WireFrame)
      /\ UNCHANGED <<faults, open, broken, reader, turns>> /\ logs'[q] = logs[q]
  BY Numbers DEF Shown, Shapes, StreamToken, Serve, page
<1>2. Got(q)' = Got(q) /\ Ended(q)' = Ended(q) /\ Texts(q)' = Texts(q)
  BY <1>1 DEF Got, Ended, Texts
<1>3. PICK n \in 0 .. MaxTokens : text[q] = Prefix(q, n)
  BY <1>1 DEF Served
<1>4. n \in Nat /\ Len(text[q]) = n /\ n + 1 <= MaxTokens
  BY <1>1, <1>3, PrefixIs, Numbers DEF StreamToken
<1>5. text'[q] = Prefix(q, n + 1)
  <2>1. text'[q] = Append(Prefix(q, n), <<q, n + 1>>)
    BY <1>1, <1>3, <1>4 DEF StreamToken, Shapes
  <2> QED BY <1>1, <1>4, <2>1, PrefixExtends
<1>6. PICK f \in WireFrame :
        f = Delta(q, n + 1) /\ f.event = "delta" /\ f.text = <<<<q, n + 1>>>>
  <2>1. Delta(q, n + 1) \in WireFrame
    BY <1>1, <1>4, FramesAre
  <2>2. Delta(q, n + 1).event = "delta" /\ Delta(q, n + 1).text = <<<<q, n + 1>>>>
    BY DEF Delta
  <2> QED BY <2>1, <2>2
<1>7. wire'[q] = IF q \in broken THEN wire[q] ELSE wire[q] \o <<f>>
  <2>1. Send(q, <<f>>) /\ <<f>> \in Seq(WireFrame)
    BY <1>4, <1>6 DEF StreamToken
  <2> QED BY <1>1, <2>1, SendIs
<1>8. CASE q \in broken
  <2>1. ASSUME NEW k \in 1 .. Len(wire[q]) PROVE FrameOK(q, k)'
    <3>1. FrameOK(q, k) /\ wire'[q] = wire[q]
      BY <1>7, <1>8 DEF Shown
    <3> QED BY <1>1, <1>2, <1>8, <3>1 DEF FrameOK
  <2> QED BY <1>1, <1>2, <1>7, <1>8, <2>1 DEF Shown
<1>9. CASE q \notin broken
  <2>1. /\ \A k \in 1 .. Len(wire[q]) : wire[q][k].event = "delta"
        /\ AllSaid(q, Got(q) + Len(wire[q]))
        /\ turns[q].streaming /\ reader[q] = "reading" /\ open
    <3>1. reader[q] \in {"idle", "reading", "over"}
      BY DEF Shapes
    <3> QED BY <1>1, <1>9, <3>1 DEF Shown
  <2>2. PICK m \in Nat : m = Len(wire[q])
    BY <1>1
  <2>3. Got(q) \in Nat /\ Got(q) + m = n
    <3>1. Got(q) \in Nat
      BY <1>1, ElementOfSeq DEF Got, Shapes, TurnRow
    <3>2. AllSaid(q, Got(q) + m) /\ Got(q) + m \in Nat
      BY <2>1, <2>2, <3>1
    <3>3. Len(Prefix(q, n)) = n /\ Len(Prefix(q, Got(q) + m)) = Got(q) + m
      BY <1>1, <1>4, <3>2, PrefixIs
    <3>4. Prefix(q, n) # Note
      <4>1. CASE n = 0
        BY <1>1, <1>4, <4>1, PrefixIs, NoteIs
      <4>2. CASE n # 0
        <5>1. Prefix(q, n)[1] = <<q, 1>> /\ Note[1] = <<0, 0>> /\ q # 0
          BY <1>1, <1>4, <4>2, Numbers DEF Prefix, Note
        <5> QED BY <5>1
      <4> QED BY <4>1, <4>2
    <3> QED BY <1>3, <3>1, <3>2, <3>3, <3>4 DEF AllSaid
  <2>4. /\ Len(wire'[q]) = m + 1 /\ wire'[q][m + 1] = f
        /\ \A k \in 1 .. m : wire'[q][k] = wire[q][k]
    BY <1>1, <1>6, <1>7, <1>9, <2>2, OneMore
  <2>5. ASSUME NEW k \in 1 .. m PROVE FrameOK(q, k)'
    <3>1. FrameOK(q, k) /\ wire[q][k].event = "delta" /\ wire'[q][k] = wire[q][k]
      BY <2>1, <2>2, <2>4 DEF Shown
    <3> QED BY <1>1, <1>2, <3>1 DEF FrameOK
  <2>6. FrameOK(q, m + 1)'
    <3>1. Got(q) + (m + 1) = n + 1
      BY <2>2, <2>3
    <3> QED BY <1>1, <1>2, <1>4, <1>6, <2>1, <2>4, <3>1 DEF FrameOK
  <2>7. \A k \in 1 .. Len(wire'[q]) : FrameOK(q, k)' /\ wire'[q][k].event = "delta"
    BY <1>6, <2>1, <2>2, <2>4, <2>5, <2>6
  <2>8. AllSaid(q, Got(q) + Len(wire[q]))'
    <3>1. Got(q) + (m + 1) = n + 1
      BY <2>2, <2>3
    <3> QED BY <1>2, <1>5, <2>4, <3>1 DEF AllSaid
  <2> QED BY <1>1, <1>2, <1>9, <2>1, <2>7, <2>8 DEF Shown
<1> QED BY <1>8, <1>9

LEMMA ServeShown ==
  ASSUME Shapes, \A x \in Question : Served(x), NEW q \in Turn, Shown(q), Serve(q)
  PROVE  Shown(q)'
<1>1. /\ UNCHANGED <<faults, open, broken, reader, turns>>
      /\ q \in Question /\ q \notin Call /\ pc[q] \in Busy /\ Served(q)
      /\ q \in DOMAIN pc /\ q \in DOMAIN text /\ q \in DOMAIN logs
  BY Numbers, ServeTouches DEF Shapes
<1>2. Got(q) + Len(wire[q]) \in Nat
  <2>1. q \in DOMAIN turns /\ wire[q] \in Seq(WireFrame)
    BY <1>1 DEF Shown, Shapes, Busy
  <2>2. Got(q) \in Nat
    BY <2>1, ElementOfSeq DEF Got, Shapes, TurnRow
  <2> QED BY <2>1, <2>2
<1>3. CASE text'[q] = text[q] /\ wire' = wire /\ pc'[q] \in Busy
  BY <1>1, <1>2, <1>3, QuietKeeps DEF AllSaid
<1>4. CASE StreamToken(q)
  BY <1>4, SpeakKeeps
<1>5. CASE StreamFails(q)
  <2>1. wire' = wire /\ pc'[q] \in Busy
    BY <1>1, <1>5 DEF StreamFails, Busy
  <2>2. CASE text[q] # <<>>
    BY <1>1, <1>3, <1>5, <2>1, <2>2 DEF StreamFails
  <2>3. CASE text[q] = <<>>
    <3>1. text'[q] = Note
      BY <1>1, <1>5, <2>3 DEF StreamFails
    <3>2. ASSUME NEW n \in Nat, AllSaid(q, n) PROVE n = 0
      BY <1>1, <2>3, <3>2, Numbers, PrefixIs, NoteIs DEF AllSaid
    <3>3. \A n \in Nat : AllSaid(q, n) => AllSaid(q, n)'
      BY <3>1, <3>2 DEF AllSaid
    <3> QED BY <1>1, <1>2, <2>1, <3>3, QuietKeeps
  <2> QED BY <2>2, <2>3
<1>6. CASE Refuse(q) \/ RetrieveFails(q)
  <2>1. Frame("refused") \in WireFrame /\ Frame("error") \in WireFrame /\ Frame("eof") \in WireFrame
    BY <1>1, FramesAre
  <2>2. <<Frame("refused")>> \in Seq(WireFrame)
        /\ <<Frame("error"), Frame("eof")>> \in Seq(WireFrame)
    BY <2>1
  <2>3. text' = text /\ logs' = logs /\ pc'[q] = "over"
    BY <1>1, <1>6 DEF Refuse, RetrieveFails
  <2>4. Send(q, <<Frame("refused")>>) \/ Send(q, <<Frame("error"), Frame("eof")>>)
    BY <1>6 DEF Refuse, RetrieveFails
  <2> QED BY <1>1, <2>2, <2>3, <2>4, FinalKeeps
<1>7. CASE Finish(q)
  <2>1. Result("done", q) \in WireFrame /\ Frame("eof") \in WireFrame
    BY <1>1, FramesAre
  <2>2. <<Result("done", q), Frame("eof")>> \in Seq(WireFrame)
    BY <2>1
  <2>3. text' = text /\ logs' = logs /\ pc'[q] = "over" /\ pc[q] = "logged"
        /\ Send(q, <<Result("done", q), Frame("eof")>>)
    BY <1>1, <1>7 DEF Finish
  <2>4. q \notin broken /\ "db" \notin faults => logs[q] # NoRow /\ logs[q].answer = text[q]
    BY <1>1, <2>3 DEF Served
  <2> QED BY <1>1, <2>2, <2>3, <2>4, FinalKeeps
<1> QED
  BY <1>1, <1>3, <1>4, <1>5, <1>6, <1>7
  DEF Serve, Retrieve, StreamEnds, Complete, CompleteFails, Log, LogFails, Busy

-----------------------------------------------------------------------------
(* Steps of the page for one of its turns.                                 *)
ReadTouches(q, rec, left, r) ==
  /\ UNCHANGED <<faults, client, naming, pc, text, logs, broken, open, votes>>
  /\ turns' \in Seq(TurnRow) /\ DOMAIN turns' = DOMAIN turns /\ q \in DOMAIN turns
  /\ turns'[q] = rec /\ \A i \in DOMAIN turns \ {q} : turns'[i] = turns[i]
  /\ wire' \in [Question -> Seq(WireFrame)]
  /\ wire'[q] = left /\ \A i \in Question \ {q} : wire'[i] = wire[i]
  /\ reader' \in [Turn -> {"idle", "reading", "over"}]
  /\ reader'[q] = r /\ \A i \in Turn \ {q} : reader'[i] = reader[i]

\* What a step may do to the turn it reads for. A turn that has settled with a
\* text stays as it is; the page is free again when a turn ends.
TurnStep(q) ==
  /\ asking' \in BOOLEAN
  /\ turns[q].answer # <<>> /\ ~turns[q].streaming
       => turns'[q].answer = turns[q].answer /\ ~turns'[q].streaming
  /\ turns'[q].logId = turns[q].logId \/ turns[q].logId = NoId
  /\ turns'[q].feedback \in {turns[q].feedback, "none"}
  /\ "cut" \notin faults =>
       \/ turns'[q].streaming = turns[q].streaming /\ asking' = asking
       \/ turns[q].streaming /\ ~turns'[q].streaming /\ ~asking'

LEMMA TurnBecomes ==
  ASSUME Shapes, NEW q \in Turn, q \in DOMAIN turns, Read(q),
         NEW rec \in TurnRow, turns' = [turns EXCEPT ![q] = rec],
         NEW left \in Seq(WireFrame), wire' = [wire EXCEPT ![q] = left],
         NEW r \in {"reading", "over"}, reader' = [reader EXCEPT ![q] = r]
  PROVE  ReadTouches(q, rec, left, r)
<1>1. UNCHANGED <<faults, client, naming, pc, text, logs, broken, open, votes>>
  BY DEF Read, server
<1>2. q \in 1 .. Len(turns) /\ turns \in Seq(TurnRow) /\ q \in Question
  BY Numbers DEF Shapes
<1>3. turns' \in Seq(TurnRow) /\ Len(turns') = Len(turns)
      /\ turns'[q] = rec /\ \A i \in DOMAIN turns \ {q} : turns'[i] = turns[i]
  BY <1>2, ExceptSeq
<1>4. DOMAIN turns' = DOMAIN turns
  BY <1>2, <1>3
<1> QED BY <1>1, <1>2, <1>3, <1>4 DEF ReadTouches, Shapes

\* The first frame is taken off the wire.
LEMMA Takes ==
  ASSUME Shapes, NEW q \in Turn, Shown(q), NEW event, Handles(q, event)
  PROVE  /\ q \in Question /\ q \in DOMAIN turns /\ q \in Int
         /\ wire[q] \in Seq(WireFrame) /\ wire[q] # <<>> /\ Len(wire[q]) \in Nat \ {0}
         /\ Head(wire[q]) = wire[q][1] /\ wire[q][1].event = event /\ FrameOK(q, 1)
         /\ open /\ reader[q] = "reading"
         /\ Tail(wire[q]) \in Seq(WireFrame) /\ wire' = [wire EXCEPT ![q] = Tail(wire[q])]
         /\ Len(Tail(wire[q])) = Len(wire[q]) - 1
         /\ \A k \in 1 .. Len(wire[q]) - 1 : Tail(wire[q])[k] = wire[q][k + 1]
         /\ turns[q] \in TurnRow /\ Got(q) \in Nat
<1>1. /\ q \in Question /\ q \in DOMAIN turns /\ q \in Int
      /\ wire[q] \in Seq(WireFrame) /\ wire[q] # <<>>
      /\ open /\ reader[q] = "reading" /\ wire' = [wire EXCEPT ![q] = Tail(wire[q])]
      /\ Head(wire[q]).event = event
  BY Numbers DEF Shown, Shapes, Handles
<1>2. Len(wire[q]) \in Nat \ {0} /\ Head(wire[q]) = wire[q][1]
  BY <1>1
<1>3. /\ Tail(wire[q]) \in Seq(WireFrame) /\ Len(Tail(wire[q])) = Len(wire[q]) - 1
      /\ \A k \in 1 .. Len(wire[q]) - 1 : Tail(wire[q])[k] = wire[q][k + 1]
  BY <1>1, HeadTailProperties
<1>4. FrameOK(q, 1)
  BY <1>2 DEF Shown
<1>5. turns[q] \in TurnRow /\ Got(q) \in Nat
  <2>1. turns[q] \in TurnRow
    BY <1>1, ElementOfSeq DEF Shapes
  <2>2. turns[q].answer \in Seq(Fragment)
    BY <2>1 DEF TurnRow
  <2> QED BY <2>1, <2>2 DEF Got
<1> QED BY <1>1, <1>2, <1>3, <1>4, <1>5

LEMMA DeltaKeeps ==
  ASSUME Shapes, NEW q \in Turn, Shown(q), Read(q), OnDelta(q)
  PROVE  /\ Shown(q)' /\ TurnStep(q)
         /\ \E rec \in TurnRow, left \in Seq(WireFrame), r \in {"reading", "over"} :
              ReadTouches(q, rec, left, r)
<1>1. Handles(q, "delta")
  BY DEF OnDelta
<1>2. PICK left \in Seq(WireFrame), m \in Nat :
        /\ m = Len(left) /\ Len(wire[q]) = m + 1
        /\ \A k \in 1 .. m : left[k] = wire[q][k + 1]
        /\ wire' = [wire EXCEPT ![q] = left]
  <2>1. PICK w \in Seq(WireFrame) :
          /\ w = Tail(wire[q]) /\ Len(wire[q]) \in Nat \ {0}
          /\ Len(w) = Len(wire[q]) - 1 /\ wire' = [wire EXCEPT ![q] = w]
          /\ \A k \in 1 .. Len(wire[q]) - 1 : w[k] = wire[q][k + 1]
    BY <1>1, Takes
  <2>2. Len(w) \in Nat /\ Len(wire[q]) = Len(w) + 1
    BY <2>1
  <2> QED BY <2>1, <2>2
<1>3. /\ turns[q].streaming /\ reader[q] = "reading" /\ open /\ q \in DOMAIN turns
      /\ Head(wire[q]).text = <<<<q, Got(q) + 1>>>> /\ Got(q) + 1 <= MaxTokens
      /\ q \in Int /\ Got(q) \in Nat /\ turns[q] \in TurnRow /\ q \in Question
  BY <1>1, Takes DEF FrameOK
<1>4. turns[q].answer = Prefix(q, Got(q)) /\ ~Ended(q)
  BY <1>3 DEF Shown
<1>5. PICK n \in Nat : n = Got(q)
  BY <1>3
<1>6. turns[q].answer \o Head(wire[q]).text = Prefix(q, n + 1)
  <2>1. turns[q].answer \o Head(wire[q]).text = Prefix(q, n) \o <<<<q, n + 1>>>>
    BY <1>3, <1>4, <1>5
  <2> QED BY <1>3, <1>5, <2>1, PrefixExtends
<1>7. PICK rec \in TurnRow :
        /\ turns' = [turns EXCEPT ![q] = rec]
        /\ rec.answer = Prefix(q, n + 1) /\ rec.streaming
        /\ rec.logId = turns[q].logId /\ rec.feedback = turns[q].feedback
  <2>1. Prefix(q, n + 1) \in Seq(Fragment)
    BY <1>3, <1>5, n + 1 \in Nat, PrefixIs
  <2> DEFINE new == [turns[q] EXCEPT !.answer = Prefix(q, n + 1)]
  <2>2. /\ new \in TurnRow /\ new.answer = Prefix(q, n + 1) /\ new.streaming
        /\ new.logId = turns[q].logId /\ new.feedback = turns[q].feedback
    BY <1>3, <2>1 DEF TurnRow
  <2>3. turns' = [turns EXCEPT ![q] = new]
    BY <1>3, <1>6 DEF OnDelta
  <2> HIDE DEF new
  <2> QED BY <2>2, <2>3
<1>8. ReadTouches(q, rec, left, "reading")
  <2>1. reader' = [reader EXCEPT ![q] = "reading"]
    BY <1>3 DEF OnDelta, Shapes
  <2> QED BY <1>2, <1>3, <1>7, <2>1, TurnBecomes
<1>9. /\ Got(q)' = n + 1 /\ ~Ended(q)' /\ turns'[q] = rec
      /\ wire'[q] = left /\ Texts(q)' = Texts(q) /\ q \in DOMAIN turns'
      /\ UNCHANGED <<faults, pc, text, logs, broken, open>> /\ reader'[q] = "reading"
  <2>1. Len(Prefix(q, n + 1)) = n + 1
    BY <1>3, PrefixIs
  <2> QED BY <1>4, <1>7, <1>8, <2>1 DEF ReadTouches, Got, Ended, Texts
<1>10. ASSUME NEW k \in 1 .. m PROVE FrameOK(q, k)'
  <2>1. PICK h \in Nat : h = k + 1 /\ h \in 1 .. Len(wire[q])
    BY <1>2
  <2>2. PICK f : f = wire[q][h] /\ f = left[k]
    BY <1>2, <2>1
  <2>3. FrameOK(q, h)
    BY <2>1 DEF Shown
  <2>4. Got(q) + h = (n + 1) + k /\ Got(q) + h - 1 = (n + 1) + k - 1
    BY <1>5, <2>1
  <2>5. AllSaid(q, Got(q) + h - 1) => AllSaid(q, (n + 1) + k - 1)'
    BY <1>9, <2>4 DEF AllSaid
  <2>6. f.event \in {"eof", "refused"} => k = m
    BY <1>2, <2>1, <2>2, <2>3 DEF FrameOK
  <2>7. f.event \in {"done", "error"} => k = m - 1 /\ left[k + 1].event = "eof"
    <3>1. SUFFICES ASSUME f.event \in {"done", "error"} PROVE k = m - 1 /\ left[k + 1].event = "eof"
      OBVIOUS
    <3>2. h = Len(wire[q]) - 1 /\ wire[q][h + 1].event = "eof"
      BY <2>2, <2>3, <3>1 DEF FrameOK
    <3>3. k = m - 1 /\ left[k + 1] = wire[q][h + 1]
      BY <1>2, <2>1, <3>2
    <3> QED BY <3>2, <3>3
  <2>8. f.event = "delta" => f.text = <<<<q, (n + 1) + k>>>> /\ (n + 1) + k <= MaxTokens
    BY <2>2, <2>3, <2>4 DEF FrameOK
  <2>9. /\ f.event # "reply"
        /\ f.event \notin {"delta", "eof"} => pc[q] = "over"
        /\ f.event = "eof" => pc[q] = "over" \/ q \in broken
        /\ f.event = "done" =>
             /\ pc[q] = "over" /\ f.text = text[q] /\ f.logId = q
             /\ AllSaid(q, Got(q) + h - 1)
             /\ "db" \notin faults => logs[q] # NoRow /\ logs[q].answer = text[q]
    BY <2>2, <2>3 DEF FrameOK
  <2> QED BY <1>2, <1>7, <1>9, <2>2, <2>5, <2>6, <2>7, <2>8, <2>9 DEF FrameOK
<1>11. Shown(q)'
  <2>1. \A k \in 1 .. Len(wire'[q]) : FrameOK(q, k)'
    BY <1>2, <1>9, <1>10
  <2>2. pc[q] \in Busy /\ q \notin broken =>
          /\ \A k \in 1 .. m : left[k].event = "delta"
          /\ AllSaid(q, (n + 1) + m)
    <3>1. Got(q) + Len(wire[q]) = (n + 1) + m
      <4>1. n + (m + 1) = (n + 1) + m
        OBVIOUS
      <4> QED BY <1>2, <1>5, <4>1, Zenon
    <3>2. pc[q] \in Busy /\ q \notin broken =>
            /\ \A k \in 1 .. m + 1 : wire[q][k].event = "delta"
            /\ AllSaid(q, (n + 1) + m)
      BY <1>2, <3>1 DEF Shown, Busy
    <3>3. \A k \in 1 .. m : k + 1 \in 1 .. m + 1
      OBVIOUS
    <3> QED BY <1>2, <3>2, <3>3, Zenon
  <2>3. AllSaid(q, (n + 1) + m)' <=> AllSaid(q, (n + 1) + m)
    BY <1>9 DEF AllSaid
  <2>4. rec.answer \in Texts(q) /\ n + 1 <= MaxTokens
    BY <1>3, <1>5, <1>7, TextsAre, Numbers
  <2>5. ASSUME "cut" \notin faults, q \in broken
        PROVE  m > 0 /\ left[m].event = "eof" /\ left # <<>>
    <3>1. wire[q][Len(wire[q])].event = "eof"
      BY <1>3, <2>5 DEF Shown
    <3>2. wire[q][1].event = "delta"
      BY <1>1, Takes
    <3>3. m # 0 /\ wire[q][m + 1].event = "eof"
      BY <1>2, <3>1, <3>2
    <3>4. m \in 1 .. m
      BY <3>3
    <3>5. left[m] = wire[q][m + 1]
      BY <1>2, <3>4
    <3>6. Len(left) # 0 /\ Len(<<>>) = 0
      BY <1>2, <3>3
    <3> QED BY <3>3, <3>4, <3>5, <3>6
  <2>6. turns[q].logId \in {NoId, q} /\ (turns[q].logId # NoId => Ended(q)) /\ pc[q] # "idle"
    BY <1>3 DEF Shown
  <2>7. q \in DOMAIN turns' =>
       /\ turns'[q].answer \in Texts(q)' \cup {Failure}
       /\ turns'[q].logId \in {NoId, q}
       /\ turns'[q].streaming =>
            /\ ~Ended(q)'
            /\ Got(q)' <= MaxTokens /\ turns'[q].answer = Prefix(q, Got(q)')
       /\ ~turns'[q].streaming => pc'[q] = "over" \/ reader'[q] = "over"
       /\ turns'[q].logId # NoId => Ended(q)'
       /\ ~Ended(q)'
    BY <1>4, <1>7, <1>9, <2>4, <2>6
  <2>8. /\ pc'[q] # "idle" /\ reader'[q] = "reading"
        /\ ~open' => q \in broken'
    BY <1>3, <1>9, <2>6
  <2>9. "cut" \notin faults' /\ q \in broken'
           => wire'[q] # <<>> /\ wire'[q][Len(wire'[q])].event = "eof"
    BY <1>2, <1>9, <2>5
  <2>10. pc'[q] \in Busy /\ q \notin broken' =>
           /\ \A k \in 1 .. Len(wire'[q]) : wire'[q][k].event = "delta"
           /\ AllSaid(q, Got(q) + Len(wire[q]))'
    BY <1>2, <1>9, <2>2, <2>3
  <2> QED BY <1>9, <2>1, <2>7, <2>8, <2>9, <2>10 DEF Shown, Busy
<1>12. TurnStep(q)
  BY <1>3, <1>7, <1>8 DEF TurnStep, ReadTouches, OnDelta, Shapes
<1> QED BY <1>8, <1>11, <1>12

\* The last frames: whatever is left is the end of the body.
LEMMA EndKeeps ==
  ASSUME Shapes, NEW q \in Turn, Shown(q), q \in DOMAIN turns,
         NEW rec \in TurnRow, NEW left \in Seq(WireFrame), NEW r \in {"reading", "over"},
         ReadTouches(q, rec, left, r), pc[q] = "over" \/ q \in broken,
         \/ left = <<>> /\ r = "over"
         \/ Len(left) = 1 /\ left[1].event = "eof",
         rec.answer \in Texts(q) \cup {Failure}, rec.logId \in {NoId, q},
         rec = turns[q] \/ ~rec.streaming,
         ~rec.streaming => pc[q] = "over" \/ r = "over",
         rec.logId # NoId => rec.feedback # "unset",
         rec.feedback # "unset" =>
            /\ pc[q] = "over"
            /\ "db" \notin faults =>
                 logs[q] # NoRow /\ rec.answer \in {<<>>, Failure, logs[q].answer}
  PROVE  Shown(q)'
<1>1. /\ UNCHANGED <<faults, pc, text, logs, broken, open>>
      /\ q \in DOMAIN turns' /\ turns'[q] = rec /\ wire'[q] = left /\ reader'[q] = r
      /\ Texts(q)' = Texts(q) /\ (Ended(q)' <=> rec.feedback # "unset")
  BY DEF ReadTouches, Ended, Texts
<1>2. ASSUME NEW k \in 1 .. Len(left) PROVE FrameOK(q, k)'
  <2>1. left # <<>>
    BY <1>2
  <2>2. Len(left) = 1 /\ left[1].event = "eof"
    BY <2>1
  <2>3. k = 1
    BY <1>2, <2>2
  <2> QED BY <1>1, <2>2, <2>3 DEF FrameOK
<1>3. rec.streaming =>
        /\ rec.feedback = "unset"
        /\ Got(q)' <= MaxTokens /\ rec.answer = Prefix(q, Got(q)')
  BY <1>1 DEF Shown, Got, Ended
<1>4. pc[q] # "idle" /\ r # "idle" /\ (~open => q \in broken)
  BY DEF Shown
<1>5. ASSUME r = "reading" PROVE left # <<>> /\ left[Len(left)].event = "eof"
  <2>1. Len(left) = 1 /\ left[1].event = "eof"
    BY <1>5
  <2>2. Len(left) # 0 /\ Len(<<>>) = 0
    BY <2>1
  <2>3. left # <<>>
    BY <2>2
  <2> QED BY <2>1, <2>3
<1> QED BY <1>1, <1>2, <1>3, <1>4, <1>5 DEF Shown

LEMMA DoneKeeps ==
  ASSUME Shapes, NEW q \in Turn, Shown(q), Served(q), Read(q), OnDone(q)
  PROVE  /\ Shown(q)' /\ TurnStep(q)
         /\ \E rec \in TurnRow, left \in Seq(WireFrame), r \in {"reading", "over"} :
              ReadTouches(q, rec, left, r)
<1>1. Handles(q, "done")
  BY DEF OnDone
<1>2. /\ turns[q].streaming /\ reader[q] = "reading" /\ open /\ q \in DOMAIN turns
      /\ q \in Int /\ Got(q) \in Nat /\ turns[q] \in TurnRow /\ q \in Question
      /\ pc[q] = "over" /\ Head(wire[q]).text = text[q] /\ Head(wire[q]).logId = q
      /\ AllSaid(q, Got(q)) /\ Len(wire[q]) = 2 /\ wire[q][2].event = "eof"
      /\ "db" \notin faults => logs[q] # NoRow /\ logs[q].answer = text[q]
  <2>1. /\ FrameOK(q, 1) /\ wire[q][1].event = "done" /\ Head(wire[q]) = wire[q][1]
        /\ Len(wire[q]) \in Nat /\ Got(q) \in Nat /\ turns[q] \in TurnRow
        /\ reader[q] = "reading" /\ open /\ q \in DOMAIN turns
        /\ q \in Question /\ q \in Int
    BY <1>1, Takes
  <2>2. Len(wire[q]) = 2 /\ wire[q][2].event = "eof" /\ Got(q) + 1 - 1 = Got(q)
    BY <2>1 DEF FrameOK
  <2> QED BY <2>1, <2>2 DEF FrameOK
<1>3. PICK left \in Seq(WireFrame) :
        /\ Len(left) = 1 /\ left[1].event = "eof" /\ wire' = [wire EXCEPT ![q] = left]
  <2>1. PICK w \in Seq(WireFrame) :
          /\ w = Tail(wire[q]) /\ Len(w) = Len(wire[q]) - 1 /\ wire' = [wire EXCEPT ![q] = w]
          /\ \A k \in 1 .. Len(wire[q]) - 1 : w[k] = wire[q][k + 1]
    BY <1>1, Takes
  <2>2. Len(w) = 1 /\ w[1] = wire[q][2]
    BY <1>2, <2>1
  <2> QED BY <1>2, <2>1, <2>2
<1>4. /\ turns[q].answer = Prefix(q, Got(q)) /\ ~Ended(q)
      /\ turns[q].answer \in Texts(q) \cup {Failure} /\ turns[q].logId = NoId
      /\ turns[q].answer # <<>> => turns[q].answer = text[q]
  <2>1. turns[q].answer = Prefix(q, Got(q)) /\ ~Ended(q)
        /\ turns[q].answer \in Texts(q) \cup {Failure} /\ turns[q].logId = NoId
    BY <1>2 DEF Shown
  <2>2. Got(q) = 0 => turns[q].answer = <<>>
    BY <1>2, <2>1, PrefixIs
  <2> QED BY <1>2, <2>1, <2>2 DEF AllSaid
<1>5. PICK rec \in TurnRow :
        /\ turns' = [turns EXCEPT ![q] = rec]
        /\ rec.answer \in {turns[q].answer, text[q], <<>>}
        /\ turns[q].answer # <<>> => rec.answer = turns[q].answer
        /\ rec.logId \in {NoId, q} /\ ~rec.streaming /\ rec.feedback = "none"
  <2>1. PICK result : /\ result.text \in {text[q], <<>>} /\ result.logId \in {NoId, q}
                      /\ result = IF naming = "ts" THEN Head(wire[q]) ELSE Frame("done")
    BY <1>2 DEF Frame
  <2>2. PICK a \in Seq(Fragment) :
          /\ a = IF turns[q].answer = <<>> THEN result.text ELSE turns[q].answer
          /\ a \in {turns[q].answer, text[q], <<>>}
          /\ turns[q].answer # <<>> => a = turns[q].answer
    <3>1. text[q] \in Seq(Fragment) /\ <<>> \in Seq(Fragment) /\ turns[q].answer \in Seq(Fragment)
      BY <1>2, TextsAre DEF Served, TurnRow
    <3> QED BY <2>1, <3>1
  <2> DEFINE new == [answer |-> a, streaming |-> FALSE, logId |-> result.logId,
                     feedback |-> "none"]
  <2>3. turns' = [turns EXCEPT ![q] = new]
    BY <1>2, <2>1, <2>2 DEF OnDone, Shapes
  <2>4. new \in TurnRow
    BY <1>2, <2>1, <2>2 DEF TurnRow, NoId
  <2>5. new.answer = a /\ new.logId = result.logId /\ ~new.streaming /\ new.feedback = "none"
    OBVIOUS
  <2> HIDE DEF new
  <2> QED BY <2>1, <2>2, <2>3, <2>4, <2>5
<1>6. ReadTouches(q, rec, left, "reading")
  <2>1. reader' = [reader EXCEPT ![q] = "reading"]
    BY <1>2 DEF OnDone, Shapes
  <2> QED BY <1>2, <1>3, <1>5, <2>1, TurnBecomes
<1>7. Shown(q)'
  <2>1. text[q] \in Texts(q) /\ <<>> \in Texts(q)
    BY <1>2, TextsAre DEF Served
  <2>2. rec.answer \in Texts(q) \cup {Failure}
    BY <1>4, <1>5, <2>1
  <2>3. rec.answer \in {<<>>, text[q]}
    BY <1>4, <1>5
  <2>4. "db" \notin faults =>
           logs[q] # NoRow /\ rec.answer \in {<<>>, Failure, logs[q].answer}
    BY <1>2, <2>3
  <2> QED BY <1>2, <1>3, <1>5, <1>6, <2>2, <2>4, EndKeeps
<1>8. TurnStep(q)
  BY <1>2, <1>4, <1>5, <1>6 DEF TurnStep, ReadTouches, OnDone
<1> QED BY <1>6, <1>7, <1>8

\* What onError makes of a turn, whatever brings it.
LEMMA ErrorKeeps ==
  ASSUME Shapes, NEW q \in Turn, Shown(q), q \in DOMAIN turns, Read(q), onError(q),
         NEW left \in Seq(WireFrame), wire' = [wire EXCEPT ![q] = left],
         NEW r \in {"reading", "over"}, reader' = [reader EXCEPT ![q] = r],
         pc[q] = "over" \/ q \in broken, pc[q] = "over" \/ r = "over",
         \/ left = <<>> /\ r = "over"
         \/ Len(left) = 1 /\ left[1].event = "eof",
         "cut" \notin faults => turns[q].streaming
  PROVE  /\ Shown(q)' /\ TurnStep(q)
         /\ \E rec \in TurnRow, l \in Seq(WireFrame), s \in {"reading", "over"} :
              ReadTouches(q, rec, l, s)
<1>1. turns[q] \in TurnRow /\ q \in Question
  BY Numbers, ElementOfSeq DEF Shapes
<1>2. PICK rec \in TurnRow :
        /\ turns' = [turns EXCEPT ![q] = rec]
        /\ rec.answer \in {turns[q].answer, Failure}
        /\ turns[q].answer # <<>> => rec.answer = turns[q].answer
        /\ rec.logId = turns[q].logId /\ rec.feedback = turns[q].feedback /\ ~rec.streaming
  <2> DEFINE a == IF turns[q].answer = <<>> THEN Failure ELSE turns[q].answer
  <2> DEFINE new == [turns[q] EXCEPT !.answer = a, !.streaming = FALSE]
  <2>1. a \in Seq(Fragment)
    BY <1>1, NoteIs DEF TurnRow
  <2>2. /\ new \in TurnRow /\ new.answer = a /\ ~new.streaming
        /\ new.logId = turns[q].logId /\ new.feedback = turns[q].feedback
    BY <1>1, <2>1 DEF TurnRow
  <2>3. turns' = [turns EXCEPT ![q] = new]
    BY DEF onError
  <2>4. a \in {turns[q].answer, Failure} /\ (turns[q].answer # <<>> => a = turns[q].answer)
    OBVIOUS
  <2> HIDE DEF new, a
  <2> QED BY <2>2, <2>3, <2>4
<1>3. ReadTouches(q, rec, left, r)
  BY <1>2, TurnBecomes
<1>4. Shown(q)'
  <2>1. /\ turns[q].answer \in Texts(q) \cup {Failure} /\ turns[q].logId \in {NoId, q}
        /\ turns[q].logId # NoId => turns[q].feedback # "unset"
        /\ turns[q].feedback # "unset" =>
            /\ pc[q] = "over"
            /\ "db" \notin faults =>
                 logs[q] # NoRow /\ turns[q].answer \in {<<>>, Failure, logs[q].answer}
    BY DEF Shown, Ended
  <2> QED BY <1>2, <1>3, <2>1, EndKeeps
<1>5. TurnStep(q)
  BY <1>2, <1>3 DEF TurnStep, ReadTouches, onError
<1> QED BY <1>3, <1>4, <1>5

\* The last frame but the end of the body, or the last of all.
LEMMA LastTwo ==
  ASSUME Shapes, NEW q \in Turn, Shown(q), NEW event, Handles(q, event)
  PROVE  /\ event = "error" => \E left \in Seq(WireFrame) :
              /\ Len(left) = 1 /\ left[1].event = "eof"
              /\ wire' = [wire EXCEPT ![q] = left]
         /\ event \in {"refused", "eof"} => wire' = [wire EXCEPT ![q] = <<>>]
<1>1. PICK w \in Seq(WireFrame) :
        /\ Len(w) = Len(wire[q]) - 1 /\ wire' = [wire EXCEPT ![q] = w]
        /\ \A k \in 1 .. Len(wire[q]) - 1 : w[k] = wire[q][k + 1]
  BY Takes
<1>2. FrameOK(q, 1) /\ wire[q][1].event = event /\ Len(wire[q]) \in Nat
  BY Takes
<1>3. CASE event = "error"
  <2>1. Len(wire[q]) = 2 /\ wire[q][2].event = "eof"
    BY <1>2, <1>3 DEF FrameOK
  <2>2. Len(w) = 1 /\ w[1] = wire[q][2]
    BY <1>1, <2>1
  <2> QED BY <1>1, <1>3, <2>1, <2>2
<1>4. CASE event \in {"refused", "eof"}
  <2>1. Len(wire[q]) = 1
    BY <1>2, <1>4 DEF FrameOK
  <2>2. Len(w) = 0
    BY <1>1, <2>1
  <2>3. w = <<>>
    BY <2>2
  <2> QED BY <1>1, <1>4, <2>3
<1> QED BY <1>3, <1>4

LEMMA ReadShown ==
  ASSUME Shapes, \A x \in Question : Served(x), NEW q \in Turn, Shown(q), Read(q)
  PROVE  /\ Shown(q)' /\ TurnStep(q)
         /\ \E rec \in TurnRow, left \in Seq(WireFrame), r \in {"reading", "over"} :
              ReadTouches(q, rec, left, r)
<1>1. CASE OnDelta(q)
  BY <1>1, DeltaKeeps
<1>2. CASE OnDone(q)
  BY <1>2, DoneKeeps, Numbers
<1>3. CASE OnErrorEvent(q)
  <2>1. Handles(q, "error") /\ onError(q) /\ reader' = reader
    BY <1>3 DEF OnErrorEvent
  <2>2. FrameOK(q, 1) /\ wire[q][1].event = "error" /\ q \in DOMAIN turns /\ reader[q] = "reading"
    BY <2>1, Takes
  <2>3. pc[q] = "over" /\ turns[q].streaming
    BY <2>2 DEF FrameOK
  <2>4. PICK left \in Seq(WireFrame) :
          Len(left) = 1 /\ left[1].event = "eof" /\ wire' = [wire EXCEPT ![q] = left]
    BY <2>1, LastTwo
  <2>5. reader' = [reader EXCEPT ![q] = "reading"]
    BY <2>1, <2>2 DEF Shapes
  <2> QED BY <2>1, <2>2, <2>3, <2>4, <2>5, ErrorKeeps
<1>4. CASE OnRefused(q)
  <2>1. Handles(q, "refused") /\ onError(q) /\ reader' = [reader EXCEPT ![q] = "over"]
    BY <1>4 DEF OnRefused
  <2>2. FrameOK(q, 1) /\ wire[q][1].event = "refused" /\ q \in DOMAIN turns
    BY <2>1, Takes
  <2>3. pc[q] = "over" /\ turns[q].streaming
    BY <2>2 DEF FrameOK
  <2>4. wire' = [wire EXCEPT ![q] = <<>>] /\ <<>> \in Seq(WireFrame)
    BY <2>1, LastTwo
  <2> QED BY <2>1, <2>2, <2>3, <2>4, ErrorKeeps
<1>5. CASE BodyEnds(q)
  <2>1. /\ Handles(q, "eof") /\ reader' = [reader EXCEPT ![q] = "over"]
        /\ turns' = turns /\ asking' = asking
    BY <1>5 DEF BodyEnds
  <2>2. FrameOK(q, 1) /\ wire[q][1].event = "eof" /\ q \in DOMAIN turns /\ turns[q] \in TurnRow
    BY <2>1, Takes
  <2>3. pc[q] = "over" \/ q \in broken
    BY <2>2 DEF FrameOK
  <2>4. wire' = [wire EXCEPT ![q] = <<>>] /\ <<>> \in Seq(WireFrame)
    BY <2>1, LastTwo
  <2>5. turns' = [turns EXCEPT ![q] = turns[q]]
    BY <2>1, <2>2 DEF Shapes
  <2>6. ReadTouches(q, turns[q], <<>>, "over")
    BY <2>1, <2>2, <2>4, <2>5, TurnBecomes
  <2>7. Shown(q)'
    <3>1. /\ turns[q].answer \in Texts(q) \cup {Failure} /\ turns[q].logId \in {NoId, q}
          /\ turns[q].logId # NoId => turns[q].feedback # "unset"
          /\ turns[q].feedback # "unset" =>
              /\ pc[q] = "over"
              /\ "db" \notin faults =>
                   logs[q] # NoRow /\ turns[q].answer \in {<<>>, Failure, logs[q].answer}
      BY <2>2 DEF Shown, Ended
    <3> QED BY <2>2, <2>3, <2>4, <2>6, <3>1, EndKeeps
  <2>8. TurnStep(q)
    BY <2>1 DEF TurnStep, Shapes
  <2> QED BY <2>2, <2>4, <2>6, <2>7, <2>8
<1>6. CASE ReadFails(q)
  <2>1. /\ open /\ reader[q] = "reading" /\ q \in broken /\ wire[q] = <<>> /\ wire' = wire
        /\ onError(q) /\ reader' = [reader EXCEPT ![q] = "over"]
    BY <1>6 DEF ReadFails
  <2>2. q \in DOMAIN turns /\ "cut" \in faults
    BY <2>1 DEF Shown
  <2>3. wire' = [wire EXCEPT ![q] = <<>>] /\ <<>> \in Seq(WireFrame)
    BY <2>1, Numbers DEF Shapes
  <2> QED BY <2>1, <2>2, <2>3, ErrorKeeps
<1> QED BY <1>1, <1>2, <1>3, <1>4, <1>5, <1>6 DEF Read

-----------------------------------------------------------------------------
(* Every step keeps the invariant.                                         *)
\* A vote stays what it was as long as its turn keeps its id and its row.
LEMMA VotesStay ==
  ASSUME VotesAgree, \A n \in Vote : Cast(n), UNCHANGED <<faults, votes>>,
         \A i \in DOMAIN turns : turns[i].logId # NoId =>
           i \in DOMAIN turns' /\ turns'[i].logId # NoId /\ logs'[i] = logs[i],
         \A i \in DOMAIN turns' : turns'[i].feedback \in {"up", "down"} =>
           i \in DOMAIN turns /\ turns'[i].feedback = turns[i].feedback /\ logs'[i] = logs[i]
  PROVE  VotesAgree' /\ (\A n \in Vote : Cast(n)')
<1>1. \A n \in Vote : Cast(n)'
  BY DEF Cast
<1>2. ASSUME faults \cap {"db", "cut", "hasty"} = {},
             NEW n \in Vote, votes[n].state = "served"
      PROVE  logs'[votes[n].turn] = logs[votes[n].turn]
  <2>1. Unused.state = "unused"
    BY DEF Unused
  <2>2. votes[n] # Unused
    BY <1>2, <2>1
  <2> QED BY <2>2 DEF Cast
<1>3. ASSUME faults \cap {"db", "cut", "hasty"} = {}
      PROVE  \A n \in Vote : votes'[n].state = "served"
                => logs'[votes'[n].turn].feedback = votes'[n].sent
  BY <1>2, <1>3 DEF VotesAgree
<1>4. ASSUME faults \cap {"db", "cut", "hasty"} = {},
             NEW i \in DOMAIN turns', turns'[i].feedback \in {"up", "down"}
      PROVE  \/ logs'[i].feedback = turns'[i].feedback
             \/ \E n \in Vote : votes'[n].state = "served" /\ votes'[n].turn = i
  <2>1. i \in DOMAIN turns /\ turns'[i].feedback = turns[i].feedback /\ logs'[i] = logs[i]
    BY <1>4
  <2> QED BY <1>4, <2>1 DEF VotesAgree
<1>5. \A n : Flying(n)' = Flying(n)
  BY DEF Flying
<1> QED BY <1>1, <1>3, <1>4, <1>5 DEF VotesAgree

LEMMA ServeInv ==
  ASSUME AnswersInv, NEW q \in Question, Serve(q)
  PROVE  AnswersInv'
<1>1. Shapes /\ (\A x \in Question : Served(x)) /\ VotesAgree /\ \A n \in Vote : Cast(n)
  BY DEF AnswersInv
<1>2. /\ Shapes'
      /\ UNCHANGED <<faults, client, naming, broken, reader, turns, asking, open, votes>>
      /\ \A i \in Question \ {q} : /\ pc'[i] = pc[i] /\ text'[i] = text[i]
                                   /\ logs'[i] = logs[i] /\ wire'[i] = wire[i]
      /\ pc[q] \in Busy
  BY <1>1, ServeTouches
<1>3. \A i \in Question : Served(i)'
  <2>1. Served(q)'
    BY <1>1, ServeServed
  <2>2. ASSUME NEW i \in Question \ {q} PROVE Served(i)'
    BY <1>1, <1>2, QuestionKeeps
  <2> QED BY <2>1, <2>2
<1>4. \A i \in Call : Told(i)'
  <2>1. q \in Call => Told(q)'
    BY <1>1, ServeTold DEF AnswersInv
  <2>2. ASSUME NEW i \in Call, i # q PROVE Told(i)'
    <3>1. i \in Question /\ Told(i)
      BY Numbers DEF AnswersInv
    <3> QED BY <1>2, <2>2, <3>1, QuestionKeeps
  <2> QED BY <2>1, <2>2
<1>5. \A i \in Turn : Shown(i)'
  <2>1. q \in Turn => Shown(q)'
    BY <1>1, ServeShown DEF AnswersInv
  <2>2. ASSUME NEW i \in Turn, i # q PROVE Shown(i)'
    <3>1. i \in Question /\ Shown(i)
      BY Numbers DEF AnswersInv
    <3> QED BY <1>2, <2>2, <3>1, TurnKeeps
  <2> QED BY <2>1, <2>2
<1>6. OneStreams'
  BY <1>2 DEF AnswersInv, OneStreams
<1>7. VotesAgree' /\ \A n \in Vote : Cast(n)'
  <2>1. ASSUME NEW i \in DOMAIN turns, Ended(i) \/ turns[i].logId # NoId
        PROVE  logs'[i] = logs[i]
    <3>1. i \in Turn /\ i \in Question /\ Shown(i)
      BY <1>1, Numbers DEF Shapes, AnswersInv
    <3>2. pc[i] = "over"
      BY <2>1, <3>1 DEF Shown
    <3> QED BY <1>2, <3>1, <3>2 DEF Busy
  <2> QED BY <1>1, <1>2, <2>1, VotesStay DEF Ended
<1> QED BY <1>2, <1>3, <1>4, <1>5, <1>6, <1>7 DEF AnswersInv

LEMMA ReadInv ==
  ASSUME AnswersInv, NEW q \in Turn, Read(q)
  PROVE  AnswersInv'
<1>1. /\ Shapes /\ (\A x \in Question : Served(x)) /\ VotesAgree /\ (\A n \in Vote : Cast(n))
      /\ q \in Question /\ q \notin Call /\ Shown(q)
  BY Numbers DEF AnswersInv
<1>2. Shown(q)' /\ TurnStep(q)
  BY <1>1, ReadShown
<1>3. PICK rec \in TurnRow, left \in Seq(WireFrame), r \in {"reading", "over"} :
        ReadTouches(q, rec, left, r)
  BY <1>1, ReadShown
<1>4. /\ UNCHANGED <<faults, client, naming, pc, text, logs, broken, open, votes>>
      /\ turns' \in Seq(TurnRow) /\ DOMAIN turns' = DOMAIN turns /\ q \in DOMAIN turns
      /\ \A i \in DOMAIN turns \ {q} : turns'[i] = turns[i]
      /\ wire' \in [Question -> Seq(WireFrame)]
      /\ \A i \in Question \ {q} : wire'[i] = wire[i]
      /\ reader' \in [Turn -> {"idle", "reading", "over"}]
      /\ \A i \in Turn \ {q} : reader'[i] = reader[i]
  BY <1>3 DEF ReadTouches
<1>5. Shapes'
  BY <1>1, <1>2, <1>4 DEF Shapes, TurnStep
<1>6. \A i \in Question : Served(i)'
  BY <1>1, <1>4 DEF Served, Texts, LogRow
<1>7. \A i \in Call : Told(i)'
  <2>1. ASSUME NEW i \in Call PROVE Told(i)'
    <3>1. i \in Question /\ i # q /\ Told(i)
      BY <1>1, Numbers DEF AnswersInv
    <3> QED BY <1>4, <3>1, QuestionKeeps
  <2> QED BY <2>1
<1>8. \A i \in Turn : Shown(i)'
  <2>1. ASSUME NEW i \in Turn, i # q PROVE Shown(i)'
    <3>1. i \in Question /\ Shown(i)
      BY Numbers DEF AnswersInv
    <3> QED BY <1>4, <2>1, <3>1, TurnKeeps
  <2> QED BY <1>2, <2>1
<1>9. OneStreams'
  <2>1. SUFFICES ASSUME "cut" \notin faults
        PROVE  /\ asking' <=> \E i \in DOMAIN turns : turns'[i].streaming
               /\ \A i, j \in DOMAIN turns : turns'[i].streaming /\ turns'[j].streaming => i = j
    BY <1>4 DEF OneStreams
  <2>2. /\ asking <=> \E i \in DOMAIN turns : turns[i].streaming
        /\ \A i, j \in DOMAIN turns : turns[i].streaming /\ turns[j].streaming => i = j
    BY <2>1 DEF AnswersInv, OneStreams
  <2>3. CASE turns'[q].streaming = turns[q].streaming /\ asking' = asking
    <3>1. \A i \in DOMAIN turns : turns'[i].streaming = turns[i].streaming
      BY <1>4, <2>3
    <3> QED BY <2>2, <2>3, <3>1
  <2>4. CASE turns[q].streaming /\ ~turns'[q].streaming /\ ~asking'
    <3>1. \A i \in DOMAIN turns : ~turns'[i].streaming
      BY <1>4, <2>2, <2>4
    <3> QED BY <2>4, <3>1
  <2> QED BY <1>2, <2>1, <2>3, <2>4 DEF TurnStep
<1>10. VotesAgree' /\ \A n \in Vote : Cast(n)'
  <2>1. ASSUME NEW i \in DOMAIN turns
        PROVE  /\ turns[i].logId # NoId => turns'[i].logId # NoId
               /\ turns'[i].feedback \in {"up", "down"}
                    => turns'[i].feedback = turns[i].feedback
    BY <1>2, <1>4 DEF TurnStep
  <2> QED BY <1>1, <1>4, <2>1, VotesStay
<1> QED BY <1>5, <1>6, <1>7, <1>8, <1>9, <1>10 DEF AnswersInv

LEMMA AskInv ==
  ASSUME AnswersInv, Ask
  PROVE  AnswersInv'
<1>1. PICK q \in Turn :
        /\ q = Len(turns) + 1 /\ open /\ ~asking /\ asking' = TRUE
        /\ turns' = Append(turns, [answer |-> <<>>, streaming |-> TRUE,
                                   logId |-> NoId, feedback |-> "unset"])
        /\ pc' = [pc EXCEPT ![q] = "asked"]
        /\ reader' = [reader EXCEPT ![q] = "reading"]
        /\ UNCHANGED <<faults, client, naming, text, logs, broken, wire, open, votes>>
  BY DEF Ask
<1>2. /\ Shapes /\ (\A x \in Question : Served(x)) /\ VotesAgree /\ (\A n \in Vote : Cast(n))
      /\ q \in Question /\ q \notin Call /\ Shown(q)
  BY Numbers DEF AnswersInv
<1>3. PICK rec \in TurnRow :
        /\ turns' = Append(turns, rec) /\ rec.answer = <<>> /\ rec.streaming
        /\ rec.logId = NoId /\ rec.feedback = "unset"
  <2> DEFINE new == [answer |-> <<>>, streaming |-> TRUE, logId |-> NoId, feedback |-> "unset"]
  <2>1. new \in TurnRow
    BY DEF TurnRow, NoId
  <2>2. new.answer = <<>> /\ new.streaming /\ new.logId = NoId /\ new.feedback = "unset"
    OBVIOUS
  <2>3. turns' = Append(turns, new)
    BY <1>1
  <2> HIDE DEF new
  <2> QED BY <2>1, <2>2, <2>3
<1>4. /\ turns' \in Seq(TurnRow) /\ turns'[q] = rec
      /\ DOMAIN turns' = DOMAIN turns \cup {q} /\ q \notin DOMAIN turns
      /\ \A i \in DOMAIN turns : turns'[i] = turns[i]
  <2>1. turns \in Seq(TurnRow) /\ q = Len(turns) + 1
    BY <1>1, <1>2 DEF Shapes
  <2>2. PICK t \in Seq(TurnRow) :
          /\ t = Append(turns, rec) /\ Len(t) = Len(turns) + 1 /\ t[Len(turns) + 1] = rec
          /\ \A i \in 1 .. Len(turns) : t[i] = turns[i]
    <3>1. ASSUME NEW x \in Seq(TurnRow)
          PROVE  /\ Append(x, rec) \in Seq(TurnRow) /\ Len(Append(x, rec)) = Len(x) + 1
                 /\ Append(x, rec)[Len(x) + 1] = rec
                 /\ \A i \in 1 .. Len(x) : Append(x, rec)[i] = x[i]
      BY AppendProperties
    <3> QED BY <2>1, <3>1, Zenon
  <2> QED BY <1>3, <2>1, <2>2
<1>5. /\ pc'[q] = "asked" /\ reader'[q] = "reading" /\ pc[q] = "idle"
      /\ wire[q] = <<>> /\ q \notin broken /\ text[q] = <<>>
  BY <1>1, <1>2, <1>4 DEF Shown, Shapes, Served
<1>6. Shapes'
  BY <1>1, <1>2, <1>4 DEF Shapes, Stage
<1>7. \A i \in Question \ {q} : pc'[i] = pc[i]
  BY <1>1, <1>2 DEF Shapes
<1>8. \A i \in Question : Served(i)'
  <2>1. Served(q)'
    BY <1>1, <1>2, <1>5 DEF Served, Texts, LogRow
  <2>2. ASSUME NEW i \in Question \ {q} PROVE Served(i)'
    BY <1>1, <1>2, <1>7, QuestionKeeps
  <2> QED BY <2>1, <2>2
<1>9. \A i \in Call : Told(i)'
  <2>1. ASSUME NEW i \in Call PROVE Told(i)'
    <3>1. i \in Question /\ i # q /\ Told(i)
      BY <1>2, Numbers DEF AnswersInv
    <3> QED BY <1>1, <1>7, <3>1, QuestionKeeps
  <2> QED BY <2>1
<1>10. Shown(q)'
  <2>1. /\ Got(q)' = 0 /\ ~Ended(q)' /\ turns'[q] = rec /\ q \in DOMAIN turns'
        /\ wire'[q] = <<>> /\ q \notin broken' /\ open' /\ Texts(q)' = Texts(q)
        /\ text'[q] = <<>>
    BY <1>1, <1>3, <1>4, <1>5 DEF Got, Ended, Texts
  <2>2. Prefix(q, 0) = <<>> /\ 0 <= MaxTokens /\ <<>> \in Texts(q)
    BY <1>2, Numbers, PrefixIs, TextsAre
  <2>3. Len(wire'[q]) = 0 /\ Got(q)' + Len(wire'[q]) = 0
    BY <2>1
  <2>4. AllSaid(q, Got(q) + Len(wire[q]))'
    BY <2>1, <2>2, <2>3 DEF AllSaid
  <2> QED BY <1>3, <1>5, <2>1, <2>2, <2>3, <2>4 DEF Shown
<1>11. \A i \in Turn : Shown(i)'
  <2>1. ASSUME NEW i \in Turn, i # q PROVE Shown(i)'
    <3>1. i \in Question /\ Shown(i) /\ reader'[i] = reader[i]
      BY <1>1, <1>2, <2>1, Numbers DEF AnswersInv, Shapes
    <3> QED BY <1>1, <1>4, <1>7, <2>1, <3>1, TurnKeeps
  <2> QED BY <1>10, <2>1
<1>12. OneStreams'
  BY <1>1, <1>3, <1>4 DEF AnswersInv, OneStreams
<1>13. VotesAgree' /\ \A n \in Vote : Cast(n)'
  <2>1. ASSUME NEW i \in DOMAIN turns', turns'[i].feedback \in {"up", "down"}
        PROVE  i \in DOMAIN turns /\ turns'[i].feedback = turns[i].feedback
    BY <1>3, <1>4, <2>1
  <2> QED BY <1>1, <1>2, <1>4, <2>1, VotesStay
<1> QED BY <1>6, <1>8, <1>9, <1>11, <1>12, <1>13 DEF AnswersInv

LEMMA WorldInv ==
  ASSUME AnswersInv, World
  PROVE  AnswersInv'
<1>1. /\ Shapes /\ (\A x \in Question : Served(x)) /\ VotesAgree /\ (\A n \in Vote : Cast(n))
      /\ \A x \in Call : Told(x) /\ x \in Question
      /\ \A x \in Turn : Shown(x) /\ x \in Question
      /\ UNCHANGED <<faults, client, naming, text, logs, reader, turns, asking, votes>>
  BY Numbers DEF AnswersInv, World
<1>2. OneStreams' /\ VotesAgree' /\ \A n \in Vote : Cast(n)'
  <2>1. OneStreams'
    BY <1>1 DEF AnswersInv, OneStreams
  <2> QED BY <1>1, <2>1, VotesStay
<1>3. ASSUME NEW q \in Call, CallAsk(q) PROVE AnswersInv'
  <2>1. /\ pc[q] = "idle" /\ pc' = [pc EXCEPT ![q] = "asked"] /\ q \in Question
        /\ UNCHANGED <<broken, wire, open>>
    BY <1>1, <1>3 DEF CallAsk
  <2>2. pc' \in [Question -> Stage] /\ pc'[q] = "asked" /\ \A i \in Question \ {q} : pc'[i] = pc[i]
    BY <1>1, <2>1 DEF Shapes, Stage
  <2>3. Shapes'
    BY <1>1, <2>1, <2>2 DEF Shapes
  <2>4. \A i \in Question : Served(i)'
    <3>1. Served(q)'
      BY <1>1, <2>1, <2>2 DEF Served, Texts, LogRow
    <3>2. ASSUME NEW i \in Question \ {q} PROVE Served(i)'
      BY <1>1, <2>1, <2>2, QuestionKeeps
    <3> QED BY <3>1, <3>2
  <2>5. \A i \in Call : Told(i)'
    BY <1>1, <2>1, <2>2 DEF Told
  <2>6. \A i \in Turn : Shown(i)'
    <3>1. ASSUME NEW i \in Turn PROVE Shown(i)'
      <4>1. i # q
        BY Numbers
      <4> QED BY <1>1, <2>1, <2>2, <4>1, TurnKeeps
    <3> QED BY <3>1
  <2> QED BY <1>2, <2>3, <2>4, <2>5, <2>6 DEF AnswersInv
<1>4. ASSUME NEW q \in Question, Cut(q) PROVE AnswersInv'
  <2>1. /\ "cut" \in faults /\ q \notin broken /\ broken' = broken \cup {q}
        /\ wire' = [wire EXCEPT ![q] = <<>>] /\ UNCHANGED <<pc, open>>
        /\ q \in Turn => reader[q] = "reading"
    BY <1>4 DEF Cut
  <2>2. wire' \in [Question -> Seq(WireFrame)] /\ wire'[q] = <<>>
        /\ \A i \in Question \ {q} : wire'[i] = wire[i]
    BY <1>1, <2>1 DEF Shapes
  <2>3. Shapes'
    BY <1>1, <2>1, <2>2 DEF Shapes
  <2>4. \A i \in Question : Served(i)'
    BY <1>1, <2>1 DEF Served, Texts, LogRow
  <2>5. \A i \in Call : Told(i)'
    BY <1>1, <2>1, <2>2 DEF Told
  <2>6. \A i \in Turn : Shown(i)'
    <3>1. ASSUME NEW i \in Turn, i # q PROVE Shown(i)'
      BY <1>1, <2>1, <2>2, <3>1, TurnKeeps
    <3>2. ASSUME q \in Turn PROVE Shown(q)'
      <4>1. pc[q] # "idle" /\ Shown(q)
        BY <1>1, <2>1, <3>2 DEF Shown
      <4>2. Got(q)' = Got(q) /\ Ended(q)' = Ended(q) /\ Texts(q)' = Texts(q)
        BY <1>1 DEF Got, Ended, Texts
      <4>3. q \in broken' /\ Len(wire'[q]) = 0
        BY <2>1, <2>2
      <4> QED BY <1>1, <2>1, <4>1, <4>2, <4>3 DEF Shown
    <3> QED BY <3>1, <3>2
  <2> QED BY <1>2, <2>3, <2>4, <2>5, <2>6 DEF AnswersInv
<1>5. ASSUME NEW q \in Turn, Truncate(q) PROVE AnswersInv'
  <2>1. /\ q \notin broken /\ broken' = broken \cup {q} /\ pc[q] \notin {"idle", "over"}
        /\ wire' = [wire EXCEPT ![q] = Append(wire[q], Frame("eof"))]
        /\ UNCHANGED <<pc, open>> /\ q \in Question /\ Shown(q)
    BY <1>1, <1>5 DEF Truncate
  <2>2. PICK f \in WireFrame : f = Frame("eof") /\ f.event = "eof"
    BY <1>1, <2>1, FramesAre DEF Frame
  <2>3. PICK m \in Nat : m = Len(wire[q])
    <3>1. wire[q] \in Seq(WireFrame)
      BY <1>1, <2>1 DEF Shapes
    <3> QED BY <3>1
  <2>4. PICK w \in Seq(WireFrame) :
          /\ w = Append(wire[q], f) /\ Len(w) = m + 1 /\ w[m + 1] = f
          /\ \A k \in 1 .. m : w[k] = wire[q][k]
    <3>1. wire[q] \in Seq(WireFrame)
      BY <1>1, <2>1 DEF Shapes
    <3>2. ASSUME NEW x \in Seq(WireFrame), Len(x) = m
          PROVE  /\ Append(x, f) \in Seq(WireFrame) /\ Len(Append(x, f)) = m + 1
                 /\ Append(x, f)[m + 1] = f
                 /\ \A k \in 1 .. m : Append(x, f)[k] = x[k]
      BY <3>2, AppendProperties
    <3> QED BY <2>3, <3>1, <3>2, Zenon
  <2>5. wire' \in [Question -> Seq(WireFrame)] /\ wire'[q] = w
        /\ \A i \in Question \ {q} : wire'[i] = wire[i]
    BY <1>1, <2>1, <2>2, <2>4 DEF Shapes
  <2>6. Shapes'
    BY <1>1, <2>1, <2>5 DEF Shapes
  <2>7. \A i \in Question : Served(i)'
    BY <1>1, <2>1 DEF Served, Texts, LogRow
  <2>8. \A i \in Call : Told(i)'
    <3>1. ASSUME NEW i \in Call PROVE Told(i)'
      <4>1. i \in Question /\ i # q /\ Told(i)
        BY <1>1, Numbers
      <4> QED BY <1>1, <2>1, <2>5, <4>1, QuestionKeeps
    <3> QED BY <3>1
  <2>9. Shown(q)'
    <3>1. Got(q)' = Got(q) /\ Ended(q)' = Ended(q) /\ Texts(q)' = Texts(q) /\ q \in broken'
      BY <1>1, <2>1 DEF Got, Ended, Texts
    <3>2. ASSUME NEW k \in 1 .. m PROVE FrameOK(q, k)'
      <4>1. FrameOK(q, k) /\ wire'[q][k] = wire[q][k]
        BY <2>1, <2>3, <2>4, <2>5 DEF Shown
      <4>2. wire[q][k].event = "delta"
        <5>1. pc[q] \in {"asked", "answering", "answered", "logged"}
          BY <1>1, <2>1 DEF Shapes, Stage
        <5> QED BY <2>1, <2>3, <5>1 DEF Shown
      <4> QED BY <1>1, <2>1, <3>1, <4>1, <4>2 DEF FrameOK
    <3>3. FrameOK(q, m + 1)'
      BY <2>2, <2>4, <2>5, <3>1 DEF FrameOK
    <3>4. \A k \in 1 .. Len(wire'[q]) : FrameOK(q, k)'
      BY <2>3, <2>4, <2>5, <3>2, <3>3
    <3>5. wire'[q] # <<>> /\ wire'[q][Len(wire'[q])].event = "eof"
      <4>1. Len(w) # 0 /\ Len(<<>>) = 0
        BY <2>4
      <4>2. w # <<>>
        BY <4>1
      <4> QED BY <2>2, <2>4, <2>5, <4>2
    <3> QED BY <1>1, <2>1, <3>1, <3>4, <3>5 DEF Shown
  <2>10. \A i \in Turn : Shown(i)'
    <3>1. ASSUME NEW i \in Turn, i # q PROVE Shown(i)'
      BY <1>1, <2>1, <2>5, <3>1, TurnKeeps
    <3> QED BY <2>9, <3>1
  <2> QED BY <1>2, <2>6, <2>7, <2>8, <2>10 DEF AnswersInv
<1>6. ASSUME Leave PROVE AnswersInv'
  <2>1. open' = FALSE /\ broken' = broken \cup Turn /\ UNCHANGED <<pc, wire>>
    BY <1>6 DEF Leave
  <2>2. Shapes'
    BY <1>1, <2>1, Numbers DEF Shapes
  <2>3. \A i \in Question : Served(i)'
    BY <1>1, <2>1 DEF Served, Texts, LogRow
  <2>4. \A i \in Call : Told(i)'
    BY <1>1, <2>1 DEF Told
  <2>5. ASSUME NEW i \in Turn PROVE Shown(i)'
    <3>1. Got(i)' = Got(i) /\ Ended(i)' = Ended(i) /\ Texts(i)' = Texts(i) /\ i \in broken'
      BY <1>1, <2>1 DEF Got, Ended, Texts
    <3>2. ASSUME NEW k \in 1 .. Len(wire[i]) PROVE FrameOK(i, k)'
      <4>1. FrameOK(i, k)
        BY <1>1, <3>2 DEF Shown
      <4>2. \A n : AllSaid(i, n)' = AllSaid(i, n)
        BY <1>1 DEF AllSaid
      <4> QED BY <1>1, <2>1, <3>1, <4>1, <4>2 DEF FrameOK
    <3>3. Shown(i)
      BY <1>1
    <3> QED BY <1>1, <2>1, <3>1, <3>2, <3>3 DEF Shown
  <2> QED BY <1>2, <2>2, <2>3, <2>4, <2>5 DEF AnswersInv
<1> QED BY <1>3, <1>4, <1>5, <1>6 DEF World

\* The turn of a vote, and where its answer is.
LEMMA VotedTurn ==
  ASSUME AnswersInv, NEW n \in Vote, votes[n].state # "unused"
  PROVE  /\ votes[n] # Unused /\ votes[n].turn \in DOMAIN turns
         /\ votes[n].turn \in Turn /\ votes[n].turn \in Question
         /\ Ended(votes[n].turn) /\ pc[votes[n].turn] = "over"
         /\ turns[votes[n].turn].logId # NoId
         /\ "db" \notin faults => logs[votes[n].turn] # NoRow
<1>1. Unused.state = "unused"
  BY DEF Unused
<1>2. votes[n] # Unused
  BY <1>1
<1>3. PICK i : i = votes[n].turn /\ i \in DOMAIN turns /\ turns[i].logId # NoId
  BY <1>2 DEF AnswersInv, Cast
<1>4. i \in Turn /\ i \in Question
  BY <1>3, Numbers DEF AnswersInv, Shapes
<1>5. Ended(i) /\ pc[i] = "over" /\ ("db" \notin faults => logs[i] # NoRow)
  BY <1>3, <1>4 DEF AnswersInv, Shown
<1> QED BY <1>2, <1>3, <1>4, <1>5

LEMMA VoteBecomes ==
  ASSUME Shapes, NEW n \in Vote, NEW st \in {"served", "failed", "over"},
         votes' = [votes EXCEPT ![n].state = st]
  PROVE  /\ votes' \in [Vote -> VoteRow] /\ \A m \in Vote \ {n} : votes'[m] = votes[m]
         /\ votes'[n].turn = votes[n].turn /\ votes'[n].sent = votes[n].sent
         /\ votes'[n].shown = votes[n].shown /\ votes'[n].state = st
<1>1. votes \in [Vote -> VoteRow] /\ votes[n] \in VoteRow
  BY DEF Shapes
<1> DEFINE w == [votes[n] EXCEPT !.state = st]
<1>2. /\ w \in VoteRow /\ w.turn = votes[n].turn /\ w.sent = votes[n].sent
      /\ w.shown = votes[n].shown /\ w.state = st
  BY <1>1 DEF VoteRow
<1>3. votes' = [votes EXCEPT ![n] = w]
  OBVIOUS
<1> HIDE DEF w
<1> QED BY <1>1, <1>2, <1>3

\* A step that changes the votes only.
LEMMA OnlyVotes ==
  ASSUME AnswersInv, UNCHANGED <<faults, pc, text, logs, broken, wire, reader, turns, asking, open>>,
         votes' \in [Vote -> VoteRow], \A m \in Vote : Cast(m)', VotesAgree'
  PROVE  AnswersInv'
<1>1. Shapes'
  BY DEF AnswersInv, Shapes
<1>2. \A x \in Question : Served(x)'
  BY DEF AnswersInv, Served, Texts, LogRow
<1>3. \A x \in Call : Told(x)'
  BY DEF AnswersInv, Told
<1>4. \A x \in Turn : Shown(x)'
  <2>1. ASSUME NEW x \in Turn PROVE Shown(x)'
    BY Numbers, TurnKeeps DEF AnswersInv
  <2> QED BY <2>1
<1>5. OneStreams'
  BY DEF AnswersInv, OneStreams
<1> QED BY <1>1, <1>2, <1>3, <1>4, <1>5 DEF AnswersInv

LEMMA ClickInv ==
  ASSUME AnswersInv, NEW n \in Vote, NEW i \in DOMAIN turns, NEW fb \in {"up", "down"},
         ClickVote(n, i, fb),
         UNCHANGED <<faults, client, naming, pc, text, broken, wire, reader, asking, open>>
  PROVE  AnswersInv'
<1>1. /\ turns[i].logId # NoId /\ logs' = logs /\ turns' = turns /\ votes[n] = Unused
      /\ "hasty" \notin faults => ~InFlight(i)
  BY DEF ClickVote, AnswersInv, Shapes
<1>2. PICK v \in VoteRow :
               /\ v.turn = i /\ v.sent \in {"up", "down"} /\ v.shown \in {"none", "up", "down"}
               /\ v.shown # "none" => v.sent = v.shown
               /\ v.state = "sent" /\ votes' = [votes EXCEPT ![n] = v]
  <2>1. PICK newFb : /\ newFb \in {"none", fb}
                     /\ newFb = IF turns[i].feedback = fb THEN "none" ELSE fb
    OBVIOUS
  <2> DEFINE w == [turn |-> i, sent |-> IF newFb = "none" THEN "up" ELSE fb,
                   shown |-> newFb, state |-> "sent"]
  <2>2. votes' = [votes EXCEPT ![n] = w]
    BY <2>1 DEF ClickVote
  <2>3. /\ w.turn = i /\ w.sent = (IF newFb = "none" THEN "up" ELSE fb)
        /\ w.shown = newFb /\ w.state = "sent"
    OBVIOUS
  <2>4. w \in VoteRow
    <3>1. i \in Int
      BY Numbers DEF AnswersInv, Shapes
    <3> QED BY <2>1, <3>1 DEF VoteRow
  <2> HIDE DEF w
  <2> QED BY <2>1, <2>2, <2>3, <2>4
<1>3. votes'[n] = v /\ votes' \in [Vote -> VoteRow] /\ \A m \in Vote \ {n} : votes'[m] = votes[m]
  BY <1>2 DEF AnswersInv, Shapes
<1>4. Unused.state = "unused"
  BY DEF Unused
<1>5. \A m \in Vote : Cast(m)'
  BY <1>1, <1>2, <1>3 DEF AnswersInv, Cast
<1>6. VotesAgree'
  <2>1. SUFFICES ASSUME faults \cap {"db", "cut", "hasty"} = {} PROVE VotesAgree'
    BY DEF VotesAgree
  <2>2. /\ \A l, m \in Vote : Flying(l) /\ Flying(m) /\ votes[l].turn = votes[m].turn => l = m
        /\ \A m \in Vote : votes[m].state = "served" => logs[votes[m].turn].feedback = votes[m].sent
        /\ \A t \in DOMAIN turns : turns[t].feedback \in {"up", "down"}
             => \/ logs[t].feedback = turns[t].feedback
                \/ \E m \in Vote : votes[m].state = "served" /\ votes[m].turn = t
    BY <2>1 DEF AnswersInv, VotesAgree
  <2>3. ASSUME NEW m \in Vote, Flying(m), votes[m].turn = i PROVE FALSE
    BY <1>1, <2>1, <2>3 DEF Flying, InFlight
  <2>4. \A l, m \in Vote : Flying(l)' /\ Flying(m)' /\ votes'[l].turn = votes'[m].turn => l = m
    BY <1>2, <1>3, <2>2, <2>3 DEF Flying
  <2>5. \A m \in Vote : votes'[m].state = "served" => logs'[votes'[m].turn].feedback = votes'[m].sent
    BY <1>1, <1>2, <1>3, <2>2
  <2>6. ASSUME NEW t \in DOMAIN turns, turns[t].feedback \in {"up", "down"}
        PROVE  \/ logs'[t].feedback = turns'[t].feedback
               \/ \E m \in Vote : votes'[m].state = "served" /\ votes'[m].turn = t
    <3>1. CASE logs[t].feedback = turns[t].feedback
      BY <1>1, <3>1
    <3>2. ASSUME NEW m \in Vote, votes[m].state = "served" /\ votes[m].turn = t
          PROVE  \E l \in Vote : votes'[l].state = "served" /\ votes'[l].turn = t
      <4>1. m # n
        BY <1>1, <1>4, <3>2
      <4> QED BY <1>3, <3>2, <4>1
    <3> QED BY <2>2, <2>6, <3>1, <3>2
  <2> QED BY <1>1, <2>4, <2>5, <2>6 DEF VotesAgree
<1> QED BY <1>1, <1>3, <1>5, <1>6, OnlyVotes

LEMMA VoteFailsInv ==
  ASSUME AnswersInv, NEW n \in Vote, SetFeedbackFails(n),
         UNCHANGED <<faults, client, naming, pc, text, broken, wire, reader, asking, open>>
  PROVE  AnswersInv'
<1>1. /\ votes[n].state \in {"sent", "served"} /\ logs' = logs /\ turns' = turns
      /\ "cut" \notin faults => votes[n].state = "sent"
      /\ votes' = [votes EXCEPT ![n].state = "failed"]
  BY DEF SetFeedbackFails
<1>2. votes[n] # Unused
  BY <1>1, VotedTurn
<1>3. votes' \in [Vote -> VoteRow] /\ \A m \in Vote \ {n} : votes'[m] = votes[m]
      /\ votes'[n].turn = votes[n].turn /\ votes'[n].sent = votes[n].sent
      /\ votes'[n].shown = votes[n].shown /\ votes'[n].state = "failed"
  BY <1>1, VoteBecomes DEF AnswersInv
<1>5. \A m \in Vote : Cast(m)'
  BY <1>1, <1>2, <1>3 DEF AnswersInv, Cast
<1>6. VotesAgree'
  BY <1>1, <1>3 DEF AnswersInv, VotesAgree, Flying
<1> QED BY <1>1, <1>3, <1>5, <1>6, OnlyVotes

LEMMA StoreInv ==
  ASSUME AnswersInv, NEW n \in Vote, SetFeedback(n),
         UNCHANGED <<faults, client, naming, pc, text, broken, wire, reader, asking, open>>
  PROVE  AnswersInv'
<1>1. /\ votes[n].state = "sent" /\ votes' = [votes EXCEPT ![n].state = "served"]
      /\ turns' = turns
      /\ logs' = [logs EXCEPT ![votes[n].turn] =
                IF @ = NoRow THEN NoRow ELSE [@ EXCEPT !.feedback = votes[n].sent]]
  BY DEF SetFeedback
<1>2. PICK t \in Turn :
        /\ t = votes[n].turn /\ t \in Question /\ votes[n] # Unused
        /\ "db" \notin faults => logs[t] # NoRow
  BY <1>1, VotedTurn
<1>3. /\ votes' \in [Vote -> VoteRow] /\ \A m \in Vote \ {n} : votes'[m] = votes[m]
      /\ votes'[n].turn = t /\ votes'[n].sent = votes[n].sent
      /\ votes'[n].shown = votes[n].shown /\ votes'[n].state = "served"
  BY <1>1, <1>2, VoteBecomes DEF AnswersInv
<1>4. votes[n].sent \in {"up", "down"} /\ Served(t)
  BY <1>2 DEF AnswersInv, Cast
<1>5. PICK row \in LogRow(t) :
        /\ logs' = [logs EXCEPT ![t] = row] /\ row.answer = logs[t].answer
        /\ row = NoRow <=> logs[t] = NoRow
        /\ logs[t] # NoRow => row.feedback = votes[n].sent
  <2>1. logs[t] \in LogRow(t)
    BY <1>4 DEF Served
  <2>2. CASE logs[t] = NoRow
    <3>1. logs' = [logs EXCEPT ![t] = NoRow]
      BY <1>1, <1>2, <2>2
    <3> QED BY <2>1, <2>2, <3>1
  <2>3. CASE logs[t] # NoRow
    <3> DEFINE new == [logs[t] EXCEPT !.feedback = votes[n].sent]
    <3>1. logs' = [logs EXCEPT ![t] = new]
      BY <1>1, <1>2, <2>3
    <3>2. new \in LogRow(t) /\ new.answer = logs[t].answer /\ new.feedback = votes[n].sent
      BY <1>4, <2>1 DEF LogRow
    <3>3. NoRow.feedback = "no row"
      BY DEF NoRow
    <3>4. new # NoRow
      BY <1>4, <3>2, <3>3
    <3> HIDE DEF new
    <3> QED BY <2>3, <3>1, <3>2, <3>4
  <2> QED BY <2>2, <2>3
<1>6. DOMAIN logs' = Question /\ logs'[t] = row /\ \A i \in Question \ {t} : logs'[i] = logs[i]
  BY <1>2, <1>5 DEF AnswersInv, Shapes
<1>7. Shapes'
  BY <1>1, <1>3, <1>6 DEF AnswersInv, Shapes
<1>8. \A i \in Question : Served(i)'
  <2>1. ASSUME NEW i \in Question PROVE Served(i)'
    <3>1. Served(i) /\ Texts(i)' = Texts(i) /\ LogRow(i)' = LogRow(i)
      BY DEF AnswersInv, Texts, LogRow
    <3>2. /\ logs'[i] \in LogRow(i) /\ logs'[i].answer = logs[i].answer
          /\ logs'[i] = NoRow <=> logs[i] = NoRow
      BY <1>5, <1>6, <3>1 DEF Served
    <3> QED BY <3>1, <3>2 DEF Served
  <2> QED BY <2>1
<1>9. \A i \in Call : Told(i)'
  <2>1. ASSUME NEW i \in Call PROVE Told(i)'
    <3>1. i \in Question /\ i # t /\ Told(i)
      BY Numbers DEF AnswersInv
    <3> QED BY <1>6, <3>1, QuestionKeeps
  <2> QED BY <2>1
<1>10. \A i \in Turn : Shown(i)'
  <2>1. ASSUME NEW i \in Turn PROVE Shown(i)'
    <3>1. i \in Question /\ Shown(i)
      BY Numbers DEF AnswersInv
    <3>2. /\ logs'[i].answer = logs[i].answer
          /\ logs'[i] = NoRow <=> logs[i] = NoRow
      BY <1>5, <1>6, <3>1
    <3> QED BY <1>1, <3>1, <3>2, TurnLikewise DEF Ended
  <2> QED BY <2>1
<1>11. OneStreams'
  BY <1>1 DEF AnswersInv, OneStreams
<1>12. \A m \in Vote : Cast(m)'
  BY <1>1, <1>2, <1>3 DEF AnswersInv, Cast
<1>13. VotesAgree'
  <2>1. SUFFICES ASSUME faults \cap {"db", "cut", "hasty"} = {} PROVE VotesAgree'
    BY DEF VotesAgree
  <2>2. /\ \A l, m \in Vote : Flying(l) /\ Flying(m) /\ votes[l].turn = votes[m].turn => l = m
        /\ \A m \in Vote : votes[m].state = "served" => logs[votes[m].turn].feedback = votes[m].sent
        /\ \A i \in DOMAIN turns : turns[i].feedback \in {"up", "down"}
             => \/ logs[i].feedback = turns[i].feedback
                \/ \E m \in Vote : votes[m].state = "served" /\ votes[m].turn = i
    BY <2>1 DEF AnswersInv, VotesAgree
  <2>3. \A l, m \in Vote : Flying(l)' /\ Flying(m)' /\ votes'[l].turn = votes'[m].turn => l = m
    BY <1>1, <1>2, <1>3, <2>2 DEF Flying
  <2>4. logs'[t].feedback = votes[n].sent
    BY <1>2, <1>5, <1>6, <2>1
  <2>5. ASSUME NEW m \in Vote, votes'[m].state = "served"
        PROVE  logs'[votes'[m].turn].feedback = votes'[m].sent
    <3>1. CASE m = n
      BY <1>3, <2>4, <3>1
    <3>2. CASE m # n
      <4>1. votes[m].state = "served" /\ votes'[m] = votes[m]
        BY <1>3, <2>5, <3>2
      <4>2. votes[m].turn # t
        BY <1>1, <1>2, <2>2, <3>2, <4>1 DEF Flying
      <4>3. votes[m].turn \in Question
        BY <4>1, VotedTurn
      <4> QED BY <1>6, <2>2, <4>1, <4>2, <4>3
    <3> QED BY <3>1, <3>2
  <2>6. ASSUME NEW i \in DOMAIN turns, turns[i].feedback \in {"up", "down"}
        PROVE  \/ logs'[i].feedback = turns'[i].feedback
               \/ \E m \in Vote : votes'[m].state = "served" /\ votes'[m].turn = i
    <3>1. CASE i = t
      BY <1>3, <3>1
    <3>2. CASE i # t
      <4>1. i \in Question
        BY Numbers DEF AnswersInv, Shapes
      <4>2. logs'[i] = logs[i]
        BY <1>6, <3>2, <4>1
      <4>3. \A m \in Vote : votes[m].turn = i => votes'[m] = votes[m]
        BY <1>2, <1>3, <3>2
      <4>4. \/ logs[i].feedback = turns[i].feedback
            \/ \E m \in Vote : votes[m].state = "served" /\ votes[m].turn = i
        BY <2>2, <2>6
      <4>5. turns' = turns
        BY <1>1
      <4> QED BY <4>2, <4>3, <4>4, <4>5, Zenon
    <3> QED BY <3>1, <3>2
  <2> QED BY <1>1, <2>3, <2>5, <2>6 DEF VotesAgree
<1> QED BY <1>7, <1>8, <1>9, <1>10, <1>11, <1>12, <1>13 DEF AnswersInv

LEMMA VoteShownInv ==
  ASSUME AnswersInv, NEW n \in Vote, VoteReply(n),
         UNCHANGED <<faults, client, naming, pc, text, broken, wire, reader, asking, open>>
  PROVE  AnswersInv'
<1>1. /\ votes[n].state \in {"served", "failed"} /\ logs' = logs
      /\ votes' = [votes EXCEPT ![n].state = "over"]
      /\ turns' = IF votes[n].state = "failed" THEN turns
                  ELSE [turns EXCEPT ![votes[n].turn].feedback = votes[n].shown]
  BY DEF VoteReply
<1>2. PICK t \in Turn :
        /\ t = votes[n].turn /\ t \in Question /\ t \in DOMAIN turns /\ votes[n] # Unused
        /\ Ended(t) /\ turns[t].logId # NoId
  BY <1>1, VotedTurn
<1>3. /\ votes' \in [Vote -> VoteRow] /\ \A m \in Vote \ {n} : votes'[m] = votes[m]
      /\ votes'[n].turn = t /\ votes'[n].sent = votes[n].sent
      /\ votes'[n].shown = votes[n].shown /\ votes'[n].state = "over"
  BY <1>1, <1>2, VoteBecomes DEF AnswersInv
<1>4. /\ votes[n].shown \in {"none", "up", "down"}
      /\ votes[n].shown # "none" => votes[n].sent = votes[n].shown
  BY <1>2 DEF AnswersInv, Cast
<1>5. CASE votes[n].state = "failed"
  <2>1. turns' = turns
    BY <1>1, <1>5
  <2>2. \A m \in Vote : Cast(m)'
    BY <1>1, <1>2, <1>3, <2>1 DEF AnswersInv, Cast
  <2>3. VotesAgree'
    BY <1>1, <1>3, <1>5, <2>1 DEF AnswersInv, VotesAgree, Flying
  <2> QED BY <1>1, <1>3, <2>1, <2>2, <2>3, OnlyVotes
<1>6. CASE votes[n].state = "served"
  <2>1. turns \in Seq(TurnRow) /\ turns[t] \in TurnRow
    BY <1>2, ElementOfSeq DEF AnswersInv, Shapes
  <2>2. PICK rec \in TurnRow :
          /\ turns' = [turns EXCEPT ![t] = rec] /\ rec.feedback = votes[n].shown
          /\ rec.answer = turns[t].answer /\ rec.streaming = turns[t].streaming
          /\ rec.logId = turns[t].logId
    <3> DEFINE new == [turns[t] EXCEPT !.feedback = votes[n].shown]
    <3>1. turns' = [turns EXCEPT ![t] = new]
      BY <1>1, <1>2, <1>6
    <3>2. /\ new \in TurnRow /\ new.feedback = votes[n].shown
          /\ new.answer = turns[t].answer /\ new.streaming = turns[t].streaming
          /\ new.logId = turns[t].logId
      BY <1>4, <2>1 DEF TurnRow
    <3> HIDE DEF new
    <3> QED BY <3>1, <3>2
  <2>3. /\ turns' \in Seq(TurnRow) /\ DOMAIN turns' = DOMAIN turns /\ turns'[t] = rec
        /\ \A i \in DOMAIN turns \ {t} : turns'[i] = turns[i]
    <3>1. t \in 1 .. Len(turns)
      BY <1>2, <2>1
    <3>2. turns' \in Seq(TurnRow) /\ Len(turns') = Len(turns) /\ turns'[t] = rec
          /\ \A i \in DOMAIN turns \ {t} : turns'[i] = turns[i]
      BY <2>1, <2>2, <3>1, ExceptSeq
    <3> QED BY <2>1, <3>2
  <2>4. \A i \in DOMAIN turns :
          /\ turns'[i].answer = turns[i].answer /\ turns'[i].streaming = turns[i].streaming
          /\ turns'[i].logId = turns[i].logId /\ (Ended(i)' <=> Ended(i))
    BY <1>2, <1>4, <2>2, <2>3 DEF Ended
  <2>5. Shapes'
    BY <1>3, <1>1, <2>3 DEF AnswersInv, Shapes
  <2>6. \A i \in Question : Served(i)'
    BY <1>1 DEF AnswersInv, Served, Texts, LogRow
  <2>7. \A i \in Call : Told(i)'
    BY <1>1 DEF AnswersInv, Told
  <2>8. \A i \in Turn : Shown(i)'
    <3>1. ASSUME NEW i \in Turn PROVE Shown(i)'
      BY <1>1, <2>3, <2>4, TurnLikewise DEF AnswersInv
    <3> QED BY <3>1
  <2>9. OneStreams'
    BY <2>3, <2>4 DEF AnswersInv, OneStreams
  <2>10. \A m \in Vote : Cast(m)'
    BY <1>2, <1>3, <2>3, <2>4 DEF AnswersInv, Cast
  <2>11. VotesAgree'
    <3>1. SUFFICES ASSUME faults \cap {"db", "cut", "hasty"} = {} PROVE VotesAgree'
      BY DEF VotesAgree
    <3>2. /\ \A l, m \in Vote : Flying(l) /\ Flying(m) /\ votes[l].turn = votes[m].turn => l = m
          /\ \A m \in Vote : votes[m].state = "served" => logs[votes[m].turn].feedback = votes[m].sent
          /\ \A i \in DOMAIN turns : turns[i].feedback \in {"up", "down"}
               => \/ logs[i].feedback = turns[i].feedback
                  \/ \E m \in Vote : votes[m].state = "served" /\ votes[m].turn = i
      BY <3>1 DEF AnswersInv, VotesAgree
    <3>3. \A l, m \in Vote : Flying(l)' /\ Flying(m)' /\ votes'[l].turn = votes'[m].turn => l = m
      BY <1>3, <3>2 DEF Flying
    <3>4. \A m \in Vote : votes'[m].state = "served" => logs'[votes'[m].turn].feedback = votes'[m].sent
      BY <1>1, <1>3, <3>2
    <3>5. ASSUME NEW i \in DOMAIN turns, turns'[i].feedback \in {"up", "down"}
          PROVE  \/ logs'[i].feedback = turns'[i].feedback
                 \/ \E m \in Vote : votes'[m].state = "served" /\ votes'[m].turn = i
      <4>1. CASE i = t
        BY <1>1, <1>2, <1>4, <1>6, <2>2, <2>3, <3>2, <3>5, <4>1
      <4>2. CASE i # t
        BY <1>1, <1>2, <1>3, <2>3, <3>2, <3>5, <4>2
      <4> QED BY <4>1, <4>2
    <3> QED BY <2>3, <3>3, <3>4, <3>5 DEF VotesAgree
  <2> QED BY <2>5, <2>6, <2>7, <2>8, <2>9, <2>10, <2>11 DEF AnswersInv
<1> QED BY <1>1, <1>5, <1>6

LEMMA FeedbackInv ==
  ASSUME AnswersInv, NEW n \in Vote, Feedback(n)
  PROVE  AnswersInv'
<1>1. UNCHANGED <<faults, client, naming, pc, text, broken, wire, reader, asking, open>>
  BY DEF Feedback
<1>2. CASE \E i \in DOMAIN turns, feedback \in {"up", "down"} : ClickVote(n, i, feedback)
  BY <1>1, <1>2, ClickInv
<1>3. CASE SetFeedback(n)
  BY <1>1, <1>3, StoreInv
<1>4. CASE SetFeedbackFails(n)
  BY <1>1, <1>4, VoteFailsInv
<1>5. CASE VoteReply(n)
  BY <1>1, <1>5, VoteShownInv
<1> QED BY <1>2, <1>3, <1>4, <1>5 DEF Feedback

LEMMA AnswersInit ==
  ASSUME Init
  PROVE  AnswersInv
<1>1. /\ pc = [q \in Question |-> "idle"] /\ text = [q \in Question |-> <<>>]
      /\ logs = [q \in Question |-> NoRow] /\ broken = {}
      /\ wire = [q \in Question |-> <<>>] /\ reader = [q \in Turn |-> "idle"]
      /\ turns = <<>> /\ asking = FALSE /\ open = TRUE /\ votes = [n \in Vote |-> Unused]
  BY DEF Init
<1>2. DOMAIN turns = {} /\ turns \in Seq(TurnRow)
  BY <1>1
<1>3. Unused \in VoteRow
  BY DEF Unused, VoteRow
<1>4. Shapes
  <2>1. pc \in [Question -> Stage] /\ wire \in [Question -> Seq(WireFrame)]
    BY <1>1 DEF Stage
  <2>2. votes \in [Vote -> VoteRow]
    BY <1>1, <1>3
  <2>3. /\ broken \subseteq Question /\ reader \in [Turn -> {"idle", "reading", "over"}]
        /\ asking \in BOOLEAN /\ open \in BOOLEAN
        /\ DOMAIN text = Question /\ DOMAIN logs = Question
    BY <1>1
  <2>4. DOMAIN turns \subseteq Turn
    BY <1>2
  <2> QED BY <1>2, <2>1, <2>2, <2>3, <2>4 DEF Shapes
<1>5. \A q \in Question : Served(q)
  <2>1. ASSUME NEW q \in Question PROVE Served(q)
    <3>1. text[q] = <<>> /\ logs[q] = NoRow /\ pc[q] = "idle" /\ <<>> \in Texts(q)
      BY <1>1, TextsAre
    <3>2. NoRow \in LogRow(q)
      BY <3>1 DEF NoRow, LogRow
    <3> QED BY <3>1, <3>2 DEF Served
  <2> QED BY <2>1
<1>6. \A q \in Call : Told(q)
  BY <1>1, Numbers DEF Told
<1>7. \A q \in Turn : Shown(q)
  <2>1. ASSUME NEW q \in Turn PROVE Shown(q)
    <3>1. /\ q \in Question /\ q \notin DOMAIN turns /\ pc[q] = "idle" /\ reader[q] = "idle"
          /\ wire[q] = <<>> /\ Len(wire[q]) = 0 /\ q \notin broken /\ open
      BY <1>1, <1>2, Numbers
    <3> QED BY <3>1 DEF Shown
  <2> QED BY <2>1
<1>8. OneStreams
  BY <1>1, <1>2 DEF OneStreams
<1>9. \A n \in Vote : Cast(n) /\ votes[n].state = "unused"
  BY <1>1 DEF Cast, Unused
<1>10. VotesAgree
  BY <1>2, <1>9 DEF VotesAgree, Flying
<1> QED BY <1>4, <1>5, <1>6, <1>7, <1>8, <1>9, <1>10 DEF AnswersInv

LEMMA AnswersStep ==
  ASSUME AnswersInv, [Next]_vars
  PROVE  AnswersInv'
<1>1. CASE \E q \in Question : Serve(q)
  BY <1>1, ServeInv
<1>2. CASE \E q \in Turn : Read(q)
  BY <1>2, ReadInv
<1>3. CASE \E n \in Vote : Feedback(n)
  BY <1>3, FeedbackInv
<1>4. CASE Ask
  BY <1>4, AskInv
<1>5. CASE World
  BY <1>5, WorldInv
<1>6. CASE UNCHANGED vars
  <2>1. UNCHANGED <<faults, pc, text, logs, broken, wire, reader, turns, asking, open, votes>>
    BY <1>6 DEF vars
  <2>2. votes' \in [Vote -> VoteRow] /\ (\A m \in Vote : Cast(m)') /\ VotesAgree'
    BY <2>1 DEF AnswersInv, Shapes, Cast, VotesAgree, Flying
  <2> QED BY <2>1, <2>2, OnlyVotes
<1> QED BY <1>1, <1>2, <1>3, <1>4, <1>5, <1>6 DEF Next

-----------------------------------------------------------------------------
(* The theorems.                                                           *)
\* In every behaviour each handler, each wire and each turn of the page agree
\* about how far an answer has come.
THEOREM AnswersInvariant == Spec => []AnswersInv
<1>1. Init => AnswersInv
  BY AnswersInit
<1>2. AnswersInv /\ [Next]_vars => AnswersInv'
  BY AnswersStep
<1> QED BY <1>1, <1>2, PTL DEF Spec

\* Texts are the beginnings of their own question's answer, the note or, on the
\* page, the message of a failure: no stream mixes with another, none is out of
\* order, and nothing arrives twice.
THEOREM AnswersTypeCorrect == Spec => []TypeOK
<1>1. AnswersInv => TypeOK
  <2> SUFFICES ASSUME AnswersInv PROVE TypeOK
    OBVIOUS
  <2>1. \A q \in Question :
       /\ pc[q] \in {"idle", "asked", "answering", "answered", "logged", "over"}
       /\ text[q] \in Texts(q)
       /\ logs[q] \in [answer : Texts(q), feedback : {"no row", "none", "up", "down"}]
    BY DEF AnswersInv, Shapes, Stage, Served, LogRow
  <2>2. ASSUME NEW i \in DOMAIN turns
        PROVE  turns[i] \in [answer : Texts(i) \cup {Failure}, streaming : BOOLEAN,
                    logId : {NoId, i}, feedback : {"unset", "none", "up", "down"}]
    <3>1. turns \in Seq(TurnRow) /\ i \in Turn
      BY DEF AnswersInv, Shapes
    <3>2. turns[i] \in TurnRow
      BY <3>1, ElementOfSeq
    <3>3. turns[i].answer \in Texts(i) \cup {Failure} /\ turns[i].logId \in {NoId, i}
      BY <3>1 DEF AnswersInv, Shown
    <3> QED BY <3>2, <3>3 DEF TurnRow
  <2> QED BY <2>1, <2>2 DEF TypeOK, AnswersInv, Shapes
<1> QED BY <1>1, AnswersInvariant, PTL

\* A turn that a done event has ended, and the reply of the one-shot path, say
\* what the row of qa_logs says, unless the database failed.
THEOREM ToldWasLogged == Spec => []ToldIsLogged
<1>1. AnswersInv => ToldIsLogged
  <2> SUFFICES ASSUME AnswersInv, "db" \notin faults
               PROVE  /\ \A i \in DOMAIN turns : Ended(i) =>
                           /\ logs[i] # NoRow
                           /\ turns[i].answer \in {<<>>, Failure, logs[i].answer}
                      /\ \A q \in Call : Replied(q) => logs[q].answer = Head(wire[q]).text
    BY DEF ToldIsLogged
  <2>1. \A i \in DOMAIN turns : i \in Turn /\ Shown(i)
    BY DEF AnswersInv, Shapes
  <2>2. \A i \in DOMAIN turns : Ended(i) =>
          /\ logs[i] # NoRow
          /\ turns[i].answer \in {<<>>, Failure, logs[i].answer}
    BY <2>1 DEF Shown
  <2>3. \A q \in Call : Replied(q) => logs[q].answer = Head(wire[q]).text
    BY DEF AnswersInv, Told, Replied
  <2> QED BY <2>2, <2>3
<1> QED BY <1>1, AnswersInvariant, PTL

\* The question box is closed exactly while an answer streams, as long as no
\* connection breaks.
THEOREM BoxClosedWhileStreaming == Spec => []AskingIffStreaming
<1>1. AnswersInv => AskingIffStreaming
  BY DEF AnswersInv, OneStreams, AskingIffStreaming
<1> QED BY <1>1, AnswersInvariant, PTL

\* Once nothing is on its way, the vote the page shows is the one in qa_logs,
\* however often the user changed it.
THEOREM ShownVoteWasStored == Spec => []ShownVoteIsStored
<1>1. AnswersInv => ShownVoteIsStored
  <2> SUFFICES ASSUME AnswersInv, faults \cap {"db", "cut", "hasty"} = {},
                      NEW i \in DOMAIN turns, turns[i].feedback \in {"up", "down"},
                      ~InFlight(i)
               PROVE  logs[i].feedback = turns[i].feedback
    BY DEF ShownVoteIsStored
  <2>1. ~ \E n \in Vote : votes[n].state = "served" /\ votes[n].turn = i
    BY DEF InFlight
  <2> QED BY <2>1 DEF AnswersInv, VotesAgree
<1> QED BY <1>1, AnswersInvariant, PTL

\* No step takes back or changes an answer the user has before him that no
\* longer streams, whatever arrives late.
THEOREM SettledTurnStays == Spec => SettledTurnKeepsAnswer
<1>1. AnswersInv /\ [Next]_vars =>
        [\A i \in DOMAIN turns :
           turns[i].answer # <<>> /\ ~turns[i].streaming
             => turns'[i].answer = turns[i].answer /\ ~turns'[i].streaming]_vars
  <2> SUFFICES ASSUME AnswersInv, Next, NEW i \in DOMAIN turns,
                      turns[i].answer # <<>>, ~turns[i].streaming
               PROVE  turns'[i].answer = turns[i].answer /\ ~turns'[i].streaming
    BY Zenon
  <2>1. turns \in Seq(TurnRow) /\ turns[i] \in TurnRow /\ i \in 1 .. Len(turns)
    BY ElementOfSeq DEF AnswersInv, Shapes
  <2>2. CASE turns' = turns
    BY <2>2
  <2>3. ASSUME NEW q \in Turn, Read(q)
        PROVE  turns'[i].answer = turns[i].answer /\ ~turns'[i].streaming
    <3>1. Shown(q) /\ Shapes /\ \A x \in Question : Served(x)
      BY DEF AnswersInv
    <3>2. TurnStep(q)
      BY <2>3, <3>1, ReadShown
    <3>3. PICK rec \in TurnRow, left \in Seq(WireFrame), r \in {"reading", "over"} :
            ReadTouches(q, rec, left, r)
      BY <2>3, <3>1, ReadShown
    <3>4. CASE i = q
      BY <3>2, <3>4 DEF TurnStep
    <3>5. CASE i # q
      <4>1. turns'[i] = turns[i]
        BY <3>3, <3>5 DEF ReadTouches
      <4> QED BY <4>1
    <3> QED BY <3>4, <3>5
  <2>4. CASE Ask
    <3> DEFINE new == [answer |-> <<>>, streaming |-> TRUE, logId |-> NoId,
                       feedback |-> "unset"]
    <3>1. turns' = Append(turns, new)
      BY <2>4 DEF Ask
    <3>2. new \in TurnRow
      BY DEF TurnRow, NoId
    <3> HIDE DEF new
    <3>3. turns'[i] = turns[i]
      BY <2>1, <3>1, <3>2, AppendProperties
    <3> QED BY <3>3
  <2>5. ASSUME NEW n \in Vote, VoteReply(n)
        PROVE  turns'[i].answer = turns[i].answer /\ ~turns'[i].streaming
    <3>1. CASE turns' = turns
      BY <3>1
    <3>2. CASE turns' = [turns EXCEPT ![votes[n].turn].feedback = votes[n].shown]
      <4>1. turns'[i] = IF i = votes[n].turn THEN [turns[i] EXCEPT !.feedback = votes[n].shown]
                        ELSE turns[i]
        BY <2>1, <3>2
      <4> QED BY <2>1, <4>1 DEF TurnRow
    <3> QED BY <2>5, <3>1, <3>2 DEF VoteReply
  <2> QED BY <2>2, <2>3, <2>4, <2>5
          DEF Next, Serve, page, World, Feedback, ClickVote, SetFeedback, SetFeedbackFails
<1> QED BY <1>1, AnswersInvariant, PTL DEF Spec, SettledTurnKeepsAnswer
=============================================================================
