------------------------------- MODULE Answers -------------------------------
(***************************************************************************)
(* Questions and their answers, from the page that asks to the log that    *)
(* keeps them: QAHandler.Ask and QAService answer a question, over server- *)
(* sent events for the page and in one JSON reply for other clients;       *)
(* askStream and QAPage show what arrives and send votes back.             *)
(*                                                                         *)
(* A question is a number: those of the page, which are the indices of its *)
(* turns, then those of other clients. A text is a sequence of fragments,  *)
(* each of which tells the question it answers, so that no two texts of    *)
(* different origin are equal.                                             *)
(***************************************************************************)
EXTENDS Integers, Sequences

CONSTANTS
  MaxTurns,     \* bound: questions the page asks
  MaxCalls,     \* bound: questions of other clients
  MaxTokens,    \* bound: fragments the model produces for one answer
  MaxVotes,     \* bound: votes the user gives
  FaultModels,  \* the sets of mishaps to consider
  Namings       \* the names the fields of a result travel under

ASSUME AnswersAssumption ==
  /\ MaxTurns \in Nat /\ MaxCalls \in Nat /\ MaxTokens \in Nat /\ MaxVotes \in Nat
  /\ FaultModels \subseteq SUBSET {"auth", "retrieval", "llm", "db", "cut",
                                   "truncate", "leave", "hasty"}
  /\ Namings \subseteq {"go", "ts"}

VARIABLES
  faults,  \* what may go wrong in this behaviour
  client,  \* who asks in it: they meet only in qa_logs, in rows of their own
  naming,  \* "go": those of the Go struct; "ts": those api/qa.ts declares
  pc,      \* where the handler of each question is
  text,    \* its answer so far
  logs,    \* the rows of qa_logs
  broken,  \* questions whose request context is cancelled
  wire,    \* frames on their way to each client
  reader,  \* what askStream does for each question
  turns, asking, open,  \* the state of QAPage, and whether it is still there
  votes    \* feedback requests

vars == <<faults, client, naming, pc, text, logs, broken, wire, reader,
          turns, asking, open, votes>>
server == <<pc, text, logs>>
page == <<turns, asking, open>>

Turn == 1 .. MaxTurns
Call == MaxTurns + 1 .. MaxTurns + MaxCalls
Question == Turn \cup Call
Vote == 1 .. MaxVotes

Note == <<<<0, 0>>>>     \* the friendly message that stands for a failed answer
Failure == <<<<0, 1>>>>  \* what the page shows instead of an answer
NoRow == [answer |-> <<>>, feedback |-> "no row"]
NoId == 0
Unused == [turn |-> 0, sent |-> "", shown |-> "", state |-> "unused"]

Delta(q, k) == [event |-> "delta", text |-> <<<<q, k>>>>, logId |-> NoId]
Result(e, q) == [event |-> e, text |-> text[q], logId |-> q]
Frame(e) == [event |-> e, text |-> <<>>, logId |-> NoId]

Init ==
  /\ faults \in FaultModels
  /\ client \in {"page", "other"}
  /\ naming \in Namings
  /\ pc = [q \in Question |-> "idle"]
  /\ text = [q \in Question |-> <<>>]
  /\ logs = [q \in Question |-> NoRow]
  /\ broken = {}
  /\ wire = [q \in Question |-> <<>>]
  /\ reader = [q \in Turn |-> "idle"]
  /\ turns = <<>> /\ asking = FALSE /\ open = TRUE
  /\ votes = [n \in Vote |-> Unused]

-----------------------------------------------------------------------------
(* The server. Writes to a client that is gone are lost without an error.  *)
Send(q, frames) ==
  wire' = IF q \in broken THEN wire ELSE [wire EXCEPT ![q] = @ \o frames]

\* The middleware or the binding of the request refuses it.
Refuse(q) ==
  /\ pc[q] = "asked" /\ "auth" \in faults
  /\ pc' = [pc EXCEPT ![q] = "over"]
  /\ Send(q, <<Frame("refused")>>)
  /\ UNCHANGED <<text, logs>>

\* The question is embedded and the chunks fetched before anything is said.
Retrieve(q) ==
  /\ pc[q] = "asked"
  /\ pc' = [pc EXCEPT ![q] = "answering"]
  /\ UNCHANGED <<text, logs, wire>>

RetrieveFails(q) ==
  /\ pc[q] = "asked" /\ ("retrieval" \in faults \/ q \in broken)
  /\ pc' = [pc EXCEPT ![q] = "over"]
  /\ Send(q, IF q \in Turn THEN <<Frame("error"), Frame("eof")>>
             ELSE <<Frame("refused")>>)
  /\ UNCHANGED <<text, logs>>

\* One fragment of a streamed answer.
StreamToken(q) ==
  /\ pc[q] = "answering" /\ q \in Turn /\ Len(text[q]) < MaxTokens
  /\ text' = [text EXCEPT ![q] = Append(@, <<q, Len(@) + 1>>)]
  /\ Send(q, <<Delta(q, Len(text[q]) + 1)>>)
  /\ UNCHANGED <<pc, logs>>

StreamEnds(q) ==
  /\ pc[q] = "answering" /\ q \in Turn
  /\ pc' = [pc EXCEPT ![q] = "answered"]
  /\ UNCHANGED <<text, logs, wire>>

\* A mutant: only whole answers are logged.
MutantStreamFailsUnlogged(q) ==
  /\ pc[q] = "answering" /\ q \in Turn /\ ("llm" \in faults \/ q \in broken)
  /\ pc' = [pc EXCEPT ![q] = "logged"]
  /\ text' = [text EXCEPT ![q] = IF @ = <<>> THEN Note ELSE @]
  /\ UNCHANGED <<logs, wire>>

\* Only an answer of which nothing arrived is replaced by the note.
StreamFails(q) ==
  /\ pc[q] = "answering" /\ q \in Turn /\ ("llm" \in faults \/ q \in broken)
  /\ pc' = [pc EXCEPT ![q] = "answered"]
  /\ text' = [text EXCEPT ![q] = IF @ = <<>> THEN Note ELSE @]
  /\ UNCHANGED <<logs, wire>>

\* The one-shot path takes the whole answer, or the note in its place.
Complete(q) ==
  /\ pc[q] = "answering" /\ q \in Call
  /\ pc' = [pc EXCEPT ![q] = "answered"]
  /\ text' = [text EXCEPT ![q] = [k \in 1 .. MaxTokens |-> <<q, k>>]]
  /\ UNCHANGED <<logs, wire>>

CompleteFails(q) ==
  /\ pc[q] = "answering" /\ q \in Call /\ ("llm" \in faults \/ q \in broken)
  /\ pc' = [pc EXCEPT ![q] = "answered"]
  /\ text' = [text EXCEPT ![q] = Note]
  /\ UNCHANGED <<logs, wire>>

\* A mutant: the row is taken before the last fragment is in.
MutantLogTruncated(q) ==
  /\ pc[q] = "answered"
  /\ pc' = [pc EXCEPT ![q] = "logged"]
  /\ logs' = [logs EXCEPT ![q] = [answer |-> SubSeq(text[q], 1, Len(text[q]) - 1),
                                  feedback |-> "none"]]
  /\ UNCHANGED <<text, wire>>

Log(q) ==
  /\ pc[q] = "answered"
  /\ pc' = [pc EXCEPT ![q] = "logged"]
  /\ logs' = [logs EXCEPT ![q] = [answer |-> text[q], feedback |-> "none"]]
  /\ UNCHANGED <<text, wire>>

\* The insert fails; the answer goes on, with the id the row would have had.
LogFails(q) ==
  /\ pc[q] = "answered" /\ ("db" \in faults \/ q \in broken)
  /\ pc' = [pc EXCEPT ![q] = "logged"]
  /\ UNCHANGED <<text, logs, wire>>

Finish(q) ==
  /\ pc[q] = "logged"
  /\ pc' = [pc EXCEPT ![q] = "over"]
  /\ Send(q, IF q \in Turn THEN <<Result("done", q), Frame("eof")>>
             ELSE <<Result("reply", q)>>)
  /\ UNCHANGED <<text, logs>>

Serve(q) ==
  /\ \/ Refuse(q) \/ Retrieve(q) \/ RetrieveFails(q)
     \/ StreamToken(q) \/ StreamEnds(q) \/ StreamFails(q)
     \/ Complete(q) \/ CompleteFails(q)
     \/ Log(q) \/ LogFails(q) \/ Finish(q)
  /\ UNCHANGED <<faults, client, naming, broken, reader, page, votes>>

-----------------------------------------------------------------------------
(* The page. Each turn has its own call of askStream.                      *)
Ask ==
  LET q == Len(turns) + 1
  IN  /\ client = "page" /\ open /\ ~asking /\ q \in Turn
      /\ asking' = TRUE
      /\ turns' = Append(turns, [answer |-> <<>>, streaming |-> TRUE,
                                 logId |-> NoId, feedback |-> "unset"])
      /\ pc' = [pc EXCEPT ![q] = "asked"]
      /\ reader' = [reader EXCEPT ![q] = "reading"]
      /\ UNCHANGED <<faults, client, naming, text, logs, broken, wire, open, votes>>

Handles(q, event) ==
  /\ open /\ reader[q] = "reading" /\ wire[q] # <<>>
  /\ Head(wire[q]).event = event
  /\ wire' = [wire EXCEPT ![q] = Tail(@)]

OnDelta(q) ==
  /\ Handles(q, "delta")
  /\ turns' = [turns EXCEPT ![q].answer = @ \o Head(wire[q]).text]
  /\ UNCHANGED <<reader, asking>>

\* A mutant: the answer of the result is added to what has streamed.
MutantOnDoneAppends(q) ==
  LET result == IF naming = "ts" THEN Head(wire[q]) ELSE Frame("done")
  IN  /\ Handles(q, "done")
      /\ turns' = [turns EXCEPT ![q] =
           [answer |-> @.answer \o result.text, streaming |-> FALSE,
            logId |-> result.logId, feedback |-> "none"]]
      /\ asking' = FALSE
      /\ UNCHANGED reader

\* The page reads log_id and answer; under the names of the Go struct they are
\* undefined, which is what NoId and the empty text stand for here.
OnDone(q) ==
  LET result == IF naming = "ts" THEN Head(wire[q]) ELSE Frame("done")
  IN  /\ Handles(q, "done")
      /\ turns' = [turns EXCEPT ![q] =
           [answer |-> IF @.answer = <<>> THEN result.text ELSE @.answer,
            streaming |-> FALSE, logId |-> result.logId, feedback |-> "none"]]
      /\ asking' = FALSE
      /\ UNCHANGED reader

MutantOnErrorReplaces(q) ==
  /\ turns' = [turns EXCEPT ![q].answer = Failure, ![q].streaming = FALSE]
  /\ asking' = FALSE

MutantOnErrorStaysBusy(q) ==
  /\ turns' = [turns EXCEPT ![q].answer = IF @ = <<>> THEN Failure ELSE @,
                            ![q].streaming = FALSE]
  /\ UNCHANGED asking

onError(q) ==
  /\ turns' = [turns EXCEPT ![q].answer = IF @ = <<>> THEN Failure ELSE @,
                            ![q].streaming = FALSE]
  /\ asking' = FALSE

\* An error event does not end the loop, a refused request never begins it.
OnErrorEvent(q) == Handles(q, "error") /\ onError(q) /\ UNCHANGED reader
OnRefused(q) ==
  /\ Handles(q, "refused") /\ onError(q)
  /\ reader' = [reader EXCEPT ![q] = "over"]

\* The end of the body ends the loop and tells the page nothing.
BodyEnds(q) ==
  /\ Handles(q, "eof")
  /\ reader' = [reader EXCEPT ![q] = "over"]
  /\ UNCHANGED <<turns, asking>>

\* A mutant: an exception ends the loop as the end of the body does.
MutantReadFailsSilent(q) ==
  /\ open /\ reader[q] = "reading" /\ q \in broken /\ wire[q] = <<>>
  /\ reader' = [reader EXCEPT ![q] = "over"]
  /\ UNCHANGED <<turns, asking, wire>>

\* fetch or read throws, whatever events the turn has seen before.
ReadFails(q) ==
  /\ open /\ reader[q] = "reading" /\ q \in broken /\ wire[q] = <<>>
  /\ onError(q)
  /\ reader' = [reader EXCEPT ![q] = "over"]
  /\ UNCHANGED wire

Read(q) ==
  /\ \/ OnDelta(q) \/ OnDone(q) \/ OnErrorEvent(q) \/ OnRefused(q)
     \/ BodyEnds(q) \/ ReadFails(q)
  /\ UNCHANGED <<faults, client, naming, server, broken, open, votes>>
-----------------------------------------------------------------------------
(* Votes. The buttons are there once an answer is settled; without an id a *)
(* click does nothing.                                                     *)
InFlight(i) ==
  \E n \in Vote : votes[n].turn = i /\ votes[n].state \in {"sent", "served", "failed"}

ClickVote(n, i, feedback) ==
  LET newFb == IF turns[i].feedback = feedback THEN "none" ELSE feedback
  IN  /\ open /\ turns[i].logId # NoId /\ turns[i].answer # <<>> /\ ~turns[i].streaming
      /\ "hasty" \in faults \/ ~InFlight(i)
      /\ votes[n] = Unused /\ \A m \in 1 .. n - 1 : votes[m] # Unused
      /\ votes' = [votes EXCEPT ![n] =
           [turn |-> i, sent |-> IF newFb = "none" THEN "up" ELSE feedback,
            shown |-> newFb, state |-> "sent"]]
      /\ UNCHANGED <<logs, turns>>

\* An UPDATE of a row that is not there succeeds as well.
SetFeedback(n) ==
  /\ votes[n].state = "sent"
  /\ votes' = [votes EXCEPT ![n].state = "served"]
  /\ logs' = [logs EXCEPT ![votes[n].turn] =
                IF @ = NoRow THEN NoRow ELSE [@ EXCEPT !.feedback = votes[n].sent]]
  /\ UNCHANGED turns

SetFeedbackFails(n) ==
  /\ \/ votes[n].state = "sent" /\ faults \cap {"auth", "db", "cut"} # {}
     \/ votes[n].state = "served" /\ "cut" \in faults
  /\ votes' = [votes EXCEPT ![n].state = "failed"]
  /\ UNCHANGED <<logs, turns>>

\* A mutant: the page shows the vote even if the server refused it.
MutantVoteReplyAlways(n) ==
  /\ open /\ votes[n].state \in {"served", "failed"}
  /\ votes' = [votes EXCEPT ![n].state = "over"]
  /\ turns' = [turns EXCEPT ![votes[n].turn].feedback = votes[n].shown]
  /\ UNCHANGED logs

VoteReply(n) ==
  /\ open /\ votes[n].state \in {"served", "failed"}
  /\ votes' = [votes EXCEPT ![n].state = "over"]
  /\ turns' = IF votes[n].state = "failed" THEN turns
              ELSE [turns EXCEPT ![votes[n].turn].feedback = votes[n].shown]
  /\ UNCHANGED logs

Feedback(n) ==
  /\ \/ \E i \in DOMAIN turns, feedback \in {"up", "down"} : ClickVote(n, i, feedback)
     \/ SetFeedback(n) \/ SetFeedbackFails(n) \/ VoteReply(n)
  /\ UNCHANGED <<faults, client, naming, pc, text, broken, wire, reader, asking, open>>

-----------------------------------------------------------------------------
(* Other clients, and what happens to connections.                         *)
CallAsk(q) ==
  /\ client = "other" /\ pc[q] = "idle"
  /\ pc' = [pc EXCEPT ![q] = "asked"]
  /\ UNCHANGED <<broken, wire, open>>

\* A connection breaks: both ends learn of it, what was under way is lost.
Cut(q) ==
  /\ "cut" \in faults /\ q \notin broken
  /\ IF q \in Turn THEN reader[q] = "reading" ELSE pc[q] \notin {"idle", "over"}
  /\ broken' = broken \cup {q}
  /\ wire' = [wire EXCEPT ![q] = <<>>]
  /\ UNCHANGED <<pc, open>>

\* Something between the two ends the body as if it were complete.
Truncate(q) ==
  /\ "truncate" \in faults /\ q \notin broken /\ pc[q] \notin {"idle", "over"}
  /\ broken' = broken \cup {q}
  /\ wire' = [wire EXCEPT ![q] = Append(@, Frame("eof"))]
  /\ UNCHANGED <<pc, open>>

\* The tab is closed or reloaded: its requests are cancelled.
Leave ==
  /\ "leave" \in faults /\ open /\ client = "page"
  /\ open' = FALSE
  /\ broken' = broken \cup Turn
  /\ UNCHANGED <<pc, wire>>

World ==
  /\ \/ \E q \in Call : CallAsk(q)
     \/ \E q \in Question : Cut(q)
     \/ \E q \in Turn : Truncate(q)
     \/ Leave
  /\ UNCHANGED <<faults, client, naming, text, logs, reader, turns, asking, votes>>

Next ==
  \/ \E q \in Question : Serve(q)
  \/ \E q \in Turn : Read(q)
  \/ \E n \in Vote : Feedback(n)
  \/ Ask
  \/ World

\* The server goes on with each question, the 60 s timeout of the model's client
\* ending a stream that does not, and the page reads what there is; nothing
\* makes a user ask or a connection break.
Fairness ==
  /\ \A q \in Question : WF_vars(Serve(q))
  /\ \A q \in Turn : WF_vars(Read(q))

Spec == Init /\ [][Next]_vars /\ Fairness

-----------------------------------------------------------------------------
\* Everything has its type, and a text is the beginning of its own question's
\* answer, the note or, on the page, the message of a failure.
Texts(q) == {[k \in 1 .. n |-> <<q, k>>] : n \in 0 .. MaxTokens} \cup {Note}
TypeOK ==
  /\ broken \subseteq Question
  /\ reader \in [Turn -> {"idle", "reading", "over"}]
  /\ asking \in BOOLEAN /\ open \in BOOLEAN
  /\ \A q \in Question :
       /\ pc[q] \in {"idle", "asked", "answering", "answered", "logged", "over"}
       /\ text[q] \in Texts(q)
       /\ logs[q] \in [answer : Texts(q), feedback : {"no row", "none", "up", "down"}]
  /\ DOMAIN turns \subseteq Turn
  /\ \A i \in DOMAIN turns :
       turns[i] \in [answer : Texts(i) \cup {Failure}, streaming : BOOLEAN,
                    logId : {NoId, i}, feedback : {"unset", "none", "up", "down"}]

\* What a client was told is what the log has kept, to the last fragment: of
\* every turn that a done event has ended (StreamAnswer logs before it returns)
\* and every reply of the one-shot path, unless the database failed.
Ended(i) == turns[i].feedback # "unset"
Replied(q) == wire[q] # <<>> /\ Head(wire[q]).event = "reply"
ToldIsLogged ==
  "db" \notin faults =>
    /\ \A i \in DOMAIN turns : Ended(i) =>
         /\ logs[i] # NoRow
         /\ turns[i].answer \in {<<>>, Failure, logs[i].answer}
    /\ \A q \in Call : Replied(q) => logs[q].answer = Head(wire[q]).text

\* The question box is closed exactly while an answer streams, so that answers
\* do not interleave; a read that fails after done breaks this (QAPage.tsx:88).
AskingIffStreaming ==
  "cut" \notin faults => (asking <=> \E i \in DOMAIN turns : turns[i].streaming)

\* A vote the page shows is the vote the dashboard counts, once nothing is on
\* its way, however often the user changed it; a row or a reply that was lost,
\* and votes that overtake each other, are the exceptions.
ShownVoteIsStored ==
  faults \cap {"db", "cut", "hasty"} = {} =>
    \A i \in DOMAIN turns :
      turns[i].feedback \in {"up", "down"} /\ ~InFlight(i)
        => logs[i].feedback = turns[i].feedback

\* Whatever arrives late, an answer that the user has before him and that no
\* longer streams does not change, nor does a stream write to another turn.
SettledTurnKeepsAnswer ==
  [][\A i \in DOMAIN turns :
       turns[i].answer # <<>> /\ ~turns[i].streaming
         => turns'[i].answer = turns[i].answer /\ ~turns'[i].streaming]_vars

\* Nobody waits for nothing: while a turn of a page that is there streams, its
\* loop reads; its handler is at work, or has sent what ends the turn, or the
\* connection is broken and nothing is left before the read that fails.
Ends == {"done", "error", "refused"}
Streaming(i) == i \in DOMAIN turns /\ turns[i].streaming
TurnIsFed ==
  "truncate" \notin faults /\ open =>
    \A i \in Turn : Streaming(i) =>
      /\ reader[i] = "reading"
      /\ IF i \in broken THEN wire[i] = <<>>
         ELSE pc[i] = "over" => \E k \in DOMAIN wire[i] : wire[i][k].event \in Ends

\* Every turn ends, with an answer or an error, however the server or the
\* connection fails; only a body that ends early leaves the page waiting.
TurnEnds ==
  "truncate" \notin faults => \A i \in Turn : Streaming(i) ~> (~open \/ ~Streaming(i))

-----------------------------------------------------------------------------
(* What people can tell of this state, whoever asked.                      *)
Opened(q) == IF q \in Turn THEN q \in DOMAIN turns ELSE pc[q] # "idle"
Concluded(q) == IF q \in Turn THEN Ended(q) ELSE Replied(q)
Closed(q) == IF q \in Turn THEN ~turns[q].streaming ELSE pc[q] = "over"

StageOf(q) == IF ~Opened(q) THEN "unasked" ELSE IF Concluded(q) THEN "concluded"
              ELSE IF Closed(q) THEN "broken off" ELSE "open"
ShownOf(q) == IF q \in DOMAIN turns THEN turns[q].answer
              ELSE IF q \in Call /\ Replied(q) THEN Head(wire[q]).text ELSE <<>>

Book == INSTANCE Transcript WITH
  Answer <- [q \in Question |-> Texts(q)],
  reliable <- "db" \notin faults,
  stage <- [q \in Question |-> StageOf(q)],
  shown <- [q \in Question |-> ShownOf(q)],
  kept <- [q \in Question |-> IF logs[q] = NoRow THEN {} ELSE {logs[q].answer}]

\* Every step of a handler, a stream, a page, a vote or a mishap is a step of the
\* transcript or invisible to it: what is shown of an answer, over whichever
\* path, and what StreamAnswer and Ask log of it are one text.
ImplementsTranscript == Book!Spec
=============================================================================
