------------------------------ MODULE MCAnswers ------------------------------
EXTENDS Answers

\* No mishap, each kind that a property names as an exception with those it
\* does not, and all of them but a body that ends early.
Usual == {"auth", "retrieval", "llm"}
MCFaultModels == {{}, Usual, Usual \cup {"db"}, Usual \cup {"cut"}, {"truncate", "llm"},
                  {"leave", "llm"}, {"hasty"}}

\* The names the server sends, and those the page was written for, under which
\* the votes and the fallback text come to life.
MCNamings == {"go", "ts"}

\* The server's alone, and nothing that fails.
SentNamings == {"go"}
NoMishap == {{}}

\* "a final `done` event carrying the sources and the qa log id. The frontend
\* can render tokens as they arrive and attach feedback once done."
\* (handler/qa.go:30-32): a turn that ended with done can be voted on.
FeedbackAfterDone == \A i \in DOMAIN turns : Ended(i) => turns[i].logId # NoId
=============================================================================
