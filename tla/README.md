# Verification of the company knowledge base

TLA+ models of the backend under `src/backend` and of the parts of `src/frontend`
that keep state of their own, TLC configurations that check them on small
instances, and TLAPS proofs of what should hold on every instance.

    tlc -workers 2 -config MCDocumentPipeline_safety.cfg MCDocumentPipeline
    tlapm DocumentPipeline_proofs.tla

Paths below without `src/` are relative to `src/backend/internal`.

## 1. The system

A web server (Go, gin, GORM, PostgreSQL with pgvector) on which a company keeps
knowledge bases. Users upload documents; workers in the same process parse, split
and embed them; questions are answered from the chunks a vector search finds.

| Part | State it keeps | Operations | Talks to |
|---|---|---|---|
| index queue `queue/memory.go` | buffered channel, closed flag, worker context, one goroutine per worker | Start, Enqueue, worker loop with up to three attempts per job, Stop | runs `IndexingService.Process` |
| document repository `repository/document.go` | tables `documents`, `chunks` | Create, UpdateStatus, Delete (soft), CreateChunks (one transaction), DeleteChunks, queries | PostgreSQL |
| object storage `storage/*.go` | files by key | Save, Open, Delete | local directory or MinIO |
| document service `service/document.go` | none of its own; each request runs on its goroutine | Upload, Delete, RetryIndex, reads | repository, storage, queue |
| indexing service `service/indexing.go` | none; runs on a queue worker | Process: load, mark, open, parse, split, embed, persist, finish, or fail | repository, storage, parser, embedder |
| server lifecycle `server/server.go`, `cmd/server/main.go` | listener, process | Start, signal, http.Shutdown (15 s), queue.Stop, exit | queue, requests |
| knowledge bases `service/kb.go`, `repository/kb.go`, `KBListPage.tsx` | table `knowledge_bases`; the list a page has loaded | Create, Update (read, change, Save), Delete (soft), load | repository; documents refer to it |
| accounts `service/auth.go`, `auth/*.go`, `middleware/auth.go` | table `users`; tokens held by clients | Register, Login, token check, role gates | repository |
| question answering `service/qa.go`, `handler/qa.go`, `api/qa.ts`, `QAPage.tsx` | table `qa_logs`; the turns a page shows | Ask, StreamAnswer (server-sent events), SetFeedback, History; askStream, handleAsk, vote | embedder, vector search, LLM |
| chunker `parser/chunker.go` | none (pure) | Split with overlap | indexing service |
| client session `store/auth.ts`, `api/client.ts`, `Login`/`RegisterPage.tsx`, `App.tsx` | token and user in local storage, user in the store, the URL | login, register, logout, restore, the interceptor's reaction to a 401 | accounts; every page |
| documents page `DocumentsPage.tsx` | the documents shown, the ids polled | load, poll, upload, remove, reindex | the document handlers, the session |
| dashboard, configuration, logging, decoding in the clients of OpenAI | none or start-up only | reads | - |

Hard behaviours: a request and a worker write the same row with no transaction
or condition between them; counts and statuses are read, then written back
later; queue jobs are memory only, while rows and files survive a crash; errors of
compensating calls are dropped; the request's context is also the context of
its compensation; Stop cancels the context of the jobs it waits for; deletes are
soft in one table and real in another; deleting takes three calls in two stores.
Update and Register read, decide and write in separate statements. On the client,
an answer is applied when it arrives, whatever has happened to the page, the
token or the turn it was asked for; loads, ticks of the poller and operations
overlap; a stream may end without its last event.

What makes each part correct:

* *queue*: it refuses what has no room; a worker leaves only a closed and drained
  channel; every accepted job reaches a worker; Stop returns however the jobs fail.
* *documents and indexing*: what is shown is true ("indexed" is searchable in
  full, a count is backed by chunks, a listed document has its file), nothing is
  forgotten (pending has a job, indexing has a worker, a stored file has a
  document), and every upload settles.
* *server*: a shutdown completes from wherever the signal finds it.
* *knowledge bases*: an edit nobody overtook changes what was meant and nothing
  else; a deleted base comes back only through an edit that overlapped. *accounts*:
  one account per e-mail however registrations race, and a client that was let in
  can come back.
* *answers*: what a client was told is what the log keeps, the vote shown is the
  vote stored, a settled answer does not change, every turn ends.
* *chunker*: pieces cover the text, respect the limit, overlap as configured, and
  the loop ends.
* *session and documents page*: the user shown owns the token, a session the server
  accepts is ended by its user or by a 401 that is not about it alone, what is
  shown as unfinished is watched until it is not.

`PROJECT.json` lists each of these parts with its status, and the hazards with
the line where each bites and the properties that watch it.

## 2. Modules

| Module | What it is | Code |
|---|---|---|
| `MemoryQueue` | the queue with an arbitrary processor and arbitrary producers | `queue/memory.go` |
| `DocumentRepo` | the two tables; one operator per repository call | `repository/document.go`, `0001_init.sql` |
| `Storage` | the object store as a set of keys | `storage/local.go`, `minio.go` |
| `DocumentPipeline` | handlers, workers and process life cycle, over the three above | `service/document.go`, `service/indexing.go`, `server/server.go`, `cmd/server/main.go` |
| `SearchableLibrary` | abstract specification: what the pipeline promises to users | - |
| `DocumentClaims` | sentences of the repository the pipeline does not keep | quoted there |
| `Chunker` | Split and splitLong, one step per iteration | `parser/chunker.go` |
| `Answers` | a question from the page or another client through the handler, the service, the model's client and the log back to the page, and the votes on it | `service/qa.go`, `handler/qa.go`, `repository/qa.go`, `pkg/openai/client.go`, `api/qa.ts`, `pages/QAPage.tsx` |
| `Transcript` | abstract specification: what a question and its answer promise to who asks and to who reads the history | - |
| `Accounts` | registration, login, the token check and the role gate | `service/auth.go`, `repository/user.go`, `middleware/auth.go` |
| `KnowledgeBases` | knowledge bases and the page that edits them, over `Accounts` | `service/kb.go`, `repository/kb.go`, `pages/KBListPage.tsx` |
| `ClientSession` | the session of a browser tab | `store/auth.ts`, `api/client.ts`, `App.tsx`, `pages/LoginPage.tsx` |
| `DocumentsPage` | the documents page with its poller, over `ClientSession` | `pages/DocumentsPage.tsx` |
| `MCMemoryQueue`, `MCDocumentPipeline`, `MCChunker`, `MCAnswers`, `MCWorkspace`, `MCBrowser` | small instances | - |
| `MemoryQueue_proofs`, `DocumentPipeline_proofs`, `DocumentDuties_proofs`, `KnowledgeBases_proofs`, `Answers_proofs`, `Transcript_proofs`, `Browser_proofs` (session and documents page), `Chunker_proofs` | theorems and proofs | - |

`DocumentPipeline` EXTENDS `DocumentRepo` and instantiates `Storage` (`Store!`),
`MemoryQueue` (`Queue!`, its jobs being documents) and `SearchableLibrary`
(`Library!`, under the refinement mapping). `Queue!Succeed`, `Retry` and `GiveUp`
are conjoined with the step of Process that causes them, so the queue that is
checked alone is, action by action, the queue the pipeline uses (the lemma
`StepIsQueueStep` proves that).

### How state and actions correspond to the code

* `hpc[h]` is the next database, store or queue call of a handler goroutine,
  `wpc[w]` that of a worker inside Process; `hdoc`, `hcount`, `held`, `wcount`
  are their local variables. One call is one step: between two calls of one
  goroutine everything else may run.
* `BeginUpload/BeginDelete/BeginReindex` are the reads and early returns before
  the first call that can change anything; `SaveFile, CreateRow, Unsave,
  EnqueueUpload, MarkFailed` are Upload; `RemoveChunks, RemoveObject, RemoveRow`
  Delete; `Reenqueue, MarkPending` RetryIndex; `Load, Mark, Extract, Persist,
  Finish, Fail` Process.
* A handler's `gone` is its request context: once it is cancelled every database
  call of that request fails and the store's may (MinIO honours it, the local
  store does not). `ctxDone` is the workers' context, cancelled by Stop.
* `http` is the process: `off`, `starting` (goroutines being launched),
  `serving`, `closing` (after the signal). Requests outlive `closing`, as they
  do when the 15 seconds of http.Shutdown are over; an Enqueue after Stop
  panics and the recovery middleware ends the request without its compensation.
* `ProcessEnds` (graceful exit or crash) forgets every goroutine and the queue;
  tables and files remain, and `Boot` starts again on them.
* In `Answers` a question is a number; `pc[q]` is how far its handler has come,
  `wire[q]` the frames it has sent and nobody has read, `reader[q]` the loop of
  askStream, `turns`, `asking` the state of QAPage, `votes` its feedback requests.
  Serving a question is `Retrieve, StreamToken, StreamEnds, Log, Finish` for the
  page and `Retrieve, Complete, Log, Finish` for others, with a failure at each;
  `broken` are the questions whose request context is cancelled: writes to them
  vanish, database and model calls under them fail.
* `Answers` has the fields of a result travel under one of two names. The server
  sends those of the Go struct, `LogID`, `Answer`, `Sources`, since `AskResult` has no
  json tags ("go"); the page reads `log_id`, `answer`, `sources` ("ts"). Under "go"
  no turn gets an id, so no vote can be given. Under "ts" the page's code for
  votes and for an answer that comes only with the result is exercised.
* `Answers` instantiates `Transcript` (`Book!`). The stage of a question is read off the
  turn of the page, or off handler and reply for another client; what is shown is the
  answer of the turn or the text of the reply; what is kept is the row of `qa_logs`;
  keeping is reliable if no database call fails. Frames, handlers, votes and
  broken connections are invisible to the transcript.
* In `Chunker` a text is a sequence of kinds of runes and a piece a range of its
  positions. `inside`, `start` are splitLong's paragraph and its local variable. The
  code makes the list of all paragraphs first; the model finds one after the other
  from the position `rest`, which `ParagraphsAsSplit` compares with that list.
* In `Accounts`, `signing[c]` is a Register between its look-up and its insert,
  `session[c]` the claims of the token a client holds; `Authenticate` loads the
  row, as the middleware does on each request. In `KnowledgeBases`, `editing[c]` is
  an Update between its read and its Save; `list[c]` what a page has loaded;
  `version`, `edited`, `seen` serve properties only.
* In `ClientSession`, `token` and `kept` are local storage, `user` the store, `path`
  the URL as far as it matters: the interceptor reloads any page but the login's.
  `restoring` and `entering` are the calls of /me and of the form; `issued[t]` is
  whom the server knows token t by, `valid` those it accepts. `Rejects` is the
  middleware's `Authenticate`: a token that is not valid is answered 401, and under
  "lookup" so may any be, as every error of FindByID is.
* In `DocumentsPage`, `truth` is the documents table, `calls` are loads and operations
  under way, each with the token it was sent with, `ticks` the rounds of the
  poller, each with the ids it has left to ask for, those it will keep, and the
  request under way with its token and answer. A request is answered in one step
  and its answer applied in another: what happened in between, a login or the
  end of the page, is what the answer meets. Calls and ticks with `mine` are of
  the page that is there; those of one that is gone go on, with the token of the
  moment, their 401 counts and they may load, but nobody sees what they bring.
  `Work` is all that `DocumentPipeline` may do to the status of a document, and
  nothing says that it does it.
* `withdrawn` and `reindexes` are history variables; no guard but the bound on
  RetryIndex reads them. `faults` is chosen once, in Init: the kinds of mishap
  a behaviour may have. It lets one run check properties that need, say, a
  working database next to properties that must hold without one.

### Abstractions

* A document is its uuid. Its text is how many pieces the chunker makes of it.
* A call that returns an error has changed nothing, except a failing Save, which
  may leave a truncated object (the local store creates the file first). A
  commit whose acknowledgement is lost is not modelled.
* Open, parse, split and embed write nothing and are one step, `Extract`.
* Timing is left out: any timeout may be long past or far away.
* Size, type and permission checks decide whether a request begins at all.
* The signal comes after Boot; `queue.provider=redis` is a stub in the code.
* Which chunks answer a question, and what is said, is left out: a text is the
  question it answers and how much of it there is, so that texts of different
  origin differ. Other clients and the page meet only in `qa_logs`, in rows of
  their own, so a behaviour has one or the other.
* Tokens are not forged, hashes tell passwords apart.
* A user waits for the answer of a form before leaving it. A tick asks for one id
  after the other in the order of the list.

## 3. Runs

| Run | Instance | Checks |
|---|---|---|
| `queue` | 2 jobs offered again and again, 2 workers, capacity 2, 3 attempts, fair | `TypeOK`, `NothingLeftBehind`, `StopDrains`, `AcceptedIsReceived`, `StopReturns` |
| `pipeline_safety` | 1 document of 2 chunks, 2 handlers, 2 workers, capacity 1, 2 attempts, 1 re-index; all mishaps, or all but those a property excludes; symmetric handlers and workers | `TypeOK`, `ChunkCountBacked`, `IndexedIsSearchable`, `SourceFileKept`, `IndexingHasOwner`, `NoOrphanObjects`, and `ImplementsLibrary` |
| `pipeline_uploads` | 2 documents (one blank), 1 handler, 1 worker, capacity 1, 2 attempts; failing work, or a shutdown with leaving clients; fair | `PendingHasJob`, `UploadSettles`, `ShutdownCompletes` |
| `chunker` | every text of at most 6 runes of four kinds, 7 settings, fair | `TypeOK`, `PiecesFit`, `NothingLost`, `ParagraphsAsSplit`, `SharedOverlap`, `Terminates` |
| `answers` | 2 turns of the page or 1 call of another client, answers of at most 2 fragments, 2 votes, 7 fault models, both namings, fair | `TypeOK`, `ToldIsLogged`, `AskingIffStreaming`, `ShownVoteIsStored`, `TurnIsFed`, `SettledTurnKeepsAnswer`, `TurnEnds`, and `ImplementsTranscript` |
| `workspace` | 2 clients, one of them a page; 2 accounts, 1 e-mail, 2 passwords, 2 roles; 1 base written at most 3 times; symmetric account ids and passwords | `TypeOK`, `OneAccountPerEmail`, `SessionOpensAgain`, `SerialUpdateIsExact`, `RevivedOnlyByOverlap` |
| `browser` | 2 users, 2 documents, 2 calls, 2 ticks, 7 scenarios, fair | `TypeOK`, `ShownUserOwnsToken`, `UnfinishedIsWatched`, `SessionKept`, `ShownSettles` |
| `claim_*` | the smallest instance that shows it | one sentence of the repository each, violated |

What they show, and why the bounds are enough:

* *Queue.* Stop may fall anywhere, also between two launches in Start. Two
  workers and two buffered jobs are the least with which a worker could leave
  while the other is busy and something is buffered. `StopDrains` says what Stop
  waits for: after the close each step of the queue takes a job from the buffer
  or brings a worker nearer to its end, and none takes one back.
* *Safety.* All races in the code are about one document: two requests for it,
  two workers on it (an upload's job and a re-index's, which needs one RetryIndex
  while the first is waiting or failing), or a request against a worker. Two of
  each are there, with crash and restart at any point. Capacity 1 makes the
  buffer full, two attempts make both a retry and a last attempt. A document of
  two chunks tells "none", "all" and "twice" apart. Documents share only the
  queue, which is what the next run has two documents for.
* *Uploads.* With capacity 1 the second upload can find the buffer full, also
  while the only worker is repeating the first one's job. The blank document is
  the path on which Process skips CreateChunks.
* *Chunker.* Three is the least size with a second half of more than one rune;
  sizes 1, 3 and 4 with overlaps of none to half of them, and three settings that
  NewChunker corrects, meet texts long enough for several cuts, for a sentence
  end in either half, at the cut and after it, and for both separators of
  paragraphs with blank paragraphs between them. It is assumed that the overlap
  is at most half the size (the server's are 800 and 120): NewChunker also
  accepts more, for which splitLong may stop advancing.
* *Answers.* Two turns are the least with which a late event of one could touch
  the other; two fragments make an answer none, a part or the whole of what came;
  two votes
  make a vote withdrawn, changed and, when the user is "hasty", overtaken. The
  fault models are no mishap, each mishap a property names as its exception, and
  refusals and failures of retrieval and of the model next to most of them.
  `TurnIsFed` is about the wait for an event nobody sends, `ImplementsTranscript` about
  all paths of an answer at once: it is kept once, shown as it is kept or the
  beginning of it, and concluded only when kept, whatever breaks in between.
* *Workspace.* All races are about one e-mail or one base. Two clients make two
  Registers, two Updates, or an Update and a Delete overlap, and one of them is a
  page that edits what it loaded some time ago. A lost write takes a read, a
  write by the other and a Save: versions 1 to 3.
* *Browser.* A scenario says which mishaps a behaviour may have, who logs in, and
  how many logins and operations there are: operations without mishap, with
  passing errors of operations and statuses ("flaky") while documents are indexed
  again or refused by the queue ("again"), with a session that expires, with a
  failing network ("net"), and with users that cannot always be looked up
  ("lookup"), whose two logins let a late 401 meet a new session; two users whose
  sessions end and begin, one of them also before the tab has heard of the session
  it was loaded with ("hasty"). All mishaps together only multiply these. Two
  documents tell a tick's ids apart; two calls and two ticks are the least that
  overlap.
* Conditional properties say in their antecedent which mishaps they exclude,
  e.g. `PendingHasJob` needs the database and the clients: what happens without
  them is `RefusalIsRecorded`, which fails.

Every property has a mutant of the code (`PROJECT.json`, `mutants`) under which
TLC finds it violated: dropping a compensation, a limit, a retry count, a
re-ordered delete, a Stop that forgets to close the channel.

### Fairness

Weak fairness of each handler's next call, of each worker, and of the process
(`Lifecycle`): the Go scheduler runs every runnable goroutine, and database, store and
embedder calls return, with an error if need be. Which outcome a call has is
never subject to fairness: an attempt may fail every time. No request,
disconnect, signal or crash is assumed to happen. In `MemoryQueue` the processor
is assumed to return; nothing else about it is. In `Answers` each handler and each
reader goes on: the model's client gives a stream up after its 60 seconds. In
`DocumentsPage` calls and ticks do: axios calls are answered or fail, and the timer
fires. Nothing is assumed of the workers there, which may leave a document pending
or indexing for ever (findings 1, 3 and 4 below): `ShownSettles` speaks of behaviours
in which the documents have settled, or are gone, from some time on. No user is
assumed to ask, vote, log in or leave.

### Where code and text disagree

1. `claim_reindex_settles`: RetryIndex enqueues first and writes `pending`
   afterwards; a quick worker's `indexed` is overwritten, and the document is
   pending for ever with nothing in the queue. No fault is needed.
2. `claim_deleted_no_chunks`: a worker past its FindByID inserts chunks after a
   Delete; the vector search does not look at `deleted_at` and returns them.
3. `claim_stop_finishes`: Stop cancels the context of the very jobs it is said
   to let finish; the document is left in `indexing`, which RetryIndex refuses.
4. `claim_refusal_recorded`: the enqueue fails because the client has gone, and
   recording that failure uses the same cancelled context.
5. `claim_feedback_after_done`: the done event carries `LogID`, `Answer` and `Sources`
   (`service/qa.go:56` has no json tags), the page reads `log_id`, `answer` and
   `sources`. A turn never has an id: the buttons for votes are there
   (`QAPage.tsx:169`) but do nothing (line 95). No sources are shown, and an answer of
   which nothing streamed stays empty.
6. The queue is called "unbounded" (`queue/memory.go:12`). It has room for 1024 jobs
   and refuses the next; run `queue` passes with `TypeOK`, which says so.
7. "worker drains jobs until the context is cancelled" (`queue/memory.go:84`). It
   drains them until the channel is closed and empty, as `queue/queue.go:25` has it, each
   under the cancelled context; run `queue` passes with `NothingLeftBehind`, which the
   worker of that comment violates (`MutantExitOnCancel`).

Findings 1 to 5 are runs that fail, 6 and 7 properties of a run that passes. Also read
in the code but not given a run:

* Delete removes the file and then the row: if the client leaves in between, the row
  stays and points at a deleted file, against `service/document.go:143-144`. If the
  store refuses, the row goes, and nothing reaps the file "later" (line 145).
* DeleteChunks is "called when re-indexing" (`repository/document.go:85`), which it is
  not: a document that is indexed twice, by RetryIndex or by a retry after a failed
  UpdateStatus, has its chunks twice and is found twice.
* A late answer to /me sets user and kn_user although a logout has removed the token,
  against "derived user" in `store/auth.ts:7`.
* The 401 meant for "expired sessions" (`api/client.ts:22`) also comes when the user could
  not be looked up (`service/auth.go:115`), and ends a session the server accepts.
  `SessionKept` names this, the late 401 of a call made with another token, and the
  unanswered /me at start-up (`store/auth.ts:63`) as all that ends one besides its user.
* "keep id on transient error" (`DocumentsPage.tsx:61`): the id is dropped. The load that
  follows when no id is left heals it, which is what `UnfinishedIsWatched` and
  `ShownSettles` check.
* Process writes `failed` on every failing attempt, though retries are to come
  before "being recorded as failed" (`service/indexing.go:51`).
* "via FK cascade" (`service/kb.go:80`): a base is soft-deleted, so no cascade fires.
* An emptied description is silently kept; the page sends both fields of a form
  filled from its list, so overlapping edits undo each other; Save on a row that
  was deleted meanwhile inserts it again (`RevivedOnlyByOverlap` says only then).
* A partial answer of a failed stream is logged without the note, against the
  comment at `service/qa.go:189-190`. Withdrawing a vote sends "up", so the
  dashboard counts it. The text of a failure goes back to the model as history.
* The error of a connection that breaks after the done event opens the question box
  although the next answer may be streaming (`QAPage.tsx:88-89`); lost or overtaking
  replies let a vote shown differ from the one stored.
* The endpoint of OpenAI streams server-sent events (`pkg/openai/client.go:84`), but
  ChatStream decodes bare JSON (143-157), so a genuine stream fails at once.
* Pieces that are only blank can come out of a long run of blanks, against
  `parser/chunker.go:35-36`.

## 4. Theorems

For any sets of documents, handlers and workers, any piece counts, capacity,
attempts and re-index bound, and any fault models (`RepoAssumption`,
`PipelineAssumption`, `QueueAssumption` state the little that is assumed):

* `QueueTypeCorrect`, `QueueLeavesNothingBehind`: the queue alone. `QueueDrains`: the
  action property `StopDrains`, with `Left(w)`, the steps left to a worker that receives
  nothing more, as the variant (a retry spends an attempt).
* `PipelineTypeCorrect`: `TypeOK`. Taken apart into tables, handlers, workers and
  the rest (`TypeParts`), with one lemma for each kind of step; the queue's part
  follows from `StepIsQueueStep`.
* `PipelineRunsQueue`: projected on the queue, the pipeline does only what `MemoryQueue`
  does, or ends and begins again with its process; hence `PipelineLeavesNothingBehind`.
* `PipelineInvariant`, and from it `CountsAreBacked`, `IndexedMeansSearchable`,
  `FilesAreKept`.
* `PipelineImplementsLibrary`: the pipeline refines `SearchableLibrary`.

The three promises are not inductive: a worker about to write `indexed` breaks
them unless its chunks are already there, a Delete past its first call removes
a file that must not be promised any more. `PipelineInv` therefore adds what each
goroutine carries: `UploadsOwn` (before its row exists a document belongs to one
upload), `RequestsHaveRow`, `JobsHaveRow`, and `SnapshotsBacked` (a count that was
read earlier and is going to be written is still covered, unless the document has
been withdrawn).

The proof goes through `DataStep`, everything any step may do to tables and
files: `HandlerDataStep` and `WorkerDataStep` show each action to be one, using what is
carried; `DataStepKeepsPromises` and `DataOnlyGrows` then need not know who made the
step, and the same `DataStep` gives the refinement (`DataStepIsLibraryStep`). Each
kind of step preserves what is carried (`HandlerCarries`, `WorkerCarries`,
`BeginCarries`, `ServerCarries`): others only add chunks, so snapshots stay covered.

`DocumentDuties_proofs` proves the conditional invariants: `IndexingIsOwned`,
`PendingIsAttended` and `NoFileIsForgotten`. `Undisturbed` says what the absence of a
mishap keeps away (no signal and no crash: the queue stays open and the workers'
context alive; no disconnect: no request's context is cancelled). Then
`IndexingHasOwner` is inductive; `PendingHasJob` needs `ReindexersCounted` (who writes
`pending` a second time has been counted), and `NoOrphanObjects` needs `RemovedFirst`
(a Delete about to remove the row has removed the file) and, from `PipelineInv`, that
an upload shares its document with no other request.

`KnowledgeBases_proofs` proves what the `workspace` run checks, for any clients,
accounts, texts and number of writes (`AccountsAssumption`, `BasesAssumption`):
`WorkspaceTypeCorrect`, `EmailsAreUnique`, `SessionsOpenAgain`, `EditsAreExact` and
`DeletedStayDeleted`. Its invariant `WorkspaceInv` adds to the checked properties
`Remembered`: what a call or a page has read is no newer than the row, is the row
if the versions agree, and the fields an edit sends unedited are those its author
saw. `ReadKeeps` and `WriteKeeps` show that reading a row and writing one, with a
higher version, preserve it; the lemma of each operation cites one of the two. The
two action properties follow from it in `SaveIsExact` and `RevivalIsOverlap`.

`Answers_proofs`, for any numbers of turns, calls, fragments and votes and any fault
models (`AnswersAssumption`): `AnswersTypeCorrect`, `ToldWasLogged`,
`BoxClosedWhileStreaming`, `ShownVoteWasStored` and the action property
`SettledTurnStays`. None is inductive: what a done event will say depends on what
its handler said, logged and sent long before. `AnswersInv` tells this for one
question at a time. `Served` is its handler (a text it still streams is the first n
fragments, the row it has logged is its text), `Shown` its turn (`AllSaid`: what the page
shows and what the wire still holds are together the handler's text; `FrameOK`: each
fragment on the wire is the next one, an event that ends a turn is followed by the
end of the body only), `Told` the reply to another client. `OneStreams` is why
streams cannot mix, `VotesAgree` what the votes under way mean for the row. The
steps of server, connection, reader and votes are shown to touch one question
(`QuestionKeeps`, `TurnKeeps`) and to keep that one's conjuncts.

`Transcript_proofs` adds, from the same assumption, `TranscriptInvariant`, `TurnsAreFed`
(`TurnIsFed`), `ShownWasKept` (a row of `qa_logs` that is there agrees with page and
reply, also when connections break and other rows are lost) and
`AnswersImplementTranscript`, the refinement. `AnswersInv` tells how far an answer has
come only where connections last and the database works; `TranscriptInv` completes
it with what is true without that: the row is the handler's text (`Recorded`), a turn
shows a failure or a part of that text (`Honest`), the reply is that text (`Replies`),
and the end of a turn is still to come (`Fed`). Each lemma about a step shows that it
keeps these and is one step of the transcript, for one question, or none (`Turned`);
`StepOfOne` lifts that to the functions the abstract specification is about.

`Browser_proofs`, for any people, documents, scenarios and overlapping calls and
ticks (`SessionAssumption`): `BrowserTypeCorrect`, `ShownUserIsTokens`,
`UnfinishedStaysWatched` and the action property `SessionIsKept`. `SessionInv` adds that
without haste a call of /me carries the token that is kept and nobody logs in until
it is answered, and that a token refused although its user could be looked up is
never accepted again (none is issued twice); `PageInv` adds the same of the calls and
ticks of this page and of earlier ones (`Refusals`), that only a page that is there
has calls and ticks of its own, and that what watches an unfinished document is a
poll or a load. An operation under way does not count: its
reply may bring no load. All that a step can do to the session is `SessionStep`; the
page is proved about from that alone. `SessionIsKept` follows: a step that takes an
accepted token away answers a call, and by `Refusals` a 401 among the answers was
to another token, unless look-ups may fail.

`Chunker_proofs`, for texts of any length and any size with an overlap of at most half
of it (`ChunkerAssumption`, the exact condition under which the loop advances):
`ChunkerTypeCorrect`, `PiecesAlwaysFit`, `NothingIsLost`, `OverlapIsShared`. What carries them
is `Contiguous`, where the next piece begins relative to the last: behind a gap of
blank runes, or exactly the overlap back inside the same paragraph. `CutIs` is the
arithmetic of the walk back for a sentence end, in the second half of the window.
`SplitAdvances` states the variant of both loops: an iteration comes to a later
paragraph, ends a long one, or moves the next piece on. `MinIs` and `MaxIs`, on which
the cuts rest, come from the well-foundedness of the numbers.

With this every invariant and every action property of a passing run is proved,
with one exception, and so are the two refinements. Model-checked only:

* the liveness properties: no prover here does fairness. Their safety halves, that
  what a fair step is needed for is there, are proved: `StopDrains` for `StopReturns`,
  `NothingLeftBehind` for `AcceptedIsReceived`, `PendingHasJob` and `IndexingHasOwner` for
  `UploadSettles`, `TurnIsFed` for `TurnEnds`, `UnfinishedIsWatched` for `ShownSettles`,
  and the variant of `SplitAdvances` for `Terminates`. `ShutdownCompletes` has none
  beyond the queue's.
* `ParagraphsAsSplit`: it compares with the recursively defined list of strings.Split,
  and what a recursion computes takes an induction the provers cannot instantiate.

## 5. Plan

Done: queue, tables, store, pipeline with its abstract specification; knowledge
bases with accounts; answers with theirs; the browser's session and documents page;
the chunker; the claims; the proofs above. What could follow:

1. An abstract queue that `MemoryQueue` implements: each accepted job is processed,
   at most as often as configured.
2. A variant for `ShutdownCompletes`, over requests, queue and process.

## 6. Not modelled

* Decoding of file formats in the parsers, requests and decoding in the embedding
  and LLM clients: calls that return something or fail.
* Dashboard, listings, name search, download, history: they read and change nothing.
* Errors and responses: a table of status codes; what clients tell apart, a 401
  from any other failure, is in `ClientSession`.
* Configuration, logging, static files, wiring: start-up I/O.
* `Invite` of the knowledge bases and `queue.provider=redis` are stubs.

PostgreSQL, MinIO, gorm, gin, the Go runtime, axios and React are trusted to do
what the calls above say.
