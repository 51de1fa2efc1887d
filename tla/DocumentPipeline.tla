-------------------------- MODULE DocumentPipeline --------------------------
(***************************************************************************)
(* What happens to a document between an upload and a search: the HTTP     *)
(* handlers' goroutines running DocumentService (upload, delete, retry),   *)
(* the queue's workers running IndexingService.Process, the server's       *)
(* start and shutdown, and the database and object store they all share.   *)
(*                                                                         *)
(* Every call a service makes to the database, the store or the queue is   *)
(* one step, so steps of different goroutines interleave between any two   *)
(* calls.  What the code does with a call's error is modelled; what can    *)
(* make calls fail is chosen at the start of a behaviour, from the sets in *)
(* FaultModels:                                                            *)
(*   "db"       any database call may fail, without effect                 *)
(*   "storage"  any object store call may fail                             *)
(*   "extract"  a document may be unreadable, or the embedder may fail     *)
(*   "client"   a client may disconnect, which cancels its request context *)
(*   "stop"     the operator may send SIGTERM                              *)
(*   "crash"    the process may die at any moment                          *)
(***************************************************************************)
EXTENDS DocumentRepo, FiniteSets, Sequences

CONSTANTS
  NoDoc,
  Handler,      \* goroutines of net/http that serve document requests
  Worker,       \* goroutines of the index queue
  Capacity,     \* the queue's buffer
  MaxRetries,   \* attempts per job
  MaxReindex,   \* bound: RetryIndex calls per document
  FaultModels   \* sets of mishaps to consider together, see above

Mishaps == {"db", "storage", "extract", "client", "stop", "crash"}

ASSUME PipelineAssumption ==
  /\ NoDoc \notin Doc
  /\ Worker # {}
  /\ Capacity \in Nat \ {0}
  /\ MaxRetries \in Nat \ {0}
  /\ MaxReindex \in Nat
  /\ FaultModels \subseteq SUBSET Mishaps

VARIABLES
  faults,     \* the mishaps of this behaviour
  objects,                                         \* the object store
  jobs, closed, ctxDone, state, held, attempt,     \* the queue
  http,       \* the process and its listener
  hpc,        \* what each handler goroutine does next
  hdoc,       \* the document of its request
  hcount,     \* the chunk count it read (RetryIndex's d.ChunkCount)
  gone,       \* its request context is cancelled
  wpc,        \* what each worker does next, inside Process
  wcount,     \* the chunk count it read (Process's doc.ChunkCount)
  withdrawn,  \* history: documents a Delete has removed the chunks of
  reindexes   \* history: RetryIndex calls so far, for the bound

Store == INSTANCE Storage WITH Key <- Doc
Queue == INSTANCE MemoryQueue WITH Job <- Doc, NoJob <- NoDoc

queueVars == <<jobs, closed, ctxDone, state, held, attempt>>
handlerVars == <<hpc, hdoc, hcount, gone>>
processVars == <<wpc, wcount>>
historyVars == <<withdrawn, reindexes>>
vars == <<faults, repoVars, objects, queueVars, http, handlerVars, processVars, historyVars>>

UploadPC == {"save", "create", "unsave", "enqueue", "markFailed"}
DeletePC == {"delChunks", "delObject", "delRow"}
RetryPC == {"reEnqueue", "rePending"}
HandlerPC == {"idle"} \cup UploadPC \cup DeletePC \cup RetryPC
WorkerPC == {"wait", "load", "mark", "extract", "persist", "finish", "fail"}

Init ==
  /\ faults \in FaultModels
  /\ RepoInit
  /\ Store!StorageInit
  /\ Queue!Init
  /\ http = "off"
  /\ hpc = [h \in Handler |-> "idle"]
  /\ hdoc = [h \in Handler |-> NoDoc]
  /\ hcount = [h \in Handler |-> 0]
  /\ gone = [h \in Handler |-> FALSE]
  /\ wpc = [w \in Worker |-> "wait"]
  /\ wcount = [w \in Worker |-> 0]
  /\ withdrawn = {}
  /\ reindexes = [d \in Doc |-> 0]

-----------------------------------------------------------------------------
(***************************************************************************)
(* Requests.  A handler passes its request's context to every call: once   *)
(* the client is gone every database call fails, and the object store may  *)
(* (MinIO honours the context, the local store ignores it).                *)
(***************************************************************************)
DbWorksFor(h) == ~gone[h]
DbFailsFor(h) == gone[h] \/ "db" \in faults
StoreFailsFor(h) == gone[h] \/ "storage" \in faults

Goto(h, pc) ==
  /\ hpc' = [hpc EXCEPT ![h] = pc]
  /\ UNCHANGED <<hdoc, hcount, gone>>

Reply(h) ==
  /\ hpc' = [hpc EXCEPT ![h] = "idle"]
  /\ hdoc' = [hdoc EXCEPT ![h] = NoDoc]
  /\ hcount' = [hcount EXCEPT ![h] = 0]
  /\ gone' = [gone EXCEPT ![h] = FALSE]

\* A request for document d arrives at an idle handler; pc is the first call
\* its service method makes that can change something, n what it has read.
Begin(h, d, pc, n) ==
  /\ http = "serving"
  /\ hpc[h] = "idle"
  /\ hpc' = [hpc EXCEPT ![h] = pc]
  /\ hdoc' = [hdoc EXCEPT ![h] = d]
  /\ hcount' = [hcount EXCEPT ![h] = n]
  /\ UNCHANGED <<gone, repoVars, objects, queueVars, http, processVars>>

Disconnect(h) ==
  /\ "client" \in faults
  /\ hpc[h] # "idle"
  /\ ~gone[h]
  /\ gone' = [gone EXCEPT ![h] = TRUE]
  /\ UNCHANGED <<repoVars, objects, queueVars, http, hpc, hdoc, hcount, processVars, historyVars>>

\* The queue accepts the handler's document; it is refused when the buffer is
\* full or (the select picks among ready cases at random) the client is gone;
\* the send panics after Stop, and the recovery middleware ends the request.
Refused(h) == Queue!Full \/ gone[h]

(***************************************************************************)
(* DocumentService.Upload.                                                 *)
(***************************************************************************)
\* uuid.New: an id no row, object or request has.
Fresh(d) == status[d] = "none" /\ d \notin objects /\ \A h \in Handler : hdoc[h] # d

BeginUpload(h, d) ==
  /\ Fresh(d)
  /\ Begin(h, d, "save", 0)
  /\ UNCHANGED historyVars

SaveFile(h) ==
  /\ hpc[h] = "save"
  /\ \/ Store!Save(hdoc[h]) /\ Goto(h, "create")
     \/ StoreFailsFor(h) /\ Store!SaveFails(hdoc[h]) /\ Reply(h)
  /\ UNCHANGED <<repoVars, queueVars, http, processVars, historyVars>>

MutantCreateRowLeaks(h) ==
  /\ hpc[h] = "create"
  /\ \/ DbWorksFor(h) /\ Create(hdoc[h]) /\ Goto(h, "enqueue")
     \/ DbFailsFor(h) /\ Reply(h) /\ UNCHANGED repoVars
  /\ UNCHANGED <<objects, queueVars, http, processVars, historyVars>>

CreateRow(h) ==
  /\ hpc[h] = "create"
  /\ \/ DbWorksFor(h) /\ Create(hdoc[h]) /\ Goto(h, "enqueue")
     \/ DbFailsFor(h) /\ Goto(h, "unsave") /\ UNCHANGED repoVars
  /\ UNCHANGED <<objects, queueVars, http, processVars, historyVars>>

\* The best-effort cleanup of the stored object.
Unsave(h) ==
  /\ hpc[h] = "unsave"
  /\ \/ Store!DeleteObject(hdoc[h])
     \/ StoreFailsFor(h) /\ UNCHANGED objects
  /\ Reply(h)
  /\ UNCHANGED <<repoVars, queueVars, http, processVars, historyVars>>

MutantEnqueueUploadSilent(h) ==
  /\ hpc[h] = "enqueue"
  /\ \/ Queue!Send(hdoc[h]) /\ Reply(h)
     \/ (Refused(h) \/ closed) /\ Reply(h) /\ UNCHANGED queueVars
  /\ UNCHANGED <<repoVars, objects, http, processVars, historyVars>>

MutantEnqueueUploadUnsaves(h) ==
  /\ hpc[h] = "enqueue"
  /\ \/ Queue!Send(hdoc[h]) /\ Reply(h)
     \/ Refused(h) /\ Goto(h, "unsave") /\ UNCHANGED queueVars
     \/ closed /\ Reply(h) /\ UNCHANGED queueVars
  /\ UNCHANGED <<repoVars, objects, http, processVars, historyVars>>

EnqueueUpload(h) ==
  /\ hpc[h] = "enqueue"
  /\ \/ Queue!Send(hdoc[h]) /\ Reply(h)
     \/ Refused(h) /\ Goto(h, "markFailed") /\ UNCHANGED queueVars
     \/ closed /\ Reply(h) /\ UNCHANGED queueVars
  /\ UNCHANGED <<repoVars, objects, http, processVars, historyVars>>

MarkFailed(h) ==
  /\ hpc[h] = "markFailed"
  /\ \/ DbWorksFor(h) /\ UpdateStatus(hdoc[h], "failed", 0)
     \/ DbFailsFor(h) /\ UNCHANGED repoVars
  /\ Reply(h)
  /\ UNCHANGED <<objects, queueVars, http, processVars, historyVars>>

(***************************************************************************)
(* DocumentService.Delete.  FindByID is in BeginDelete: a request for a    *)
(* document that is not there changes nothing and is not modelled.         *)
(***************************************************************************)
MutantBeginDeleteFileFirst(h, d) ==
  /\ Live(d)
  /\ Begin(h, d, "delObject", 0)
  /\ UNCHANGED historyVars

BeginDelete(h, d) ==
  /\ Live(d)
  /\ Begin(h, d, "delChunks", 0)
  /\ UNCHANGED historyVars

RemoveChunks(h) ==
  /\ hpc[h] = "delChunks"
  /\ \/ /\ DbWorksFor(h)
        /\ DeleteChunks(hdoc[h])
        /\ withdrawn' = withdrawn \cup {hdoc[h]}
        /\ Goto(h, "delObject")
     \/ DbFailsFor(h) /\ Reply(h) /\ UNCHANGED <<repoVars, withdrawn>>
  /\ UNCHANGED <<objects, queueVars, http, processVars, reindexes>>

\* The error of the object store is ignored.
RemoveObject(h) ==
  /\ hpc[h] = "delObject"
  /\ \/ Store!DeleteObject(hdoc[h])
     \/ StoreFailsFor(h) /\ UNCHANGED objects
  /\ Goto(h, "delRow")
  /\ UNCHANGED <<repoVars, queueVars, http, processVars, historyVars>>

RemoveRow(h) ==
  /\ hpc[h] = "delRow"
  /\ \/ DbWorksFor(h) /\ Delete(hdoc[h])
     \/ DbFailsFor(h) /\ UNCHANGED repoVars
  /\ Reply(h)
  /\ UNCHANGED <<objects, queueVars, http, processVars, historyVars>>

(***************************************************************************)
(* DocumentService.RetryIndex.  The status it tests and the chunk count it *)
(* writes back are read in BeginReindex; the job is sent before the row is *)
(* set to pending.                                                         *)
(***************************************************************************)
BeginReindex(h, d) ==
  /\ Live(d)
  /\ status[d] # "indexing"
  /\ reindexes[d] < MaxReindex
  /\ reindexes' = [reindexes EXCEPT ![d] = @ + 1]
  /\ Begin(h, d, "reEnqueue", count[d])
  /\ UNCHANGED withdrawn

Reenqueue(h) ==
  /\ hpc[h] = "reEnqueue"
  /\ \/ Queue!Send(hdoc[h]) /\ Goto(h, "rePending")
     \/ (Refused(h) \/ closed) /\ Reply(h) /\ UNCHANGED queueVars
  /\ UNCHANGED <<repoVars, objects, http, processVars, historyVars>>

MarkPending(h) ==
  /\ hpc[h] = "rePending"
  /\ \/ DbWorksFor(h) /\ UpdateStatus(hdoc[h], "pending", hcount[h])
     \/ DbFailsFor(h) /\ UNCHANGED repoVars
  /\ Reply(h)
  /\ UNCHANGED <<objects, queueVars, http, processVars, historyVars>>

\* What a request does once it has begun.
HandlerStep(h) ==
  \/ SaveFile(h) \/ CreateRow(h) \/ Unsave(h) \/ EnqueueUpload(h) \/ MarkFailed(h)
  \/ RemoveChunks(h) \/ RemoveObject(h) \/ RemoveRow(h)
  \/ Reenqueue(h) \/ MarkPending(h)

-----------------------------------------------------------------------------
(***************************************************************************)
(* IndexingService.Process, run by the queue's workers under the context   *)
(* Stop cancels.  An attempt that returns an error is followed, inside the *)
(* same worker loop, by the next attempt or by giving the job up.          *)
(***************************************************************************)
DbWorksForWorkers == ~ctxDone
DbFailsForWorkers == ctxDone \/ "db" \in faults

Step(w, pc) ==
  /\ wpc' = [wpc EXCEPT ![w] = pc]
  /\ UNCHANGED wcount

\* Process returned an error.
Errored(w) ==
  /\ wcount' = [wcount EXCEPT ![w] = 0]
  /\ \/ Queue!Retry(w) /\ wpc' = [wpc EXCEPT ![w] = "load"]
     \/ Queue!GiveUp(w) /\ wpc' = [wpc EXCEPT ![w] = "wait"]

\* Process returned nil.
Done(w) ==
  /\ Queue!Succeed(w)
  /\ wpc' = [wpc EXCEPT ![w] = "wait"]
  /\ wcount' = [wcount EXCEPT ![w] = 0]

TakeJob(w) ==
  /\ Queue!Take(w)
  /\ Step(w, "load")
  /\ UNCHANGED <<repoVars, objects, http, handlerVars, historyVars>>

\* FindByID: an error, or no such document any more, ends the attempt here.
Load(w) ==
  /\ wpc[w] = "load"
  /\ \/ /\ DbWorksForWorkers /\ Live(held[w])
        /\ wpc' = [wpc EXCEPT ![w] = "mark"]
        /\ wcount' = [wcount EXCEPT ![w] = count[held[w]]]
        /\ UNCHANGED queueVars
     \/ (DbFailsForWorkers \/ ~Live(held[w])) /\ Errored(w)
  /\ UNCHANGED <<repoVars, objects, http, handlerVars, historyVars>>

Mark(w) ==
  /\ wpc[w] = "mark"
  /\ \/ /\ DbWorksForWorkers
        /\ UpdateStatus(held[w], "indexing", wcount[w])
        /\ Step(w, "extract")
        /\ UNCHANGED queueVars
     \/ DbFailsForWorkers /\ Errored(w) /\ UNCHANGED repoVars
  /\ UNCHANGED <<objects, http, handlerVars, historyVars>>

\* Open the file, choose a parser, parse, split and embed.  None of it writes
\* anything.  A cancelled context fails the calls that honour it.
ExtractFails(w) ==
  \/ ~Store!Stored(held[w])
  \/ faults \cap {"storage", "extract"} # {}
  \/ ctxDone

MutantExtractForgetsFail(w) ==
  /\ wpc[w] = "extract"
  /\ \/ /\ Store!Stored(held[w])
        /\ Step(w, IF Pieces[held[w]] = 0 THEN "finish" ELSE "persist")
        /\ UNCHANGED queueVars
     \/ ExtractFails(w) /\ Errored(w)
  /\ UNCHANGED <<repoVars, objects, http, handlerVars, historyVars>>

Extract(w) ==
  /\ wpc[w] = "extract"
  /\ \/ /\ Store!Stored(held[w])
        /\ Step(w, IF Pieces[held[w]] = 0 THEN "finish" ELSE "persist")
     \/ ExtractFails(w) /\ Step(w, "fail")
  /\ UNCHANGED <<repoVars, objects, queueVars, http, handlerVars, historyVars>>

MutantPersistIgnoresError(w) ==
  /\ wpc[w] = "persist"
  /\ \/ DbWorksForWorkers /\ CreateChunks(held[w])
     \/ DbFailsForWorkers /\ UNCHANGED repoVars
  /\ Step(w, "finish")
  /\ UNCHANGED <<objects, queueVars, http, handlerVars, historyVars>>

Persist(w) ==
  /\ wpc[w] = "persist"
  /\ \/ DbWorksForWorkers /\ CreateChunks(held[w]) /\ Step(w, "finish")
     \/ DbFailsForWorkers /\ Step(w, "fail") /\ UNCHANGED repoVars
  /\ UNCHANGED <<objects, queueVars, http, handlerVars, historyVars>>

Finish(w) ==
  /\ wpc[w] = "finish"
  /\ \/ DbWorksForWorkers /\ UpdateStatus(held[w], "indexed", Pieces[held[w]]) /\ Done(w)
     \/ DbFailsForWorkers /\ Errored(w) /\ UNCHANGED repoVars
  /\ UNCHANGED <<objects, http, handlerVars, historyVars>>

\* fail: the error of the status update itself is ignored.
Fail(w) ==
  /\ wpc[w] = "fail"
  /\ \/ DbWorksForWorkers /\ UpdateStatus(held[w], "failed", 0)
     \/ DbFailsForWorkers /\ UNCHANGED repoVars
  /\ Errored(w)
  /\ UNCHANGED <<objects, http, handlerVars, historyVars>>

SpawnWorker(w) ==
  /\ Queue!Spawn(w)
  /\ UNCHANGED <<repoVars, objects, http, handlerVars, processVars, historyVars>>

LeaveLoop(w) ==
  /\ Queue!Exit(w)
  /\ UNCHANGED <<repoVars, objects, http, handlerVars, processVars, historyVars>>

WorkerStep(w) ==
  \/ SpawnWorker(w) \/ TakeJob(w) \/ LeaveLoop(w)
  \/ Load(w) \/ Mark(w) \/ Extract(w) \/ Persist(w) \/ Finish(w) \/ Fail(w)

-----------------------------------------------------------------------------
(***************************************************************************)
(* The process: main, Server.Start and Server.Shutdown.                    *)
(***************************************************************************)
Boot ==
  /\ http = "off"
  /\ http' = "starting"
  /\ Queue!Start
  /\ UNCHANGED <<repoVars, objects, handlerVars, processVars, historyVars>>

\* The listener opens after queue.Start has returned.
Listen ==
  /\ http = "starting"
  /\ \A w \in Worker : state[w] # "starting"
  /\ http' = "serving"
  /\ UNCHANGED <<repoVars, objects, queueVars, handlerVars, processVars, historyVars>>

\* SIGTERM: http.Shutdown refuses new requests and waits for the running ones.
ShutdownHTTP ==
  /\ "stop" \in faults
  /\ http \in {"starting", "serving"}
  /\ http' = "closing"
  /\ UNCHANGED <<repoVars, objects, queueVars, handlerVars, processVars, historyVars>>

\* queue.Stop follows when they are done or after 15 s, whichever is first:
\* requests may still be running, and after it their Enqueue panics.
StopQueue ==
  /\ http = "closing"
  /\ Queue!Stop
  /\ UNCHANGED <<repoVars, objects, http, handlerVars, processVars, historyVars>>

\* The process ends, with whatever its goroutines were doing; the database
\* and the object store are all that the next process finds.
ProcessEnds ==
  /\ http' = "off"
  /\ Queue!Kill
  /\ hpc' = [h \in Handler |-> "idle"]
  /\ hdoc' = [h \in Handler |-> NoDoc]
  /\ hcount' = [h \in Handler |-> 0]
  /\ gone' = [h \in Handler |-> FALSE]
  /\ wpc' = [w \in Worker |-> "wait"]
  /\ wcount' = [w \in Worker |-> 0]
  /\ UNCHANGED <<repoVars, objects, historyVars>>

\* main returns once wg.Wait inside queue.Stop has.
ExitMain == http = "closing" /\ Queue!StopReturned /\ ProcessEnds

Crash == "crash" \in faults /\ http # "off" /\ ProcessEnds

Lifecycle == Boot \/ Listen \/ StopQueue \/ ExitMain

\* Nothing to do until a client sends a request.
Quiet ==
  /\ http = "serving"
  /\ \A h \in Handler : hpc[h] = "idle"
  /\ \A w \in Worker : state[w] = "idle"
  /\ jobs = <<>>
  /\ UNCHANGED <<repoVars, objects, queueVars, http, handlerVars, processVars, historyVars>>

Next ==
  /\ UNCHANGED faults
  /\ \/ \E h \in Handler, d \in Doc : BeginUpload(h, d) \/ BeginDelete(h, d) \/ BeginReindex(h, d)
     \/ \E h \in Handler : HandlerStep(h) \/ Disconnect(h)
     \/ \E w \in Worker : WorkerStep(w)
     \/ Lifecycle
     \/ ShutdownHTTP
     \/ Crash
     \/ Quiet

Spec == Init /\ [][Next]_vars

\* Goroutines that can run do run, database and embedder calls return (they
\* have timeouts), main and Server.Start proceed.  Users, operators and
\* mishaps owe nothing.
Fairness ==
  /\ \A h \in Handler : WF_vars(HandlerStep(h) /\ UNCHANGED faults)
  /\ \A w \in Worker : WF_vars(WorkerStep(w) /\ UNCHANGED faults)
  /\ WF_vars(Lifecycle /\ UNCHANGED faults)

FairSpec == Spec /\ Fairness

-----------------------------------------------------------------------------
(***************************************************************************)
(* What a user of the knowledge base can tell of this state, and the       *)
(* promise about it that the pipeline implements.                          *)
(***************************************************************************)
Library == INSTANCE SearchableLibrary WITH
  Document <- Doc,
  PiecesOf <- Pieces,
  file <- objects,
  unborn <- {d \in Doc : status[d] = "none"},
  listed <- {d \in Doc : Live(d)},
  complete <- {d \in Doc : Live(d) /\ status[d] = "indexed"},
  advertised <- count,
  searchable <- chunks

\* Every step of every handler, worker, failure and restart is a step of the
\* searchable library or invisible to it.
ImplementsLibrary == Library!Spec

-----------------------------------------------------------------------------
InQueue(d) == \E i \in DOMAIN jobs : jobs[i] = d

WorkerAt(d, pcs) == \E w \in Worker : held[w] = d /\ wpc[w] \in pcs
HandlerAt(d, pcs) == \E h \in Handler : hdoc[h] = d /\ hpc[h] \in pcs

Waiting(d) == Live(d) /\ status[d] = "pending"

\* Somebody is going to change the status of a waiting document.
Attended(d) ==
  \/ InQueue(d)
  \/ WorkerAt(d, {"load", "mark"})
  \/ HandlerAt(d, {"enqueue", "markFailed"})

TypeOK ==
  /\ faults \in FaultModels
  /\ RepoTypeOK
  /\ objects \subseteq Doc
  /\ Queue!TypeOK
  /\ http \in {"off", "starting", "serving", "closing"}
  /\ hpc \in [Handler -> HandlerPC]
  /\ hdoc \in [Handler -> Doc \cup {NoDoc}]
  /\ \A h \in Handler : hpc[h] = "idle" <=> hdoc[h] = NoDoc
  /\ hcount \in [Handler -> Nat]
  /\ gone \in [Handler -> BOOLEAN]
  /\ wpc \in [Worker -> WorkerPC]
  /\ \A w \in Worker : wpc[w] = "wait" <=> state[w] # "busy"
  /\ wcount \in [Worker -> Nat]
  /\ withdrawn \subseteq Doc
  /\ reindexes \in [Doc -> 0..MaxReindex]

\* The chunk count shown with a document is backed by chunks that a search
\* can find, until a Delete removes them: counts are copied through stale
\* snapshots by retries and re-indexing (IndexingService.Process and
\* RetryIndex write back a count read earlier), and never overshoot.
ChunkCountBacked ==
  \A d \in Doc : Live(d) /\ d \notin withdrawn => count[d] <= chunks[d]

\* "indexed" is never shown for a document whose text is not searchable in
\* full: whoever wrote it last, retries and concurrent workers included, all
\* of the document's chunks were committed before (Process persists first).
IndexedIsSearchable ==
  \A d \in Doc : status[d] = "indexed" /\ Live(d) /\ d \notin withdrawn
                   => count[d] = Pieces[d] /\ chunks[d] >= Pieces[d]

\* A document that can be listed can be downloaded and indexed again: its
\* file is stored before its row exists (Upload) and stays until its chunks
\* have been removed by a Delete.
SourceFileKept ==
  \A d \in Doc : Live(d) /\ d \notin withdrawn => d \in objects

\* While the process and the database are up, a document shown as "indexing"
\* is being indexed by some worker: no error path of Process, no client that
\* goes away and no re-indexing leaves the status behind.
IndexingHasOwner ==
  faults \subseteq {"storage", "extract", "client"} =>
    \A d \in Doc : Live(d) /\ status[d] = "indexing"
                     => WorkerAt(d, {"extract", "persist", "finish", "fail"})

\* While the process and the database are up and clients stay, a document
\* shown as "pending" that nobody re-indexed is waiting in the queue, about to
\* be marked by the worker that took it, or still in its upload's hands.
PendingHasJob ==
  faults \subseteq {"storage", "extract"} =>
    \A d \in Doc : Waiting(d) /\ reindexes[d] = 0 => Attended(d)

\* While the process is up, the object store works and clients stay, every
\* stored object belongs to a listed document or to a request that is still
\* going to list or remove it, even when the database fails (Upload's cleanup).
NoOrphanObjects ==
  faults \subseteq {"db", "extract"} =>
    \A d \in objects : Live(d) \/ HandlerAt(d, {"create", "unsave"})

\* While the process and the database are up and clients stay, every upload
\* settles: in the end a listed document that nobody re-indexed is indexed,
\* failed or deleted and stays so, however many attempts its job takes.
Settled(d) == ~Live(d) \/ status[d] \in {"indexed", "failed"}
UploadSettles ==
  \A d \in Doc : (faults \subseteq {"storage", "extract"} /\ Live(d))
                   ~> [](Settled(d) \/ reindexes[d] > 0)

\* A shutdown always completes, whatever the requests and the workers were
\* doing when the signal came.
ShutdownCompletes == (http = "closing") ~> (http = "off")
=============================================================================
