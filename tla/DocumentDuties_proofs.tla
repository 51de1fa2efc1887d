------------------------ MODULE DocumentDuties_proofs ------------------------
(***************************************************************************)
(* Proofs that nothing is forgotten: while the mishaps a property excludes *)
(* stay away, whatever is unfinished (a pending or half-indexed document,  *)
(* a stored file without a row) is somebody's duty.                        *)
(***************************************************************************)
EXTENDS DocumentPipeline_proofs

-----------------------------------------------------------------------------
(***************************************************************************)
(* What a step leaves alone.                                               *)
(***************************************************************************)
LEMMA WorkerStepIsItsOwn ==
  ASSUME TypeOK, NEW w \in Worker, WorkerStep(w)
  PROVE  /\ UNCHANGED <<objects, http, handlerVars, historyVars, closed, ctxDone>>
         /\ \A v \in Worker \ {w} : wpc'[v] = wpc[v] /\ held'[v] = held[v]
<1>1. ProcessTypeOK /\ Queue!TypeOK
  BY TypeParts
<1>2. UNCHANGED <<objects, http, handlerVars, historyVars, closed, ctxDone>>
  BY DEF WorkerStep, SpawnWorker, TakeJob, LeaveLoop, Load, Mark, Extract, Persist, Finish, Fail,
         Errored, Done, Queue!Spawn, Queue!Take, Queue!Exit, Queue!Retry, Queue!GiveUp,
         Queue!Succeed, Queue!Release, queueVars
<1>3. ASSUME NEW v \in Worker \ {w}
      PROVE  wpc'[v] = wpc[v] /\ held'[v] = held[v]
  BY <1>1, <1>3
     DEF WorkerStep, SpawnWorker, TakeJob, LeaveLoop, Load, Mark, Extract, Persist, Finish, Fail,
         Errored, Done, Step, Queue!Spawn, Queue!Take, Queue!Exit, Queue!Retry, Queue!GiveUp,
         Queue!Succeed, Queue!Release, queueVars, processVars, ProcessTypeOK, Queue!TypeOK
<1> QED BY <1>2, <1>3

LEMMA HandlerStepIsItsOwn ==
  ASSUME TypeOK, NEW h \in Handler, HandlerStep(h)
  PROVE  /\ hpc[h] # "idle" /\ hdoc[h] \in Doc
         /\ UNCHANGED <<processVars, held, http, closed, ctxDone, reindexes>>
         /\ \A g \in Handler \ {h} : hpc'[g] = hpc[g] /\ hdoc'[g] = hdoc[g] /\ gone'[g] = gone[g]
         /\ \A d \in Doc \ {hdoc[h]} : status'[d] = status[d] /\ (Live(d)' <=> Live(d))
         /\ \A d \in Doc \ {hdoc[h]} : d \in objects' <=> d \in objects
<1>1. RepoTypeOK /\ HandlerTypeOK
  BY TypeParts
<1>2. hpc[h] # "idle" /\ hdoc[h] \in Doc
  BY HandlerMoves
     DEF HandlerStep, SaveFile, CreateRow, Unsave, EnqueueUpload, MarkFailed,
         RemoveChunks, RemoveObject, RemoveRow, Reenqueue, MarkPending
<1>3. UNCHANGED <<processVars, held, http, closed, ctxDone, reindexes>>
  BY DEF HandlerStep, SaveFile, CreateRow, Unsave, EnqueueUpload, MarkFailed, RemoveChunks,
         RemoveObject, RemoveRow, Reenqueue, MarkPending, historyVars, queueVars,
         Queue!Send, Queue!workerVars
<1>4. \A g \in Handler \ {h} : hpc'[g] = hpc[g] /\ hdoc'[g] = hdoc[g] /\ gone'[g] = gone[g]
  BY <1>1
     DEF HandlerStep, SaveFile, CreateRow, Unsave, EnqueueUpload, MarkFailed, RemoveChunks,
         RemoveObject, RemoveRow, Reenqueue, MarkPending, Goto, Reply, HandlerTypeOK
<1>5. \A d \in Doc \ {hdoc[h]} : status'[d] = status[d] /\ (Live(d)' <=> Live(d))
  BY <1>1, <1>2
     DEF HandlerStep, SaveFile, CreateRow, Unsave, EnqueueUpload, MarkFailed, RemoveChunks,
         RemoveObject, RemoveRow, Reenqueue, MarkPending, repoVars, Create, UpdateStatus,
         DeleteChunks, Delete, RepoTypeOK, Live
<1>6. \A d \in Doc \ {hdoc[h]} : d \in objects' <=> d \in objects
  BY DEF HandlerStep, SaveFile, CreateRow, Unsave, EnqueueUpload, MarkFailed, RemoveChunks,
         RemoveObject, RemoveRow, Reenqueue, MarkPending, Store!Save, Store!SaveFails,
         Store!DeleteObject
<1> QED BY <1>2, <1>3, <1>4, <1>5, <1>6

-----------------------------------------------------------------------------
(***************************************************************************)
(* A process nobody stops or kills keeps its queue open and its workers'   *)
(* context alive, and while clients stay no request context is cancelled.  *)
(***************************************************************************)
Undisturbed ==
  /\ faults \cap {"stop", "crash"} = {} => http # "closing" /\ ~closed /\ ~ctxDone
  /\ "client" \notin faults => \A h \in Handler : ~gone[h]

LEMMA UndisturbedStep ==
  ASSUME TypeOK, Undisturbed, [Next]_vars
  PROVE  /\ Undisturbed'
         /\ faults' = faults
         /\ faults \cap {"stop", "crash"} = {} => ~Crash /\ ~ExitMain
<1> USE DEF Undisturbed
<1>0. HandlerTypeOK
  BY TypeParts
<1>1. faults' = faults
  BY DEF Next, vars
<1>2. ASSUME faults \cap {"stop", "crash"} = {}
      PROVE  /\ http' # "closing" /\ ~closed' /\ ~ctxDone'
             /\ ~Crash /\ ~ExitMain /\ ~StopQueue /\ ~ShutdownHTTP
  <2>1. ~Crash /\ ~ExitMain /\ ~StopQueue /\ ~ShutdownHTTP
    BY <1>2 DEF Crash, ExitMain, StopQueue, ShutdownHTTP
  <2> QED
    BY <1>2, <2>1, WorkerStepIsItsOwn, HandlerStepIsItsOwn
       DEF Next, vars, queueVars, BeginUpload, BeginDelete, BeginReindex, Begin, Disconnect,
           Lifecycle, Boot, Listen, Quiet, Queue!Start
<1>3. ASSUME "client" \notin faults, NEW g \in Handler
      PROVE  ~gone'[g]
  <2>1. ASSUME NEW h \in Handler, HandlerStep(h)
        PROVE  ~gone'[g]
    BY <1>0, <1>3, <2>1
       DEF HandlerStep, SaveFile, CreateRow, Unsave, EnqueueUpload, MarkFailed, RemoveChunks,
           RemoveObject, RemoveRow, Reenqueue, MarkPending, Goto, Reply, HandlerTypeOK
  <2> QED
    BY <1>3, <2>1, WorkerStepIsItsOwn
       DEF Next, vars, handlerVars, BeginUpload, BeginDelete, BeginReindex, Begin, Disconnect,
           Lifecycle, Boot, Listen, StopQueue, ExitMain, ProcessEnds, ShutdownHTTP, Crash, Quiet
<1> QED BY <1>1, <1>2, <1>3

LEMMA UndisturbedInit == Init => Undisturbed
BY DEF Init, Queue!Init, Undisturbed

\* Without a signal or a crash no worker's context ends and no queue closes;
\* without a disconnect no request's context does.
THEOREM PipelineUndisturbed == Spec => []Undisturbed
BY UndisturbedInit, UndisturbedStep, PipelineTypeCorrect, PTL DEF Spec

-----------------------------------------------------------------------------
(***************************************************************************)
(* Every document shown as "indexing" has its worker.                      *)
(***************************************************************************)
IndexingPC == {"extract", "persist", "finish", "fail"}

LEMMA OwnerStep ==
  ASSUME TypeOK, Undisturbed, IndexingHasOwner, [Next]_vars
  PROVE  IndexingHasOwner'
<1> SUFFICES ASSUME faults' \subseteq {"storage", "extract", "client"},
                    NEW d \in Doc, Live(d)', status'[d] = "indexing"
             PROVE  WorkerAt(d, IndexingPC)'
  BY DEF IndexingHasOwner, IndexingPC, WorkerAt
<1>1. /\ ~ctxDone /\ "db" \notin faults /\ ~Crash /\ ~ExitMain
      /\ Live(d) /\ status[d] = "indexing" => \E w \in Worker : held[w] = d /\ wpc[w] \in IndexingPC
  BY UndisturbedStep DEF Undisturbed, IndexingHasOwner, WorkerAt, IndexingPC
<1>2. RepoTypeOK /\ HandlerTypeOK /\ ProcessTypeOK /\ Queue!TypeOK
  BY TypeParts
\* A step that leaves d's row and the workers alone.
<1>3. ASSUME Live(d), status[d] = "indexing", UNCHANGED <<wpc, held>>
      PROVE  WorkerAt(d, IndexingPC)'
  BY <1>1, <1>3 DEF WorkerAt
<1>4. ASSUME NEW h \in Handler, HandlerStep(h)
      PROVE  WorkerAt(d, IndexingPC)'
  <2>1. UNCHANGED <<wpc, held>>
    BY <1>4, HandlerStepIsItsOwn DEF processVars
  <2>2. Live(d) /\ status[d] = "indexing"
    BY <1>2, <1>4, HandlerStepIsItsOwn
       DEF HandlerStep, SaveFile, CreateRow, Unsave, EnqueueUpload, MarkFailed, RemoveChunks,
           RemoveObject, RemoveRow, Reenqueue, MarkPending, repoVars, Create, UpdateStatus,
           DeleteChunks, Delete, RepoTypeOK, Live
  <2> QED BY <1>3, <2>1, <2>2
<1>5. ASSUME NEW w \in Worker, WorkerStep(w)
      PROVE  WorkerAt(d, IndexingPC)'
  <2>1. CASE Mark(w) /\ held[w] = d
    BY <1>1, <1>2, <2>1
       DEF Mark, DbFailsForWorkers, Step, queueVars, ProcessTypeOK, WorkerAt, IndexingPC
  <2>2. CASE ~(Mark(w) /\ held[w] = d)
    <3>1. Live(d) /\ status[d] = "indexing"
      BY <1>2, <1>5, <2>2
         DEF WorkerStep, SpawnWorker, TakeJob, LeaveLoop, Load, Mark, Extract, Persist, Finish,
             Fail, repoVars, UpdateStatus, CreateChunks, RepoTypeOK, Live
    <3>2. PICK v \in Worker : held[v] = d /\ wpc[v] \in IndexingPC
      BY <1>1, <3>1
    <3>3. CASE v # w
      BY <1>5, <3>2, <3>3, WorkerStepIsItsOwn DEF WorkerAt
    <3>4. CASE v = w
      <4>1. ~Finish(w) /\ ~Fail(w)
        BY <1>1, <1>2, <3>1, <3>2, <3>4
           DEF Finish, Fail, DbFailsForWorkers, UpdateStatus, RepoTypeOK
      <4>2. Extract(w) \/ Persist(w)
        BY <1>2, <1>5, <3>2, <3>4, <4>1
           DEF WorkerStep, SpawnWorker, TakeJob, LeaveLoop, Load, Mark, Queue!Spawn, Queue!Take,
               Queue!Exit, ProcessTypeOK, IndexingPC
      <4>3. held'[w] = d /\ wpc'[w] \in IndexingPC
        BY <1>2, <3>2, <3>4, <4>2
           DEF Extract, Persist, Step, queueVars, ProcessTypeOK, IndexingPC
      <4> QED BY <4>3 DEF WorkerAt
    <3> QED BY <3>3, <3>4
  <2> QED BY <2>1, <2>2
<1>6. CASE \/ \E h \in Handler, e \in Doc : BeginUpload(h, e) \/ BeginDelete(h, e) \/ BeginReindex(h, e)
           \/ \E h \in Handler : Disconnect(h)
           \/ Boot \/ Listen \/ StopQueue \/ ShutdownHTTP \/ Quiet \/ UNCHANGED vars
  <2>1. UNCHANGED <<repoVars, wpc, held>>
    BY <1>6 DEF BeginUpload, BeginDelete, BeginReindex, Begin, Disconnect, Boot, Listen, StopQueue,
                ShutdownHTTP, Quiet, vars, processVars, queueVars, Queue!Start, Queue!Stop,
                Queue!workerVars
  <2> QED BY <1>3, <2>1 DEF repoVars, Live
<1> QED BY <1>1, <1>4, <1>5, <1>6 DEF Next, Lifecycle

LEMMA OwnerInit == Init => IndexingHasOwner
BY DEF Init, RepoInit, IndexingHasOwner

\* While process and database are up, "indexing" always has a worker behind it,
\* for any number of workers, retries and re-indexings.
THEOREM IndexingIsOwned == Spec => []IndexingHasOwner
BY OwnerInit, OwnerStep, PipelineTypeCorrect, PipelineUndisturbed, PTL DEF Spec

-----------------------------------------------------------------------------
(***************************************************************************)
(* Every pending document that nobody re-indexed has a job, or somebody    *)
(* who is about to give it one.                                            *)
(***************************************************************************)
ReindexersCounted ==
  \A h \in Handler : hpc[h] \in RetryPC => reindexes[hdoc[h]] > 0

LEMMA ReindexersCountedStep ==
  ASSUME TypeOK, ReindexersCounted, [Next]_vars
  PROVE  ReindexersCounted' /\ \A d \in Doc : reindexes[d] <= reindexes'[d]
<1> USE DEF ReindexersCounted, RetryPC
<1>1. HandlerTypeOK /\ reindexes \in [Doc -> 0..MaxReindex]
  BY TypeParts DEF OtherTypeOK
<1>2. ASSUME NEW h \in Handler, HandlerStep(h)
      PROVE  ReindexersCounted' /\ reindexes' = reindexes
  <2>1. hpc'[h] \in RetryPC => hpc[h] \in RetryPC /\ hdoc'[h] = hdoc[h]
    BY <1>1, <1>2
       DEF HandlerStep, SaveFile, CreateRow, Unsave, EnqueueUpload, MarkFailed, RemoveChunks,
           RemoveObject, RemoveRow, Reenqueue, MarkPending, Goto, Reply, HandlerTypeOK
  <2> QED BY <1>2, <2>1, HandlerStepIsItsOwn
<1>3. ASSUME NEW h \in Handler, NEW d \in Doc, BeginReindex(h, d)
      PROVE  ReindexersCounted' /\ \A e \in Doc : reindexes[e] <= reindexes'[e]
  BY <1>1, <1>3, PipelineAssumption DEF BeginReindex, Begin, HandlerTypeOK
<1>4. ASSUME NEW h \in Handler, NEW d \in Doc, BeginUpload(h, d) \/ BeginDelete(h, d)
      PROVE  ReindexersCounted' /\ reindexes' = reindexes
  BY <1>1, <1>4 DEF BeginUpload, BeginDelete, Begin, historyVars, HandlerTypeOK
<1>5. ASSUME ProcessEnds
      PROVE  ReindexersCounted' /\ reindexes' = reindexes
  BY <1>1, <1>5 DEF ProcessEnds, historyVars
<1>6. ASSUME \/ Boot \/ Listen \/ StopQueue \/ ShutdownHTTP \/ Quiet \/ UNCHANGED vars
             \/ \E w \in Worker : WorkerStep(w)
             \/ \E h \in Handler : Disconnect(h)
      PROVE  ReindexersCounted' /\ reindexes' = reindexes
  <2>1. UNCHANGED <<hpc, hdoc, reindexes>>
    BY <1>6, WorkerStepIsItsOwn
       DEF Boot, Listen, StopQueue, ShutdownHTTP, Quiet, vars, Disconnect, handlerVars, historyVars
  <2> QED BY <1>1, <2>1
<1>7. reindexes' = reindexes => \A d \in Doc : reindexes[d] <= reindexes'[d]
  BY <1>1
<1> QED BY <1>2, <1>3, <1>4, <1>5, <1>6, <1>7 DEF Next, Lifecycle, ExitMain, Crash

LEMMA PendingStep ==
  ASSUME TypeOK, Undisturbed, ReindexersCounted, PendingHasJob, [Next]_vars
  PROVE  PendingHasJob'
<1> SUFFICES ASSUME faults' \subseteq {"storage", "extract"},
                    NEW d \in Doc, Waiting(d)', reindexes'[d] = 0
             PROVE  Attended(d)'
  BY DEF PendingHasJob
<1> USE DEF Waiting
<1>1. /\ ~ctxDone /\ ~closed /\ "db" \notin faults /\ ~Crash /\ ~ExitMain
      /\ \A h \in Handler : ~gone[h]
  BY UndisturbedStep DEF Undisturbed
<1>2. /\ RepoTypeOK /\ HandlerTypeOK /\ ProcessTypeOK /\ Queue!TypeOK
      /\ reindexes[d] \in Nat /\ reindexes[d] <= reindexes'[d]
  BY TypeParts, ReindexersCountedStep DEF OtherTypeOK
<1>3. reindexes[d] = 0 /\ (Waiting(d) => Attended(d))
  <2>1. reindexes[d] = 0
    BY <1>2
  <2>2. faults \subseteq {"storage", "extract"}
    BY UndisturbedStep
  <2> QED BY <2>1, <2>2 DEF PendingHasJob
<1>4. ASSUME NEW h \in Handler, HandlerStep(h)
      PROVE  Attended(d)'
  <2>1. CASE CreateRow(h) /\ hdoc[h] = d /\ ~Waiting(d)
    <3>1. hpc'[h] = "enqueue" /\ hdoc'[h] = d
      BY <1>1, <1>2, <2>1 DEF CreateRow, DbFailsFor, Goto, HandlerTypeOK
    <3> QED BY <3>1 DEF Attended, HandlerAt
  <2>2. CASE ~(CreateRow(h) /\ hdoc[h] = d /\ ~Waiting(d))
    <3>1. hpc[h] = "rePending" => hdoc[h] # d
      BY <1>3 DEF ReindexersCounted, RetryPC
    <3>2. Waiting(d)
      BY <1>2, <1>4, <2>2, <3>1, HandlerStepIsItsOwn
         DEF HandlerStep, SaveFile, CreateRow, Unsave, EnqueueUpload, MarkFailed, RemoveChunks,
             RemoveObject, RemoveRow, Reenqueue, MarkPending, repoVars, UpdateStatus,
             DeleteChunks, Delete, RepoTypeOK, Live
    <3>3. CASE InQueue(d)
      <4>1. jobs' = jobs \/ jobs' = Append(jobs, hdoc[h])
        BY <1>4 DEF HandlerStep, SaveFile, CreateRow, Unsave, EnqueueUpload, MarkFailed,
                    RemoveChunks, RemoveObject, RemoveRow, Reenqueue, MarkPending, queueVars,
                    Queue!Send
      <4>2. jobs \in Seq(Doc) /\ hdoc[h] \in Doc
        BY <1>2, <1>4, HandlerStepIsItsOwn DEF Queue!TypeOK
      <4>3. InQueue(d)'
        BY <3>3, <4>1, <4>2 DEF InQueue
      <4> QED BY <4>3 DEF Attended
    <3>4. CASE WorkerAt(d, {"load", "mark"})
      BY <1>4, <3>4, HandlerStepIsItsOwn DEF Attended, WorkerAt, processVars
    <3>5. ASSUME NEW g \in Handler, hdoc[g] = d, hpc[g] \in {"enqueue", "markFailed"}
          PROVE  Attended(d)'
      <4>1. CASE g # h
        BY <1>4, <3>5, <4>1, HandlerStepIsItsOwn DEF Attended, HandlerAt
      <4>2. CASE g = h /\ hpc[h] = "markFailed"
        BY <1>1, <1>2, <1>4, <3>2, <3>5, <4>2
           DEF HandlerStep, SaveFile, CreateRow, Unsave, EnqueueUpload, MarkFailed, RemoveChunks,
               RemoveObject, RemoveRow, Reenqueue, MarkPending, DbFailsFor, UpdateStatus, RepoTypeOK
      <4>3. CASE g = h /\ hpc[h] = "enqueue"
        <5>1. EnqueueUpload(h)
          BY <1>4, <4>3
             DEF HandlerStep, SaveFile, CreateRow, Unsave, MarkFailed, RemoveChunks,
                 RemoveObject, RemoveRow, Reenqueue, MarkPending
        <5>2. CASE Queue!Send(hdoc[h])
          <6>1. jobs' = Append(jobs, d) /\ jobs \in Seq(Doc)
            BY <1>2, <3>5, <4>3, <5>2 DEF Queue!Send, Queue!TypeOK
          <6>2. Len(jobs) + 1 \in DOMAIN jobs' /\ jobs'[Len(jobs) + 1] = d
            BY <6>1
          <6>3. InQueue(d)'
            BY <6>2 DEF InQueue
          <6> QED BY <6>3 DEF Attended
        <5>3. CASE Goto(h, "markFailed")
          BY <1>2, <3>5, <4>3, <5>3 DEF Goto, HandlerTypeOK, Attended, HandlerAt
        <5> QED BY <1>1, <5>1, <5>2, <5>3 DEF EnqueueUpload
      <4> QED BY <3>5, <4>1, <4>2, <4>3
    <3> QED BY <1>3, <3>2, <3>3, <3>4, <3>5 DEF Attended, HandlerAt
  <2> QED BY <2>1, <2>2
<1>5. ASSUME NEW w \in Worker, WorkerStep(w)
      PROVE  Attended(d)'
  <2>1. Waiting(d) /\ UNCHANGED handlerVars
    <3>1. UNCHANGED handlerVars
      BY <1>5, WorkerStepIsItsOwn
    <3>2. Live(d) /\ status[d] = "pending"
      BY <1>2, <1>5
         DEF WorkerStep, SpawnWorker, TakeJob, LeaveLoop, Load, Mark, Extract, Persist, Finish,
             Fail, repoVars, UpdateStatus, CreateChunks, RepoTypeOK, Live
    <3> QED BY <3>1, <3>2
  <2>2. CASE HandlerAt(d, {"enqueue", "markFailed"})
    BY <2>1, <2>2 DEF HandlerAt, Attended, handlerVars
  <2>3. ASSUME NEW v \in Worker, held[v] = d, wpc[v] \in {"load", "mark"}
        PROVE  Attended(d)'
    <3>1. CASE v # w
      BY <1>5, <2>3, <3>1, WorkerStepIsItsOwn DEF Attended, WorkerAt
    <3>2. CASE v = w /\ Mark(w)
      BY <1>1, <1>2, <2>1, <2>3, <3>2 DEF Mark, DbFailsForWorkers, UpdateStatus, RepoTypeOK
    <3>3. CASE v = w /\ Load(w)
      <4>1. held'[w] = d /\ wpc'[w] = "mark"
        BY <1>1, <1>2, <2>1, <2>3, <3>3 DEF Load, DbFailsForWorkers, queueVars, ProcessTypeOK
      <4> QED BY <4>1 DEF Attended, WorkerAt
    <3>4. v = w => Load(w) \/ Mark(w)
      BY <1>2, <1>5, <2>3
         DEF WorkerStep, SpawnWorker, TakeJob, LeaveLoop, Extract, Persist, Finish, Fail,
             Queue!Spawn, Queue!Take, Queue!Exit, ProcessTypeOK
    <3> QED BY <3>1, <3>2, <3>3, <3>4
  <2>4. CASE InQueue(d)
    <3>1. jobs \in Seq(Doc) /\ \E i \in DOMAIN jobs : jobs[i] = d
      BY <1>2, <2>4 DEF Queue!TypeOK, InQueue
    <3>2. CASE TakeJob(w)
      <4>1. /\ jobs # <<>> /\ jobs' = Tail(jobs)
            /\ held'[w] = Head(jobs) /\ wpc'[w] = "load"
        BY <1>2, <3>2 DEF TakeJob, Queue!Take, Step, Queue!TypeOK, ProcessTypeOK
      <4>2. CASE Head(jobs) = d
        BY <4>1, <4>2 DEF Attended, WorkerAt
      <4>3. CASE Head(jobs) # d
        <5>1. PICK i \in DOMAIN jobs : jobs[i] = d
          BY <3>1
        <5>2. i # 1 /\ i - 1 \in DOMAIN jobs' /\ jobs'[i - 1] = d
          BY <3>1, <4>1, <4>3, <5>1
        <5> QED BY <5>2 DEF Attended, InQueue
      <4> QED BY <4>2, <4>3
    <3>3. CASE ~TakeJob(w)
      <4>1. jobs' = jobs
        BY <1>5, <3>3
           DEF WorkerStep, SpawnWorker, LeaveLoop, Load, Mark, Extract, Persist, Finish, Fail,
               Errored, Done, Queue!Spawn, Queue!Exit, Queue!Retry, Queue!GiveUp, Queue!Succeed,
               Queue!Release, queueVars
      <4> QED BY <2>4, <4>1 DEF Attended, InQueue
    <3> QED BY <3>2, <3>3
  <2> QED BY <1>3, <2>1, <2>2, <2>3, <2>4 DEF Attended, WorkerAt
<1>6. CASE \E h \in Handler, e \in Doc : BeginUpload(h, e) \/ BeginDelete(h, e) \/ BeginReindex(h, e)
  <2>1. PICK h \in Handler : /\ hpc[h] = "idle"
                             /\ \A g \in Handler \ {h} : hpc'[g] = hpc[g] /\ hdoc'[g] = hdoc[g]
                             /\ UNCHANGED <<repoVars, jobs, held, wpc>>
    BY <1>2, <1>6 DEF BeginUpload, BeginDelete, BeginReindex, Begin, HandlerTypeOK, queueVars,
                      processVars
  <2>2. Waiting(d)
    BY <2>1 DEF repoVars, Live
  <2>3. HandlerAt(d, {"enqueue", "markFailed"}) => HandlerAt(d, {"enqueue", "markFailed"})'
    BY <2>1 DEF HandlerAt
  <2> QED BY <1>3, <2>1, <2>2, <2>3 DEF Attended, WorkerAt, InQueue
<1>7. CASE \/ \E h \in Handler : Disconnect(h)
           \/ Boot \/ Listen \/ StopQueue \/ ShutdownHTTP \/ Quiet \/ UNCHANGED vars
  <2>1. UNCHANGED <<repoVars, hpc, hdoc, wpc, held, jobs>>
    BY <1>7 DEF Disconnect, Boot, Listen, StopQueue, ShutdownHTTP, Quiet, vars, handlerVars,
                processVars, queueVars, Queue!Start, Queue!Stop, Queue!workerVars
  <2> QED BY <1>3, <2>1 DEF Attended, HandlerAt, WorkerAt, InQueue, repoVars, Live
<1> QED BY <1>1, <1>4, <1>5, <1>6, <1>7 DEF Next, Lifecycle

LEMMA PendingInit == Init => PendingHasJob /\ ReindexersCounted
BY DEF Init, RepoInit, PendingHasJob, ReindexersCounted, RetryPC, Waiting

\* No upload is forgotten: while process, database and clients stay, a pending
\* document nobody re-indexed has its job, however full the queue ever was.
THEOREM PendingIsAttended == Spec => []PendingHasJob
<1>1. TypeOK /\ Undisturbed /\ (PendingHasJob /\ ReindexersCounted) /\ [Next]_vars
        => (PendingHasJob /\ ReindexersCounted)'
  BY PendingStep, ReindexersCountedStep
<1> QED BY <1>1, PendingInit, PipelineTypeCorrect, PipelineUndisturbed, PTL DEF Spec

-----------------------------------------------------------------------------
(***************************************************************************)
(* Every stored file belongs to a listed document or to the request that   *)
(* is going to list or remove it.                                          *)
(***************************************************************************)
\* While the store works, a Delete about to remove the row has removed the file.
RemovedFirst ==
  faults \subseteq {"db", "extract"} =>
    \A h \in Handler : hpc[h] = "delRow" => hdoc[h] \notin objects

LEMMA FileStep ==
  ASSUME PipelineInv, Undisturbed, RemovedFirst, NoOrphanObjects, [Next]_vars
  PROVE  RemovedFirst' /\ NoOrphanObjects'
<1> SUFFICES ASSUME faults' \subseteq {"db", "extract"}
             PROVE  /\ \A h \in Handler : hpc'[h] = "delRow" => hdoc'[h] \notin objects'
                    /\ \A d \in objects' : Live(d)' \/ HandlerAt(d, {"create", "unsave"})'
  BY DEF RemovedFirst, NoOrphanObjects
<1>1. /\ TypeOK /\ Undisturbed /\ RepoTypeOK /\ HandlerTypeOK /\ objects \subseteq Doc
      /\ UploadsOwn /\ RequestsHaveRow
  BY TypeParts DEF PipelineInv, Carried, OtherTypeOK
<1>2. faults' = faults /\ ~Crash /\ ~ExitMain /\ "storage" \notin faults /\ \A h \in Handler : ~gone[h]
  BY <1>1, UndisturbedStep DEF Undisturbed
<1>3. /\ \A h \in Handler : hpc[h] = "delRow" => hdoc[h] \notin objects
      /\ \A d \in objects : Live(d) \/ HandlerAt(d, {"create", "unsave"})
  BY <1>2 DEF RemovedFirst, NoOrphanObjects
<1>4. ASSUME NEW h \in Handler, HandlerStep(h)
      PROVE  /\ \A g \in Handler : hpc'[g] = "delRow" => hdoc'[g] \notin objects'
             /\ \A d \in objects' : Live(d)' \/ HandlerAt(d, {"create", "unsave"})'
  <2>0. PICK e \in Doc : e = hdoc[h]
    BY <1>1, <1>4, HandlerStepIsItsOwn
  <2>1. /\ \A g \in Handler \ {h} : hpc'[g] = hpc[g] /\ hdoc'[g] = hdoc[g]
        /\ \A d \in Doc \ {e} : (Live(d)' <=> Live(d)) /\ (d \in objects' <=> d \in objects)
    BY <1>1, <1>4, <2>0, HandlerStepIsItsOwn
  <2>2. objects' \subseteq Doc
    BY <1>1, <1>4, HandlerKeepsTypes DEF OtherTypeOK
  \* Only Save adds an object, of a document no other request is about.
  <2>3. objects' \subseteq objects \/ SaveFile(h)
    BY <1>4
       DEF HandlerStep, CreateRow, Unsave, EnqueueUpload, MarkFailed, RemoveChunks, RemoveObject,
           RemoveRow, Reenqueue, MarkPending, Store!DeleteObject
  <2>4. ASSUME NEW g \in Handler, hpc'[g] = "delRow"
        PROVE  hdoc'[g] \notin objects'
    <3>1. CASE g # h
      <4>1. hdoc[g] \notin objects /\ hdoc[g] \in Doc /\ hdoc'[g] = hdoc[g] /\ hpc[g] = "delRow"
        BY <1>1, <1>3, <2>1, <2>4, <3>1 DEF HandlerTypeOK
      <4>2. SaveFile(h) => hdoc[g] # e
        BY <1>1, <2>0, <4>1, <3>1 DEF SaveFile, UploadsOwn, UploadOnly
      <4> QED BY <2>1, <2>3, <4>1, <4>2
    <3>2. CASE g = h
      <4>1. RemoveObject(h) /\ hdoc' = hdoc /\ objects' = objects \ {e}
        BY <1>1, <1>2, <1>4, <2>0, <2>4, <3>2
           DEF HandlerStep, SaveFile, CreateRow, Unsave, EnqueueUpload, MarkFailed, RemoveChunks,
               RemoveObject, RemoveRow, Reenqueue, MarkPending, Goto, Reply, HandlerTypeOK,
               StoreFailsFor, Store!DeleteObject
      <4> QED BY <2>0, <3>2, <4>1
    <3> QED BY <3>1, <3>2
  <2>5. ASSUME NEW d \in objects', d # e
        PROVE  Live(d)' \/ HandlerAt(d, {"create", "unsave"})'
    <3>1. d \in Doc \ {e} /\ d \in objects
      BY <2>1, <2>2, <2>5
    <3>2. CASE Live(d)
      BY <2>1, <3>1, <3>2
    <3>3. ASSUME NEW g \in Handler, hdoc[g] = d, hpc[g] \in {"create", "unsave"}
          PROVE  HandlerAt(d, {"create", "unsave"})'
      BY <2>0, <2>1, <2>5, <3>3 DEF HandlerAt
    <3> QED BY <1>3, <3>1, <3>2, <3>3 DEF HandlerAt
  <2>6. ASSUME e \in objects'
        PROVE  Live(e)' \/ HandlerAt(e, {"create", "unsave"})'
    <3>1. CASE SaveFile(h)
      <4>1. hpc'[h] = "create" /\ hdoc'[h] = e
        BY <1>1, <1>2, <2>0, <3>1 DEF SaveFile, StoreFailsFor, Goto, HandlerTypeOK
      <4> QED BY <4>1 DEF HandlerAt
    <3>2. CASE CreateRow(h)
      <4>1. CASE Create(e)
        <5>1. status[e] = "none"
          BY <1>1, <2>0, <3>2 DEF CreateRow, UploadsOwn, UploadOnly
        <5>2. e \notin deleted /\ deleted' = deleted /\ status'[e] = "pending"
          BY <1>1, <4>1, <5>1 DEF Create, RepoTypeOK
        <5> QED BY <5>2 DEF Live
      <4>2. CASE Goto(h, "unsave")
        BY <1>1, <2>0, <4>2 DEF Goto, HandlerTypeOK, HandlerAt
      <4> QED BY <2>0, <3>2, <4>1, <4>2 DEF CreateRow
    <3>3. ~Unsave(h) /\ ~RemoveObject(h)
      BY <1>2, <2>0, <2>6 DEF Unsave, RemoveObject, StoreFailsFor, Store!DeleteObject
    <3>4. ~RemoveRow(h)
      BY <1>3, <2>0, <2>6 DEF RemoveRow
    <3>5. CASE ~SaveFile(h) /\ ~CreateRow(h)
      <4>1. hpc[h] \notin {"create", "unsave"} /\ e \in objects
        BY <1>4, <2>6, <3>3, <3>5, <2>3
           DEF HandlerStep, EnqueueUpload, MarkFailed, RemoveChunks, RemoveRow, Reenqueue, MarkPending
      <4>2. Live(e)
        <5>1. status[e] # "none"
          BY <1>1, <1>4, <2>0, <3>3, <3>5
             DEF HandlerStep, EnqueueUpload, MarkFailed, RemoveChunks, RemoveRow, Reenqueue,
                 MarkPending, RequestsHaveRow, UploadOnly
        <5> QED BY <1>1, <1>3, <2>0, <4>1, <5>1 DEF HandlerAt, UploadsOwn, UploadOnly
      <4>3. \/ UNCHANGED repoVars \/ DeleteChunks(e)
            \/ UpdateStatus(e, "failed", 0) \/ UpdateStatus(e, "pending", hcount[h])
        BY <1>4, <2>0, <3>3, <3>4, <3>5
           DEF HandlerStep, EnqueueUpload, MarkFailed, RemoveChunks, Reenqueue, MarkPending
      <4>4. Live(e)'
        BY <1>1, <4>2, <4>3 DEF repoVars, UpdateStatus, DeleteChunks, RepoTypeOK, Live
      <4> QED BY <4>4
    <3> QED BY <3>1, <3>2, <3>5
  <2> QED BY <2>4, <2>5, <2>6
<1>5. ASSUME NEW w \in Worker, WorkerStep(w)
      PROVE  /\ UNCHANGED <<objects, hpc, hdoc>>
             /\ \A d \in Doc : Live(d) => Live(d)'
  <2>1. UNCHANGED <<objects, hpc, hdoc>>
    BY <1>1, <1>5, WorkerStepIsItsOwn DEF handlerVars
  <2>2. \A d \in Doc : Live(d) => Live(d)'
    BY <1>1, <1>5
       DEF WorkerStep, SpawnWorker, TakeJob, LeaveLoop, Load, Mark, Extract, Persist, Finish,
           Fail, repoVars, UpdateStatus, CreateChunks, RepoTypeOK, Live
  <2> QED BY <2>1, <2>2
<1>6. ASSUME NEW h \in Handler, NEW e \in Doc,
             BeginUpload(h, e) \/ BeginDelete(h, e) \/ BeginReindex(h, e)
      PROVE  /\ hpc[h] = "idle" /\ hpc'[h] # "delRow"
             /\ \A g \in Handler \ {h} : hpc'[g] = hpc[g] /\ hdoc'[g] = hdoc[g]
             /\ UNCHANGED <<repoVars, objects>>
  BY <1>1, <1>6 DEF BeginUpload, BeginDelete, BeginReindex, Begin, HandlerTypeOK
<1>7. ASSUME \/ \E h \in Handler : Disconnect(h)
             \/ Boot \/ Listen \/ StopQueue \/ ShutdownHTTP \/ Quiet \/ UNCHANGED vars
      PROVE  UNCHANGED <<repoVars, objects, hpc, hdoc>>
  BY <1>7 DEF Disconnect, Boot, Listen, StopQueue, ShutdownHTTP, Quiet, vars, handlerVars
<1>8. CASE \E w \in Worker : WorkerStep(w)
  BY <1>1, <1>3, <1>5, <1>8 DEF HandlerAt
<1>9. CASE \E h \in Handler, e \in Doc : BeginUpload(h, e) \/ BeginDelete(h, e) \/ BeginReindex(h, e)
  <2>1. PICK h \in Handler :
          /\ hpc[h] = "idle" /\ hpc'[h] # "delRow"
          /\ \A g \in Handler \ {h} : hpc'[g] = hpc[g] /\ hdoc'[g] = hdoc[g]
          /\ UNCHANGED <<repoVars, objects>>
    BY <1>6, <1>9
  <2> QED BY <1>3, <2>1 DEF HandlerAt, repoVars, Live
<1>10. CASE \/ \E h \in Handler : Disconnect(h)
            \/ Boot \/ Listen \/ StopQueue \/ ShutdownHTTP \/ Quiet \/ UNCHANGED vars
  BY <1>3, <1>7, <1>10 DEF HandlerAt, repoVars, Live
<1> QED BY <1>2, <1>4, <1>8, <1>9, <1>10 DEF Next, Lifecycle

LEMMA FileInit == Init => RemovedFirst /\ NoOrphanObjects
BY DEF Init, Store!StorageInit, RemovedFirst, NoOrphanObjects

\* No stored file is forgotten while the store works, clients stay and nobody
\* stops the process: Upload removes the file whose row it could not create,
\* Delete removes the file before the row, on every path a failing database takes.
THEOREM NoFileIsForgotten == Spec => []NoOrphanObjects
<1>1. PipelineInv /\ Undisturbed /\ (RemovedFirst /\ NoOrphanObjects) /\ [Next]_vars
        => (RemovedFirst /\ NoOrphanObjects)'
  BY FileStep
<1> QED BY <1>1, FileInit, PipelineInvariant, PipelineUndisturbed, PTL DEF Spec
=============================================================================
