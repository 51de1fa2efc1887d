---------------------- MODULE DocumentPipeline_proofs ----------------------
(***************************************************************************)
(* Proofs about the document pipeline for any documents, handlers and      *)
(* workers, any capacity and number of retries, and any set of mishaps.    *)
(***************************************************************************)
EXTENDS DocumentPipeline, TLAPS

-----------------------------------------------------------------------------
(***************************************************************************)
(* Types.  The queue's part depends on the queue's own steps only.         *)
(***************************************************************************)
QueueStep ==
  \/ Queue!Start \/ Queue!Stop \/ Queue!Kill
  \/ \E d \in Doc : Queue!Send(d)
  \/ \E w \in Worker : Queue!WorkerNext(w)

LEMMA QueueTypeStep ==
  ASSUME Queue!TypeOK, QueueStep \/ UNCHANGED queueVars
  PROVE  Queue!TypeOK'
<1> USE PipelineAssumption DEF Queue!TypeOK, Queue!WorkerState
<1>1. CASE UNCHANGED queueVars
  BY <1>1 DEF queueVars
<1>2. CASE Queue!Start
  BY <1>2 DEF Queue!Start
<1>3. CASE Queue!Stop
  BY <1>3 DEF Queue!Stop, Queue!workerVars
<1>4. CASE Queue!Kill
  <2>1. jobs' \in Seq(Doc) /\ Len(jobs') = 0
    BY <1>4 DEF Queue!Kill
  <2>2. Len(jobs') <= Capacity /\ 0 \in 0..MaxRetries
    BY <2>1
  <2>3. state' \in [Worker -> Queue!WorkerState] /\ \A w \in Worker : state'[w] # "busy"
    BY <1>4 DEF Queue!Kill
  <2>4. /\ held' \in [Worker -> Doc \cup {NoDoc}]
        /\ attempt' \in [Worker -> 0..MaxRetries]
        /\ \A w \in Worker : held'[w] = NoDoc /\ attempt'[w] = 0
    BY <1>4, <2>2 DEF Queue!Kill
  <2> QED BY <1>4, <2>1, <2>2, <2>3, <2>4 DEF Queue!Kill
<1>5. ASSUME NEW d \in Doc, Queue!Send(d)
      PROVE  Queue!TypeOK'
  BY <1>5 DEF Queue!Send, Queue!workerVars
<1>6. ASSUME NEW w \in Worker, Queue!WorkerNext(w)
      PROVE  Queue!TypeOK'
  <2>1. CASE Queue!Spawn(w)
    BY <2>1 DEF Queue!Spawn
  <2>2. CASE Queue!Take(w)
    BY <2>2 DEF Queue!Take
  <2>3. CASE Queue!Succeed(w)
    BY <2>3 DEF Queue!Succeed, Queue!Release
  <2>4. CASE Queue!Retry(w)
    BY <2>4 DEF Queue!Retry
  <2>5. CASE Queue!GiveUp(w)
    BY <2>5 DEF Queue!GiveUp, Queue!Release
  <2>6. CASE Queue!Exit(w)
    BY <2>6 DEF Queue!Exit
  <2> QED BY <1>6, <2>1, <2>2, <2>3, <2>4, <2>5, <2>6 DEF Queue!WorkerNext
<1> QED BY <1>1, <1>2, <1>3, <1>4, <1>5, <1>6 DEF QueueStep

\* Every step of the pipeline is a step of the queue or leaves it alone.
LEMMA StepIsQueueStep ==
  ASSUME TypeOK, [Next]_vars
  PROVE  QueueStep \/ UNCHANGED queueVars
<1>1. ASSUME NEW w \in Worker, WorkerStep(w)
      PROVE  QueueStep \/ UNCHANGED queueVars
  <2>1. Errored(w) => Queue!WorkerNext(w)
    BY DEF Errored, Queue!WorkerNext
  <2>2. Done(w) => Queue!WorkerNext(w)
    BY DEF Done, Queue!WorkerNext
  <2>3. Queue!WorkerNext(w) \/ UNCHANGED queueVars
    BY <1>1, <2>1, <2>2
       DEF WorkerStep, SpawnWorker, TakeJob, LeaveLoop, Load, Mark, Extract,
           Persist, Finish, Fail, Queue!WorkerNext
  <2> QED BY <2>3 DEF QueueStep
<1>2. ASSUME NEW h \in Handler, HandlerStep(h) \/ Disconnect(h)
      PROVE  QueueStep \/ UNCHANGED queueVars
  <2>1. hpc[h] # "idle" => hdoc[h] \in Doc
    BY DEF TypeOK
  <2> QED BY <1>2, <2>1
       DEF HandlerStep, Disconnect, SaveFile, CreateRow, Unsave, EnqueueUpload,
           MarkFailed, RemoveChunks, RemoveObject, RemoveRow, Reenqueue,
           MarkPending, QueueStep
<1>3. ASSUME NEW h \in Handler, NEW d \in Doc,
             BeginUpload(h, d) \/ BeginDelete(h, d) \/ BeginReindex(h, d)
      PROVE  UNCHANGED queueVars
  BY <1>3 DEF BeginUpload, BeginDelete, BeginReindex, Begin
<1>4. CASE Lifecycle
  BY <1>4 DEF Lifecycle, Boot, Listen, StopQueue, ExitMain, ProcessEnds, QueueStep
<1>5. CASE ShutdownHTTP \/ Crash \/ Quiet \/ UNCHANGED vars
  BY <1>5 DEF ShutdownHTTP, Crash, ProcessEnds, Quiet, vars, QueueStep
<1> QED BY <1>1, <1>2, <1>3, <1>4, <1>5 DEF Next

\* TypeOK taken apart: the tables, the handlers, the workers, and the rest.
HandlerTypeOK ==
  /\ hpc \in [Handler -> HandlerPC]
  /\ hdoc \in [Handler -> Doc \cup {NoDoc}]
  /\ \A h \in Handler : hpc[h] = "idle" <=> hdoc[h] = NoDoc
  /\ hcount \in [Handler -> Nat]
  /\ gone \in [Handler -> BOOLEAN]

ProcessTypeOK ==
  /\ wpc \in [Worker -> WorkerPC]
  /\ \A w \in Worker : wpc[w] = "wait" <=> state[w] # "busy"
  /\ wcount \in [Worker -> Nat]

OtherTypeOK ==
  /\ objects \subseteq Doc
  /\ http \in {"off", "starting", "serving", "closing"}
  /\ withdrawn \subseteq Doc
  /\ reindexes \in [Doc -> 0..MaxReindex]

LEMMA TypeParts ==
  TypeOK <=> /\ RepoTypeOK /\ HandlerTypeOK /\ ProcessTypeOK /\ OtherTypeOK /\ Queue!TypeOK
             /\ faults \in FaultModels
BY DEF TypeOK, HandlerTypeOK, ProcessTypeOK, OtherTypeOK

\* The operations on the tables keep them well-typed.
LEMMA RepoKeepsTypes ==
  ASSUME RepoTypeOK, NEW d \in Doc, NEW n \in Nat, NEW s \in DocStatus,
         \/ Create(d) \/ UpdateStatus(d, s, n) \/ CreateChunks(d)
         \/ DeleteChunks(d) \/ Delete(d) \/ UNCHANGED repoVars
  PROVE  RepoTypeOK'
<1> USE RepoAssumption DEF RepoTypeOK, DocStatus
<1>1. CASE Create(d)
  BY <1>1 DEF Create
<1>2. CASE UpdateStatus(d, s, n)
  BY <1>2 DEF UpdateStatus, Live
<1>3. CASE CreateChunks(d)
  BY <1>3 DEF CreateChunks
<1>4. CASE DeleteChunks(d)
  BY <1>4 DEF DeleteChunks
<1>5. CASE Delete(d)
  BY <1>5 DEF Delete
<1>6. CASE UNCHANGED repoVars
  BY <1>6 DEF repoVars
<1> QED BY <1>1, <1>2, <1>3, <1>4, <1>5, <1>6

\* So do the moves of a worker through the steps of Process.
LEMMA ProcessMoves ==
  ASSUME TypeOK, NEW w \in Worker
  PROVE  /\ wpc[w] # "wait" => held[w] \in Doc
         /\ \A pc \in WorkerPC \ {"wait"} :
              wpc[w] # "wait" /\ Step(w, pc) /\ UNCHANGED queueVars => ProcessTypeOK'
         /\ Errored(w) => ProcessTypeOK'
         /\ Done(w) => ProcessTypeOK'
<1> USE DEF ProcessTypeOK, Queue!TypeOK, WorkerPC
<1>1. ProcessTypeOK /\ Queue!TypeOK
  BY TypeParts
<1>2. wpc[w] # "wait" => held[w] \in Doc
  BY <1>1
<1>3. ASSUME NEW pc \in WorkerPC \ {"wait"},
             wpc[w] # "wait", Step(w, pc), UNCHANGED queueVars
      PROVE  ProcessTypeOK'
  BY <1>1, <1>3 DEF Step, queueVars
<1>4. ASSUME Errored(w)
      PROVE  ProcessTypeOK'
  BY <1>1, <1>4 DEF Errored, Queue!Retry, Queue!GiveUp, Queue!Release
<1>5. ASSUME Done(w)
      PROVE  ProcessTypeOK'
  BY <1>1, <1>5 DEF Done, Queue!Succeed, Queue!Release
<1> QED BY <1>2, <1>3, <1>4, <1>5

LEMMA WorkerKeepsTypes ==
  ASSUME TypeOK, NEW w \in Worker, WorkerStep(w)
  PROVE  RepoTypeOK' /\ HandlerTypeOK' /\ ProcessTypeOK' /\ OtherTypeOK'
<1>1. RepoTypeOK /\ HandlerTypeOK /\ ProcessTypeOK /\ OtherTypeOK /\ Queue!TypeOK
  BY TypeParts
<1>2. UNCHANGED <<objects, http, handlerVars, historyVars>>
  BY DEF WorkerStep, SpawnWorker, TakeJob, LeaveLoop, Load, Mark, Extract, Persist, Finish, Fail
<1>3. HandlerTypeOK' /\ OtherTypeOK'
  BY <1>1, <1>2 DEF HandlerTypeOK, OtherTypeOK, handlerVars, historyVars
<1>4. wcount[w] \in Nat /\ (held[w] \in Doc => Pieces[held[w]] \in Nat)
  BY <1>1, RepoAssumption DEF ProcessTypeOK
<1>5. CASE SpawnWorker(w)
  BY <1>1, <1>3, <1>5 DEF SpawnWorker, Queue!Spawn, ProcessTypeOK, Queue!TypeOK, processVars,
     RepoTypeOK, repoVars
<1>6. CASE TakeJob(w)
  BY <1>1, <1>3, <1>6 DEF TakeJob, Queue!Take, Step, ProcessTypeOK, Queue!TypeOK, WorkerPC,
     RepoTypeOK, repoVars
<1>7. CASE LeaveLoop(w)
  BY <1>1, <1>3, <1>7 DEF LeaveLoop, Queue!Exit, ProcessTypeOK, Queue!TypeOK, processVars,
     RepoTypeOK, repoVars
<1>8. CASE Load(w)
  <2>1. CASE Errored(w)
    BY <1>1, <1>3, <1>8, <2>1, ProcessMoves DEF Load, RepoTypeOK, repoVars
  <2>2. CASE ~Errored(w)
    <3>1. held[w] \in Doc
      BY <1>8, ProcessMoves DEF Load
    <3>2. count[held[w]] \in Nat
      BY <1>1, <3>1 DEF RepoTypeOK
    <3> QED BY <1>1, <1>3, <1>8, <2>2, <3>2
            DEF Load, ProcessTypeOK, WorkerPC, queueVars, RepoTypeOK, repoVars
  <2> QED BY <2>1, <2>2
<1>9. CASE Mark(w)
  <2>1. held[w] \in Doc /\ "indexing" \in DocStatus /\ "extract" \in WorkerPC \ {"wait"}
    BY <1>9, ProcessMoves DEF Mark, DocStatus, WorkerPC
  <2>2. RepoTypeOK'
    BY <1>1, <1>4, <1>9, <2>1, RepoKeepsTypes DEF Mark
  <2>3. ProcessTypeOK'
    BY <1>9, <2>1, ProcessMoves DEF Mark
  <2> QED BY <1>3, <2>2, <2>3
<1>10. CASE Extract(w)
  <2>1. PICK pc \in {"finish", "persist", "fail"} : Step(w, pc)
    BY <1>10 DEF Extract
  <2>2. wpc[w] # "wait" /\ pc \in WorkerPC \ {"wait"} /\ UNCHANGED <<repoVars, queueVars>>
    BY <1>10, <2>1 DEF Extract, WorkerPC
  <2> QED BY <1>1, <1>3, <2>1, <2>2, ProcessMoves DEF RepoTypeOK, repoVars
<1>11. CASE Persist(w)
  <2>1. held[w] \in Doc /\ {"finish", "fail"} \subseteq WorkerPC \ {"wait"}
    BY <1>11, ProcessMoves DEF Persist, WorkerPC
  <2>2. RepoTypeOK'
    BY <1>1, <1>11, <2>1, RepoKeepsTypes DEF Persist, DocStatus
  <2>3. ProcessTypeOK'
    BY <1>11, <2>1, ProcessMoves DEF Persist
  <2> QED BY <1>3, <2>2, <2>3
<1>12. CASE Finish(w)
  <2>1. held[w] \in Doc /\ "indexed" \in DocStatus
    BY <1>12, ProcessMoves DEF Finish, DocStatus
  <2>2. RepoTypeOK'
    BY <1>1, <1>4, <1>12, <2>1, RepoKeepsTypes DEF Finish
  <2>3. ProcessTypeOK'
    BY <1>12, ProcessMoves DEF Finish
  <2> QED BY <1>3, <2>2, <2>3
<1>13. CASE Fail(w)
  <2>1. held[w] \in Doc /\ "failed" \in DocStatus
    BY <1>13, ProcessMoves DEF Fail, DocStatus
  <2>2. RepoTypeOK'
    BY <1>1, <1>13, <2>1, RepoKeepsTypes DEF Fail
  <2>3. ProcessTypeOK'
    BY <1>13, ProcessMoves DEF Fail
  <2> QED BY <1>3, <2>2, <2>3
<1> QED BY <1>5, <1>6, <1>7, <1>8, <1>9, <1>10, <1>11, <1>12, <1>13 DEF WorkerStep

\* The moves of a handler through the steps of its request.
LEMMA HandlerMoves ==
  ASSUME TypeOK, NEW h \in Handler
  PROVE  /\ hpc[h] # "idle" => hdoc[h] \in Doc
         /\ \A pc \in HandlerPC \ {"idle"} : hpc[h] # "idle" /\ Goto(h, pc) => HandlerTypeOK'
         /\ Reply(h) => HandlerTypeOK'
         /\ \A d \in Doc, n \in Nat : \A pc \in HandlerPC \ {"idle"} :
              Begin(h, d, pc, n) => HandlerTypeOK'
<1> USE DEF HandlerTypeOK, HandlerPC, UploadPC, DeletePC, RetryPC
<1>1. HandlerTypeOK
  BY TypeParts
<1>2. ASSUME NEW pc \in HandlerPC \ {"idle"}, hpc[h] # "idle", Goto(h, pc)
      PROVE  HandlerTypeOK'
  BY <1>1, <1>2 DEF Goto
<1>3. ASSUME Reply(h)
      PROVE  HandlerTypeOK'
  BY <1>1, <1>3 DEF Reply
<1>4. ASSUME NEW d \in Doc, NEW n \in Nat, NEW pc \in HandlerPC \ {"idle"}, Begin(h, d, pc, n)
      PROVE  HandlerTypeOK'
  BY <1>1, <1>4, PipelineAssumption DEF Begin
<1> QED BY <1>1, <1>2, <1>3, <1>4

LEMMA HandlerKeepsTypes ==
  ASSUME TypeOK, NEW h \in Handler, HandlerStep(h)
  PROVE  RepoTypeOK' /\ HandlerTypeOK' /\ OtherTypeOK'
<1>1. RepoTypeOK /\ HandlerTypeOK /\ ProcessTypeOK /\ OtherTypeOK /\ Queue!TypeOK
  BY TypeParts
<1>2. hpc[h] # "idle"
  BY DEF HandlerStep, SaveFile, CreateRow, Unsave, EnqueueUpload, MarkFailed,
         RemoveChunks, RemoveObject, RemoveRow, Reenqueue, MarkPending
<1>3. hdoc[h] \in Doc /\ hcount[h] \in Nat
  BY <1>1, <1>2, HandlerMoves DEF HandlerTypeOK
<1>4. {"create", "unsave", "enqueue", "markFailed", "delObject", "delRow", "rePending"}
        \subseteq HandlerPC \ {"idle"}
  BY DEF HandlerPC, UploadPC, DeletePC, RetryPC
<1>5. HandlerTypeOK'
  BY <1>2, <1>4, HandlerMoves
     DEF HandlerStep, SaveFile, CreateRow, Unsave, EnqueueUpload, MarkFailed,
         RemoveChunks, RemoveObject, RemoveRow, Reenqueue, MarkPending
<1>6. RepoTypeOK'
  <2>1. \/ UNCHANGED repoVars \/ Create(hdoc[h]) \/ DeleteChunks(hdoc[h]) \/ Delete(hdoc[h])
        \/ UpdateStatus(hdoc[h], "failed", 0) \/ UpdateStatus(hdoc[h], "pending", hcount[h])
    BY DEF HandlerStep, SaveFile, CreateRow, Unsave, EnqueueUpload, MarkFailed,
           RemoveChunks, RemoveObject, RemoveRow, Reenqueue, MarkPending
  <2>2. {"failed", "pending"} \subseteq DocStatus /\ 0 \in Nat
    BY DEF DocStatus
  <2> QED BY <1>1, <1>3, <2>1, <2>2, RepoKeepsTypes
<1>7. OtherTypeOK'
  <2>1. objects' \subseteq objects \cup {hdoc[h]}
    BY DEF HandlerStep, SaveFile, CreateRow, Unsave, EnqueueUpload, MarkFailed,
           RemoveChunks, RemoveObject, RemoveRow, Reenqueue, MarkPending,
           Store!Save, Store!SaveFails, Store!DeleteObject
  <2>2. withdrawn' \subseteq withdrawn \cup {hdoc[h]} /\ UNCHANGED <<http, reindexes>>
    BY DEF HandlerStep, SaveFile, CreateRow, Unsave, EnqueueUpload, MarkFailed,
           RemoveChunks, RemoveObject, RemoveRow, Reenqueue, MarkPending, historyVars
  <2> QED BY <1>1, <1>3, <2>1, <2>2 DEF OtherTypeOK
<1> QED BY <1>5, <1>6, <1>7

LEMMA BeginKeepsTypes ==
  ASSUME TypeOK, NEW h \in Handler, NEW d \in Doc,
         BeginUpload(h, d) \/ BeginDelete(h, d) \/ BeginReindex(h, d)
  PROVE  RepoTypeOK' /\ HandlerTypeOK' /\ ProcessTypeOK' /\ OtherTypeOK'
<1>1. RepoTypeOK /\ HandlerTypeOK /\ ProcessTypeOK /\ OtherTypeOK /\ Queue!TypeOK
  BY TypeParts
<1>2. {"save", "delChunks", "reEnqueue"} \subseteq HandlerPC \ {"idle"} /\ 0 \in Nat /\ count[d] \in Nat
  BY <1>1 DEF HandlerPC, UploadPC, DeletePC, RetryPC, RepoTypeOK
<1>3. HandlerTypeOK'
  BY <1>2, HandlerMoves DEF BeginUpload, BeginDelete, BeginReindex
<1>4. UNCHANGED <<repoVars, objects, queueVars, http, processVars, withdrawn>>
  BY DEF BeginUpload, BeginDelete, BeginReindex, Begin, historyVars
<1>5. RepoTypeOK' /\ ProcessTypeOK'
  BY <1>1, <1>4 DEF RepoTypeOK, repoVars, ProcessTypeOK, processVars, queueVars
<1>6. reindexes' \in [Doc -> 0..MaxReindex]
  BY <1>1, PipelineAssumption DEF BeginUpload, BeginDelete, BeginReindex, historyVars, OtherTypeOK
<1> QED BY <1>1, <1>3, <1>4, <1>5, <1>6 DEF OtherTypeOK

LEMMA ServerKeepsTypes ==
  ASSUME TypeOK,
         \/ Lifecycle \/ ShutdownHTTP \/ Crash \/ Quiet \/ UNCHANGED vars
         \/ \E h \in Handler : Disconnect(h)
  PROVE  RepoTypeOK' /\ HandlerTypeOK' /\ ProcessTypeOK' /\ OtherTypeOK'
<1>1. RepoTypeOK /\ HandlerTypeOK /\ ProcessTypeOK /\ OtherTypeOK /\ Queue!TypeOK
  BY TypeParts
<1>2. UNCHANGED <<repoVars, objects, historyVars>>
  BY DEF Lifecycle, Boot, Listen, StopQueue, ExitMain, ProcessEnds, ShutdownHTTP, Crash, Quiet,
         vars, Disconnect
<1>3. RepoTypeOK' /\ (http' \in {"off", "starting", "serving", "closing"} => OtherTypeOK')
  BY <1>1, <1>2 DEF RepoTypeOK, repoVars, OtherTypeOK, historyVars
<1>4. CASE ProcessEnds
  <2>1. HandlerTypeOK'
    BY <1>4 DEF ProcessEnds, HandlerTypeOK, HandlerPC
  <2>2. ProcessTypeOK'
    BY <1>4 DEF ProcessEnds, Queue!Kill, ProcessTypeOK, WorkerPC
  <2> QED BY <1>3, <1>4, <2>1, <2>2 DEF ProcessEnds
<1>5. CASE Boot
  BY <1>1, <1>3, <1>5
     DEF Boot, Queue!Start, HandlerTypeOK, ProcessTypeOK, handlerVars, processVars
<1>6. CASE StopQueue
  BY <1>1, <1>3, <1>6
     DEF StopQueue, Queue!Stop, Queue!workerVars, HandlerTypeOK, ProcessTypeOK, OtherTypeOK,
         handlerVars, processVars
<1>7. CASE Listen \/ ShutdownHTTP \/ Quiet \/ UNCHANGED vars
  <2>1. UNCHANGED <<queueVars, handlerVars, processVars>>
    BY <1>7 DEF Listen, ShutdownHTTP, Quiet, vars
  <2>2. http' \in {"off", "starting", "serving", "closing"}
    BY <1>1, <1>7 DEF Listen, ShutdownHTTP, Quiet, vars, OtherTypeOK
  <2> QED BY <1>1, <1>3, <2>1, <2>2
          DEF HandlerTypeOK, ProcessTypeOK, queueVars, handlerVars, processVars
<1>8. ASSUME NEW h \in Handler, Disconnect(h)
      PROVE  HandlerTypeOK' /\ ProcessTypeOK' /\ OtherTypeOK'
  BY <1>1, <1>3, <1>8
     DEF Disconnect, HandlerTypeOK, ProcessTypeOK, OtherTypeOK, queueVars, processVars
<1> QED BY <1>3, <1>4, <1>5, <1>6, <1>7, <1>8 DEF Lifecycle, ExitMain, Crash

LEMMA TypeStep == TypeOK /\ [Next]_vars => TypeOK'
<1> SUFFICES ASSUME TypeOK, [Next]_vars
             PROVE  TypeOK'
  OBVIOUS
<1>1. Queue!TypeOK'
  BY TypeParts, StepIsQueueStep, QueueTypeStep
<1>5. faults' \in FaultModels
  BY DEF Next, vars, TypeOK
<1>2. ASSUME NEW h \in Handler, HandlerStep(h)
      PROVE  TypeOK'
  <2>1. RepoTypeOK' /\ HandlerTypeOK' /\ OtherTypeOK'
    BY <1>2, HandlerKeepsTypes
  <2>2. UNCHANGED <<processVars, state>>
    BY <1>2 DEF HandlerStep, SaveFile, CreateRow, Unsave, EnqueueUpload, MarkFailed,
                RemoveChunks, RemoveObject, RemoveRow, Reenqueue, MarkPending,
                Queue!Send, Queue!workerVars, queueVars
  <2>3. ProcessTypeOK'
    BY <2>2, TypeParts DEF ProcessTypeOK, processVars
  <2> QED BY <1>1, <1>5, <2>1, <2>3 DEF TypeOK, HandlerTypeOK, ProcessTypeOK, OtherTypeOK
<1>3. [Next]_vars /\ ~(\E h \in Handler : HandlerStep(h))
        => RepoTypeOK' /\ HandlerTypeOK' /\ ProcessTypeOK' /\ OtherTypeOK'
  BY WorkerKeepsTypes, BeginKeepsTypes, ServerKeepsTypes DEF Next
<1>4. RepoTypeOK' /\ HandlerTypeOK' /\ ProcessTypeOK' /\ OtherTypeOK' => TypeOK'
  BY <1>1, <1>5 DEF TypeOK, HandlerTypeOK, ProcessTypeOK, OtherTypeOK
<1> QED BY <1>2, <1>3, <1>4

LEMMA TypeInit == Init => TypeOK
<1> SUFFICES ASSUME Init
             PROVE  TypeOK
  OBVIOUS
<1>1. RepoTypeOK
  BY DEF Init, RepoInit, RepoTypeOK
<1>2. HandlerTypeOK
  BY DEF Init, HandlerTypeOK, HandlerPC
<1>3. ProcessTypeOK
  BY DEF Init, Queue!Init, ProcessTypeOK, WorkerPC
<1>4. OtherTypeOK
  BY PipelineAssumption DEF Init, Store!StorageInit, OtherTypeOK
<1>5. Queue!TypeOK
  <2>1. jobs \in Seq(Doc) /\ Len(jobs) = 0
    BY DEF Init, Queue!Init
  <2>2. Len(jobs) <= Capacity /\ 0 \in 0..MaxRetries
    BY <2>1, PipelineAssumption
  <2>3. state \in [Worker -> Queue!WorkerState] /\ \A w \in Worker : state[w] # "busy"
    BY DEF Init, Queue!Init, Queue!WorkerState
  <2>4. /\ held \in [Worker -> Doc \cup {NoDoc}]
        /\ attempt \in [Worker -> 0..MaxRetries]
        /\ \A w \in Worker : held[w] = NoDoc /\ attempt[w] = 0
    BY <2>2 DEF Init, Queue!Init
  <2> QED BY <2>1, <2>2, <2>3, <2>4 DEF Init, Queue!Init, Queue!TypeOK
<1>6. faults \in FaultModels
  BY DEF Init
<1> QED BY <1>1, <1>2, <1>3, <1>4, <1>5, <1>6, TypeParts

\* The state of the pipeline stays within its types, for any instance.
THEOREM PipelineTypeCorrect == Spec => []TypeOK
BY TypeInit, TypeStep, PTL DEF Spec

\* Handlers, workers and the life of the process use the queue as memory.go
\* offers it: projected on the queue, a behaviour of the pipeline is one of
\* MemoryQueue that may also die with its process and be constructed anew.
THEOREM PipelineRunsQueue == Spec => Queue!Init /\ [][QueueStep]_queueVars
<1>1. Init => Queue!Init
  BY DEF Init
<1>2. TypeOK /\ [Next]_vars => [QueueStep]_queueVars
  BY StepIsQueueStep
<1> QED BY <1>1, <1>2, PipelineTypeCorrect, PTL DEF Spec

\* So no worker of the pipeline leaves an accepted document in the buffer,
\* whatever Process does and however often the process was restarted.
THEOREM PipelineLeavesNothingBehind == Spec => []Queue!NothingLeftBehind
<1>1. Queue!Init => Queue!NothingLeftBehind
  BY DEF Queue!Init, Queue!NothingLeftBehind
<1>2. ASSUME TypeOK, Queue!NothingLeftBehind, [QueueStep]_queueVars
      PROVE  Queue!NothingLeftBehind'
  <2> USE DEF Queue!NothingLeftBehind
  <2> USE <1>2
  <2>1. state \in [Worker -> Queue!WorkerState] /\ jobs \in Seq(Doc)
    BY DEF TypeOK, Queue!TypeOK
  <2>2. CASE UNCHANGED queueVars
    BY <2>2 DEF queueVars
  <2>3. CASE Queue!Start \/ Queue!Stop \/ Queue!Kill
    BY <2>1, <2>3 DEF Queue!Start, Queue!Stop, Queue!Kill, Queue!workerVars
  <2>4. CASE \E d \in Doc : Queue!Send(d)
    BY <2>1, <2>4 DEF Queue!Send, Queue!workerVars
  <2>5. ASSUME NEW w \in Worker, Queue!WorkerNext(w)
        PROVE  Queue!NothingLeftBehind'
    BY <2>1, <2>5 DEF Queue!WorkerNext, Queue!Spawn, Queue!Take, Queue!Succeed,
                      Queue!Retry, Queue!GiveUp, Queue!Release, Queue!Exit
  <2> QED BY <2>2, <2>3, <2>4, <2>5 DEF QueueStep
<1> QED BY <1>1, <1>2, PipelineRunsQueue, PipelineTypeCorrect, PTL

-----------------------------------------------------------------------------
(***************************************************************************)
(* The inductive invariant behind the promises of the library.  A promise  *)
(* about a row is kept because of what the goroutines that will write it   *)
(* carry: which documents they may be about, and how their snapshots of a  *)
(* count relate to the chunks table as long as nobody withdrew the         *)
(* document.                                                               *)
(***************************************************************************)
UploadOnly == {"save", "create", "unsave"}

\* Before its row is created, a document belongs to one upload alone.
UploadsOwn ==
  \A h \in Handler : hpc[h] \in UploadOnly =>
    /\ status[hdoc[h]] = "none"
    /\ hpc[h] = "create" => hdoc[h] \in objects
    /\ \A g \in Handler : g # h => hdoc[g] # hdoc[h]

\* Every other request, every job and every attempt is about a document that
\* has a row, and a Delete past its first step has withdrawn the document.
RequestsHaveRow ==
  \A h \in Handler :
    /\ hpc[h] \notin UploadOnly \cup {"idle"} => status[hdoc[h]] # "none"
    /\ hpc[h] \in {"delObject", "delRow"} => hdoc[h] \in withdrawn

JobsHaveRow ==
  /\ \A i \in DOMAIN jobs : status[jobs[i]] # "none"
  /\ \A w \in Worker : wpc[w] # "wait" => status[held[w]] # "none"

\* Counts read earlier and about to be written are still backed.
SnapshotsBacked ==
  /\ \A h \in Handler : hpc[h] \in RetryPC /\ hdoc[h] \notin withdrawn
                          => hcount[h] <= chunks[hdoc[h]]
  /\ \A w \in Worker : wpc[w] = "mark" /\ held[w] \notin withdrawn
                         => wcount[w] <= chunks[held[w]]
  /\ \A w \in Worker : wpc[w] = "finish" /\ held[w] \notin withdrawn
                         => Pieces[held[w]] <= chunks[held[w]]

NoRowNoClaim == \A d \in Doc : status[d] = "none" => count[d] = 0 /\ d \notin withdrawn

Promises == ChunkCountBacked /\ IndexedIsSearchable /\ SourceFileKept

Carried == UploadsOwn /\ RequestsHaveRow /\ JobsHaveRow /\ SnapshotsBacked

PipelineInv == TypeOK /\ Carried /\ NoRowNoClaim /\ Promises

(***************************************************************************)
(* What any step of the pipeline may do to what users see, as one step of  *)
(* the tables, the store or the history, with what its author guarantees.  *)
(***************************************************************************)
Truthful(d, s, n) ==
  Live(d) /\ d \notin withdrawn
    => n <= chunks[d] /\ (s = "indexed" => n = Pieces[d])

StoreStep(d) ==
  /\ UNCHANGED <<repoVars, withdrawn>>
  /\ \/ status[d] = "none" /\ objects' = objects \cup {d}
     \/ (status[d] = "none" \/ d \in withdrawn) /\ objects' = objects \ {d}

RowStep(d) ==
  /\ UNCHANGED <<objects, withdrawn>>
  /\ \/ Create(d) /\ status[d] = "none" /\ d \in objects
     \/ \E s \in DocStatus, n \in Nat : UpdateStatus(d, s, n) /\ Truthful(d, s, n)
     \/ CreateChunks(d) /\ status[d] # "none"
     \/ Delete(d) /\ d \in withdrawn

WithdrawStep(d) ==
  /\ UNCHANGED objects
  /\ withdrawn' = withdrawn \cup {d}
  /\ DeleteChunks(d) /\ status[d] # "none"

DataStep ==
  \/ UNCHANGED <<repoVars, objects, withdrawn>>
  \/ \E d \in Doc : StoreStep(d) \/ RowStep(d) \/ WithdrawStep(d)

LEMMA HandlerDataStep ==
  ASSUME PipelineInv, NEW h \in Handler, HandlerStep(h)
  PROVE  DataStep
<1> DEFINE d == hdoc[h]
<1> USE DEF PipelineInv, Carried, historyVars
<1>1. hpc[h] # "idle" /\ d \in Doc
  BY HandlerMoves
     DEF HandlerStep, SaveFile, CreateRow, Unsave, EnqueueUpload, MarkFailed,
         RemoveChunks, RemoveObject, RemoveRow, Reenqueue, MarkPending
<1>2. CASE SaveFile(h)
  <2>1. status[d] = "none" /\ UNCHANGED <<repoVars, withdrawn>>
    BY <1>2 DEF SaveFile, UploadsOwn, UploadOnly
  <2>2. objects' = objects \/ objects' = objects \cup {d}
    BY <1>2 DEF SaveFile, Store!Save, Store!SaveFails
  <2> QED BY <1>1, <2>1, <2>2 DEF DataStep, StoreStep
<1>3. CASE CreateRow(h)
  <2>1. status[d] = "none" /\ d \in objects /\ UNCHANGED <<objects, withdrawn>>
    BY <1>3 DEF CreateRow, UploadsOwn, UploadOnly
  <2>2. Create(d) \/ UNCHANGED repoVars
    BY <1>3 DEF CreateRow
  <2> QED BY <1>1, <2>1, <2>2 DEF DataStep, RowStep
<1>4. CASE Unsave(h)
  <2>1. status[d] = "none" /\ UNCHANGED <<repoVars, withdrawn>>
    BY <1>4 DEF Unsave, UploadsOwn, UploadOnly
  <2>2. objects' = objects \/ objects' = objects \ {d}
    BY <1>4 DEF Unsave, Store!DeleteObject
  <2> QED BY <1>1, <2>1, <2>2 DEF DataStep, StoreStep
<1>5. CASE EnqueueUpload(h) \/ Reenqueue(h)
  BY <1>5 DEF EnqueueUpload, Reenqueue, DataStep
<1>6. CASE MarkFailed(h)
  <2>1. UpdateStatus(d, "failed", 0) \/ UNCHANGED repoVars
    BY <1>6 DEF MarkFailed
  <2>2. chunks[d] \in Nat
    BY <1>1 DEF TypeOK, RepoTypeOK
  <2>3. Truthful(d, "failed", 0) /\ "failed" \in DocStatus
    BY <2>2 DEF Truthful, DocStatus
  <2>4. UNCHANGED <<objects, withdrawn>>
    BY <1>6 DEF MarkFailed
  <2> QED BY <1>1, <2>1, <2>3, <2>4 DEF DataStep, RowStep
<1>7. CASE RemoveChunks(h)
  <2>1. status[d] # "none" /\ UNCHANGED objects
    BY <1>7 DEF RemoveChunks, RequestsHaveRow, UploadOnly
  <2>2. \/ DeleteChunks(d) /\ withdrawn' = withdrawn \cup {d}
        \/ UNCHANGED <<repoVars, withdrawn>>
    BY <1>7 DEF RemoveChunks
  <2> QED BY <1>1, <2>1, <2>2 DEF DataStep, WithdrawStep
<1>8. CASE RemoveObject(h)
  <2>1. d \in withdrawn /\ UNCHANGED <<repoVars, withdrawn>>
    BY <1>8 DEF RemoveObject, RequestsHaveRow
  <2>2. objects' = objects \/ objects' = objects \ {d}
    BY <1>8 DEF RemoveObject, Store!DeleteObject
  <2> QED BY <1>1, <2>1, <2>2 DEF DataStep, StoreStep
<1>9. CASE RemoveRow(h)
  <2>1. d \in withdrawn /\ UNCHANGED <<objects, withdrawn>>
    BY <1>9 DEF RemoveRow, RequestsHaveRow
  <2>2. Delete(d) \/ UNCHANGED repoVars
    BY <1>9 DEF RemoveRow
  <2> QED BY <1>1, <2>1, <2>2 DEF DataStep, RowStep
<1>10. CASE MarkPending(h)
  <2>1. UpdateStatus(d, "pending", hcount[h]) \/ UNCHANGED repoVars
    BY <1>10 DEF MarkPending
  <2>2. hcount[h] \in Nat /\ "pending" \in DocStatus
    BY DEF TypeOK, DocStatus
  <2>3. Truthful(d, "pending", hcount[h])
    BY <1>10 DEF MarkPending, SnapshotsBacked, RetryPC, Truthful
  <2>4. UNCHANGED <<objects, withdrawn>>
    BY <1>10 DEF MarkPending
  <2> QED BY <1>1, <2>1, <2>2, <2>3, <2>4 DEF DataStep, RowStep
<1> QED BY <1>2, <1>3, <1>4, <1>5, <1>6, <1>7, <1>8, <1>9, <1>10 DEF HandlerStep

LEMMA WorkerDataStep ==
  ASSUME PipelineInv, NEW w \in Worker, WorkerStep(w)
  PROVE  DataStep
<1> DEFINE d == held[w]
<1> USE DEF PipelineInv, Carried, historyVars
<1>1. wpc[w] # "wait" => d \in Doc /\ status[d] # "none" /\ chunks[d] \in Nat /\ Pieces[d] \in Nat
  BY ProcessMoves, RepoAssumption DEF JobsHaveRow, TypeOK, RepoTypeOK
<1>2. UNCHANGED <<objects, withdrawn>>
  BY DEF WorkerStep, SpawnWorker, TakeJob, LeaveLoop, Load, Mark, Extract, Persist, Finish, Fail
<1>3. CASE SpawnWorker(w) \/ TakeJob(w) \/ LeaveLoop(w) \/ Load(w) \/ Extract(w)
  BY <1>2, <1>3 DEF SpawnWorker, TakeJob, LeaveLoop, Load, Extract, DataStep
<1>4. CASE Mark(w)
  <2>1. UpdateStatus(d, "indexing", wcount[w]) \/ UNCHANGED repoVars
    BY <1>4 DEF Mark
  <2>2. wcount[w] \in Nat /\ "indexing" \in DocStatus /\ Truthful(d, "indexing", wcount[w])
    BY <1>4 DEF Mark, TypeOK, DocStatus, SnapshotsBacked, Truthful
  <2> QED BY <1>1, <1>2, <1>4, <2>1, <2>2 DEF Mark, DataStep, RowStep
<1>5. CASE Persist(w)
  <2>1. CreateChunks(d) \/ UNCHANGED repoVars
    BY <1>5 DEF Persist
  <2> QED BY <1>1, <1>2, <1>5, <2>1 DEF Persist, DataStep, RowStep
<1>6. CASE Finish(w)
  <2>1. UpdateStatus(d, "indexed", Pieces[d]) \/ UNCHANGED repoVars
    BY <1>6 DEF Finish
  <2>2. "indexed" \in DocStatus /\ Truthful(d, "indexed", Pieces[d])
    BY <1>6 DEF Finish, DocStatus, SnapshotsBacked, Truthful
  <2> QED BY <1>1, <1>2, <1>6, <2>1, <2>2 DEF Finish, DataStep, RowStep
<1>7. CASE Fail(w)
  <2>1. UpdateStatus(d, "failed", 0) \/ UNCHANGED repoVars
    BY <1>7 DEF Fail
  <2>2. "failed" \in DocStatus /\ Truthful(d, "failed", 0)
    BY <1>1, <1>7 DEF Fail, DocStatus, Truthful
  <2> QED BY <1>1, <1>2, <1>7, <2>1, <2>2 DEF Fail, DataStep, RowStep
<1> QED BY <1>3, <1>4, <1>5, <1>6, <1>7 DEF WorkerStep

LEMMA EveryStepIsADataStep ==
  ASSUME PipelineInv, [Next]_vars
  PROVE  DataStep
<1>1. CASE \/ Lifecycle \/ ShutdownHTTP \/ Crash \/ Quiet \/ UNCHANGED vars
           \/ \E h \in Handler : Disconnect(h)
  BY <1>1
     DEF Lifecycle, Boot, Listen, StopQueue, ExitMain, ProcessEnds, ShutdownHTTP, Crash, Quiet,
         vars, historyVars, Disconnect, DataStep
<1>2. CASE \E h \in Handler, d \in Doc :
             BeginUpload(h, d) \/ BeginDelete(h, d) \/ BeginReindex(h, d)
  BY <1>2 DEF BeginUpload, BeginDelete, BeginReindex, Begin, historyVars, DataStep
<1> QED BY <1>1, <1>2, HandlerDataStep, WorkerDataStep DEF Next

\* What the goroutines rely on: rows do not disappear, and chunks of a
\* document only do when it is withdrawn, for good.
LEMMA DataOnlyGrows ==
  ASSUME TypeOK, DataStep
  PROVE  /\ \A d \in Doc : status[d] # "none" => status'[d] # "none"
         /\ withdrawn \subseteq withdrawn'
         /\ \A d \in Doc : d \notin withdrawn' => chunks[d] <= chunks'[d]
<1> USE RepoAssumption DEF TypeOK, RepoTypeOK, DocStatus
<1>1. CASE UNCHANGED <<repoVars, objects, withdrawn>>
  BY <1>1 DEF repoVars
<1>2. ASSUME NEW d \in Doc, StoreStep(d)
      PROVE  UNCHANGED <<repoVars, withdrawn>>
  BY <1>2 DEF StoreStep
<1>3. ASSUME NEW d \in Doc, WithdrawStep(d)
      PROVE  /\ status' = status /\ withdrawn' = withdrawn \cup {d}
             /\ \A e \in Doc \ {d} : chunks'[e] = chunks[e]
  BY <1>3 DEF WithdrawStep, DeleteChunks
<1>4. ASSUME NEW d \in Doc, RowStep(d)
      PROVE  /\ withdrawn' = withdrawn
             /\ \A e \in Doc : status[e] # "none" => status'[e] # "none"
             /\ \A e \in Doc : chunks[e] <= chunks'[e]
  BY <1>4 DEF RowStep, Create, UpdateStatus, CreateChunks, Delete
<1> QED BY <1>1, <1>2, <1>3, <1>4 DEF DataStep, repoVars

LEMMA DataStepKeepsPromises ==
  ASSUME TypeOK, Promises, NoRowNoClaim, DataStep
  PROVE  Promises' /\ NoRowNoClaim'
<1> USE RepoAssumption
<1> USE DEF TypeOK, RepoTypeOK, DocStatus, Promises, ChunkCountBacked, IndexedIsSearchable,
            SourceFileKept, NoRowNoClaim, Live
<1>1. CASE UNCHANGED <<repoVars, objects, withdrawn>>
  BY <1>1 DEF repoVars
<1>2. ASSUME NEW d \in Doc, StoreStep(d)
      PROVE  Promises' /\ NoRowNoClaim'
  BY <1>2 DEF StoreStep, repoVars
<1>3. ASSUME NEW d \in Doc, WithdrawStep(d)
      PROVE  Promises' /\ NoRowNoClaim'
  BY <1>3 DEF WithdrawStep, DeleteChunks
<1>4. ASSUME NEW d \in Doc, RowStep(d)
      PROVE  Promises' /\ NoRowNoClaim'
  <2>1. UNCHANGED <<objects, withdrawn>>
    BY <1>4 DEF RowStep
  <2>2. CASE Create(d) /\ status[d] = "none" /\ d \in objects
    BY <2>1, <2>2 DEF Create
  <2>3. ASSUME NEW s \in DocStatus, NEW n \in Nat, UpdateStatus(d, s, n), Truthful(d, s, n)
        PROVE  Promises' /\ NoRowNoClaim'
    BY <2>1, <2>3 DEF UpdateStatus, Truthful
  <2>4. CASE CreateChunks(d) /\ status[d] # "none"
    BY <2>1, <2>4 DEF CreateChunks
  <2>5. CASE Delete(d) /\ d \in withdrawn
    BY <2>1, <2>5 DEF Delete
  <2> QED BY <1>4, <2>2, <2>3, <2>4, <2>5 DEF RowStep
<1> QED BY <1>1, <1>2, <1>3, <1>4 DEF DataStep

\* Steps of the server itself change nothing that is carried, or end it all.
ServerStep ==
  \/ Lifecycle \/ ShutdownHTTP \/ Crash \/ Quiet \/ UNCHANGED vars
  \/ \E h \in Handler : Disconnect(h)

LEMMA ServerCarries ==
  ASSUME PipelineInv, ServerStep
  PROVE  Carried'
<1> USE DEF PipelineInv, Carried, UploadsOwn, RequestsHaveRow, JobsHaveRow, SnapshotsBacked,
            UploadOnly, RetryPC
<1>1. UNCHANGED <<repoVars, objects, historyVars>>
  BY DEF ServerStep, Lifecycle, Boot, Listen, StopQueue, ExitMain, ProcessEnds, ShutdownHTTP,
         Crash, Quiet, vars, Disconnect
<1>2. CASE ProcessEnds
  <2>1. /\ \A h \in Handler : hpc'[h] = "idle"
        /\ \A w \in Worker : wpc'[w] = "wait"
        /\ jobs' = <<>>
    BY <1>2 DEF ProcessEnds, Queue!Kill
  <2> QED BY <2>1
<1>3. CASE ~ProcessEnds
  <2>1. UNCHANGED <<hpc, hdoc, hcount, processVars, jobs, held>>
    BY <1>3
       DEF ServerStep, Lifecycle, Boot, Listen, StopQueue, ExitMain, ShutdownHTTP, Crash, Quiet,
           vars, Disconnect, handlerVars, queueVars, Queue!Start, Queue!Stop, Queue!workerVars
  <2> QED BY <1>1, <2>1 DEF repoVars, historyVars, processVars
<1> QED BY <1>2, <1>3

LEMMA BeginCarries ==
  ASSUME PipelineInv, NEW h \in Handler, NEW d \in Doc,
         BeginUpload(h, d) \/ BeginDelete(h, d) \/ BeginReindex(h, d)
  PROVE  Carried'
<1> USE DEF PipelineInv, Carried
<1>1. HandlerTypeOK
  BY TypeParts
<1>2. /\ hpc[h] = "idle"
      /\ hdoc' = [hdoc EXCEPT ![h] = d]
      /\ UNCHANGED <<repoVars, objects, queueVars, processVars, withdrawn>>
  BY DEF BeginUpload, BeginDelete, BeginReindex, Begin, historyVars
<1>3. PICK pc \in HandlerPC, n \in Nat :
        /\ hpc' = [hpc EXCEPT ![h] = pc]
        /\ hcount' = [hcount EXCEPT ![h] = n]
        /\ \/ pc = "save" /\ Fresh(d)
           \/ pc = "delChunks" /\ Live(d)
           \/ pc = "reEnqueue" /\ Live(d) /\ n = count[d]
  <2>1. count[d] \in Nat /\ 0 \in Nat /\ {"save", "delChunks", "reEnqueue"} \subseteq HandlerPC
    BY DEF TypeOK, RepoTypeOK, HandlerPC, UploadPC, DeletePC, RetryPC
  <2>2. CASE BeginUpload(h, d)
    BY <2>1, <2>2 DEF BeginUpload, Begin
  <2>3. CASE BeginDelete(h, d)
    BY <2>1, <2>3 DEF BeginDelete, Begin
  <2>4. CASE BeginReindex(h, d)
    BY <2>1, <2>4 DEF BeginReindex, Begin
  <2> QED BY <2>2, <2>3, <2>4
<1>4. UploadsOwn'
  BY <1>1, <1>2, <1>3 DEF UploadsOwn, UploadOnly, HandlerTypeOK, repoVars, Fresh, Live
<1>5. RequestsHaveRow'
  BY <1>1, <1>2, <1>3 DEF RequestsHaveRow, UploadOnly, HandlerTypeOK, repoVars, Live
<1>6. JobsHaveRow'
  BY <1>2 DEF JobsHaveRow, repoVars, queueVars, processVars
<1>7. SnapshotsBacked'
  BY <1>1, <1>2, <1>3
     DEF SnapshotsBacked, HandlerTypeOK, RetryPC, repoVars, queueVars, processVars,
         Promises, ChunkCountBacked
<1> QED BY <1>4, <1>5, <1>6, <1>7

LEMMA WorkerCarries ==
  ASSUME PipelineInv, NEW w \in Worker, WorkerStep(w)
  PROVE  Carried'
<1> USE DEF PipelineInv, Carried
<1>1. /\ HandlerTypeOK /\ ProcessTypeOK /\ RepoTypeOK /\ Queue!TypeOK
      /\ DataStep
      /\ wpc[w] # "wait" => held[w] \in Doc
  BY TypeParts, WorkerDataStep, ProcessMoves
<1>2. /\ UNCHANGED <<objects, handlerVars, withdrawn>>
      /\ \A d \in Doc : status[d] # "none" <=> status'[d] # "none"
      /\ \A d \in Doc : d \notin withdrawn => chunks[d] <= chunks'[d]
  <2>1. UNCHANGED <<objects, handlerVars, withdrawn>>
    BY DEF WorkerStep, SpawnWorker, TakeJob, LeaveLoop, Load, Mark, Extract, Persist, Finish,
           Fail, historyVars
  <2>2. \/ status' = status
        \/ /\ held[w] \in Doc
           /\ \E s \in DocStatus, n \in Nat \cup {wcount[w], Pieces[held[w]]} :
                UpdateStatus(held[w], s, n)
    BY <1>1 DEF WorkerStep, SpawnWorker, TakeJob, LeaveLoop, Load, Mark, Extract, Persist, Finish,
                Fail, repoVars, CreateChunks, DocStatus
  <2>3. \A d \in Doc : status[d] # "none" <=> status'[d] # "none"
    BY <1>1, <2>2 DEF UpdateStatus, Live, RepoTypeOK, DocStatus
  <2> QED BY <1>1, <2>1, <2>3, DataOnlyGrows
<1>3. UploadsOwn'
  BY <1>1, <1>2 DEF UploadsOwn, UploadOnly, HandlerTypeOK, handlerVars
<1>4. RequestsHaveRow'
  BY <1>1, <1>2 DEF RequestsHaveRow, HandlerTypeOK, handlerVars
<1>5. \A h \in Handler : hpc'[h] \in RetryPC /\ hdoc'[h] \notin withdrawn'
                         => hcount'[h] <= chunks'[hdoc'[h]]
  <2> SUFFICES ASSUME NEW h \in Handler, hpc[h] \in RetryPC, hdoc[h] \notin withdrawn
               PROVE  hcount[h] <= chunks'[hdoc[h]]
    BY <1>2 DEF handlerVars
  <2>1. hdoc[h] \in Doc /\ hcount[h] <= chunks[hdoc[h]] /\ hcount[h] \in Nat
    BY <1>1 DEF HandlerTypeOK, SnapshotsBacked, RetryPC
  <2>2. chunks[hdoc[h]] <= chunks'[hdoc[h]] /\ chunks'[hdoc[h]] \in Nat /\ chunks[hdoc[h]] \in Nat
    BY <1>1, <1>2, <2>1, WorkerKeepsTypes DEF RepoTypeOK
  <2> QED BY <2>1, <2>2
<1>6. JobsHaveRow'
  <2>1. \A i \in DOMAIN jobs' : jobs'[i] \in Doc /\ status[jobs'[i]] # "none"
    <3>1. CASE Queue!Take(w)
      <4>1. /\ jobs \in Seq(Doc) /\ jobs # <<>> /\ jobs' = Tail(jobs)
            /\ \A i \in DOMAIN jobs : status[jobs[i]] # "none"
        BY <1>1, <3>1 DEF Queue!Take, Queue!TypeOK, JobsHaveRow
      <4> QED BY <4>1
    <3>2. CASE jobs' = jobs
      BY <1>1, <3>2 DEF Queue!TypeOK, JobsHaveRow
    <3>3. Queue!Take(w) \/ jobs' = jobs
      BY DEF WorkerStep, SpawnWorker, TakeJob, LeaveLoop, Load, Mark, Extract, Persist, Finish,
             Fail, Errored, Done, Queue!Spawn, Queue!Exit, Queue!Retry, Queue!GiveUp,
             Queue!Succeed, Queue!Release, queueVars
    <3> QED BY <3>1, <3>2, <3>3
  <2>2. \A v \in Worker : wpc'[v] # "wait" => held'[v] \in Doc /\ status[held'[v]] # "none"
    <3>1. \A v \in Worker : wpc[v] # "wait" => held[v] \in Doc /\ status[held[v]] # "none"
      BY <1>1 DEF JobsHaveRow, Queue!TypeOK, ProcessTypeOK
    <3>2. CASE TakeJob(w)
      <4>1. Head(jobs) \in Doc /\ status[Head(jobs)] # "none"
        <5>1. jobs \in Seq(Doc) /\ jobs # <<>> /\ \A i \in DOMAIN jobs : status[jobs[i]] # "none"
          BY <1>1, <3>2 DEF TakeJob, Queue!Take, Queue!TypeOK, JobsHaveRow
        <5> QED BY <5>1
      <4> QED BY <1>1, <3>1, <3>2, <4>1 DEF TakeJob, Queue!Take, Step, ProcessTypeOK, Queue!TypeOK
    <3>3. CASE ~TakeJob(w)
      <4>1. \/ UNCHANGED held
            \/ held' = [held EXCEPT ![w] = NoDoc] /\ wpc' = [wpc EXCEPT ![w] = "wait"]
        BY <3>3 DEF WorkerStep, SpawnWorker, LeaveLoop, Load, Mark, Extract, Persist, Finish,
                    Fail, Errored, Done, Queue!Spawn, Queue!Exit, Queue!Retry, Queue!GiveUp,
                    Queue!Succeed, Queue!Release, queueVars
      <4>2. \/ UNCHANGED wpc
            \/ wpc[w] # "wait" /\ \E pc \in WorkerPC : wpc' = [wpc EXCEPT ![w] = pc]
        BY <3>3 DEF WorkerStep, SpawnWorker, LeaveLoop, Load, Mark, Extract, Persist, Finish,
                    Fail, Errored, Done, Step, WorkerPC, processVars
      <4> QED BY <1>1, <3>1, <4>1, <4>2 DEF ProcessTypeOK, Queue!TypeOK
    <3> QED BY <3>2, <3>3
  <2> QED BY <1>2, <2>1, <2>2 DEF JobsHaveRow
<1>7. ASSUME NEW v \in Worker, v # w
      PROVE  UNCHANGED <<wpc[v], wcount[v], held[v]>>
  BY <1>1, <1>7
     DEF WorkerStep, SpawnWorker, TakeJob, LeaveLoop, Load, Mark, Extract, Persist, Finish, Fail,
         Errored, Done, Step, Queue!Spawn, Queue!Take, Queue!Exit, Queue!Retry, Queue!GiveUp,
         Queue!Succeed, Queue!Release, queueVars, processVars, ProcessTypeOK, Queue!TypeOK
<1>8. ASSUME NEW v \in Worker, held'[v] \notin withdrawn'
      PROVE  /\ wpc'[v] = "mark" => wcount'[v] <= chunks'[held'[v]]
             /\ wpc'[v] = "finish" => Pieces[held'[v]] <= chunks'[held'[v]]
  <2>1. CASE v # w
    <3>1. CASE wpc[v] \in {"mark", "finish"}
      <4>1. /\ held[v] \in Doc /\ wcount[v] \in Nat /\ Pieces[held[v]] \in Nat
            /\ wpc[v] = "mark" => wcount[v] <= chunks[held[v]]
            /\ wpc[v] = "finish" => Pieces[held[v]] <= chunks[held[v]]
        BY <1>1, <1>2, <1>7, <1>8, <2>1, <3>1, RepoAssumption
           DEF SnapshotsBacked, ProcessTypeOK, Queue!TypeOK
      <4>2. chunks[held[v]] \in Nat /\ chunks'[held[v]] \in Nat /\ chunks[held[v]] <= chunks'[held[v]]
        BY <1>1, <1>2, <1>7, <1>8, <2>1, <4>1, WorkerKeepsTypes DEF RepoTypeOK
      <4> QED BY <1>7, <2>1, <4>1, <4>2
    <3> QED BY <1>7, <2>1, <3>1
  <2>2. CASE v = w /\ wpc'[w] = "mark"
    <3>1. /\ Load(w) /\ held' = held /\ chunks' = chunks
          /\ wcount' = [wcount EXCEPT ![w] = count[held[w]]] /\ Live(held[w])
      BY <1>1, <2>2
         DEF WorkerStep, SpawnWorker, TakeJob, LeaveLoop, Load, Mark, Extract, Persist, Finish,
             Fail, Errored, Done, Step, queueVars, processVars, repoVars, ProcessTypeOK,
             Queue!Spawn, Queue!Exit, Queue!TypeOK
    <3>2. held[w] \in Doc
      BY <1>1, <3>1 DEF Load
    <3> QED BY <1>1, <1>2, <1>8, <2>2, <3>1, <3>2 DEF ProcessTypeOK, Promises, ChunkCountBacked
  <2>3. CASE v = w /\ wpc'[w] = "finish"
    <3>1. /\ held' = held /\ wpc[w] # "wait"
          /\ \/ Pieces[held[w]] = 0 /\ chunks' = chunks
             \/ chunks' = [chunks EXCEPT ![held[w]] = @ + Pieces[held[w]]]
      BY <1>1, <2>3
         DEF WorkerStep, SpawnWorker, TakeJob, LeaveLoop, Load, Mark, Extract, Persist, Finish,
             Fail, Errored, Done, Step, queueVars, processVars, repoVars, ProcessTypeOK,
             Queue!Spawn, Queue!Exit, Queue!TypeOK, CreateChunks
    <3>2. held[w] \in Doc /\ chunks[held[w]] \in Nat /\ Pieces[held[w]] \in Nat
      BY <1>1, <3>1, RepoAssumption DEF RepoTypeOK
    <3> QED BY <1>1, <2>3, <3>1, <3>2 DEF RepoTypeOK
  <2> QED BY <2>1, <2>2, <2>3
<1>9. SnapshotsBacked'
  BY <1>5, <1>8 DEF SnapshotsBacked
<1> QED BY <1>3, <1>4, <1>6, <1>9

LEMMA HandlerCarries ==
  ASSUME PipelineInv, NEW h \in Handler, HandlerStep(h)
  PROVE  Carried'
<1> USE DEF PipelineInv, Carried
<1>1. /\ HandlerTypeOK /\ ProcessTypeOK /\ RepoTypeOK /\ Queue!TypeOK
      /\ RepoTypeOK'
      /\ hpc[h] # "idle" /\ hdoc[h] \in Doc /\ hcount[h] \in Nat
  <2>1. hpc[h] # "idle"
    BY DEF HandlerStep, SaveFile, CreateRow, Unsave, EnqueueUpload, MarkFailed,
           RemoveChunks, RemoveObject, RemoveRow, Reenqueue, MarkPending
  <2> QED BY <2>1, TypeParts, HandlerKeepsTypes, HandlerMoves DEF HandlerTypeOK
<1>2. /\ \A d \in Doc : status[d] # "none" => status'[d] # "none"
      /\ withdrawn \subseteq withdrawn'
      /\ \A d \in Doc : d \notin withdrawn' => chunks[d] <= chunks'[d]
  BY HandlerDataStep, DataOnlyGrows
\* The handler goes on with its document, or replies and forgets it.
<1>3. /\ \E pc \in HandlerPC : hpc' = [hpc EXCEPT ![h] = pc]
      /\ \/ UNCHANGED <<hdoc, hcount>>
         \/ /\ hpc'[h] = "idle"
            /\ hdoc' = [hdoc EXCEPT ![h] = NoDoc]
            /\ hcount' = [hcount EXCEPT ![h] = 0]
  BY <1>1
     DEF HandlerStep, SaveFile, CreateRow, Unsave, EnqueueUpload, MarkFailed, RemoveChunks,
         RemoveObject, RemoveRow, Reenqueue, MarkPending, Goto, Reply, HandlerTypeOK, HandlerPC,
         UploadPC, DeletePC, RetryPC
\* It touches no other document's row or file.
<1>4. \A d \in Doc \ {hdoc[h]} : status'[d] = status[d] /\ (d \in objects' <=> d \in objects)
  BY <1>1
     DEF HandlerStep, SaveFile, CreateRow, Unsave, EnqueueUpload, MarkFailed, RemoveChunks,
         RemoveObject, RemoveRow, Reenqueue, MarkPending, repoVars, Create, UpdateStatus,
         DeleteChunks, Delete, Store!Save, Store!SaveFails, Store!DeleteObject, RepoTypeOK
<1>5. UploadsOwn'
  <2>1. ASSUME NEW g \in Handler, g # h, hpc'[g] \in UploadOnly
        PROVE  /\ status'[hdoc'[g]] = "none"
               /\ hpc'[g] = "create" => hdoc'[g] \in objects'
               /\ \A k \in Handler : k # g => hdoc'[k] # hdoc'[g]
    <3>1. hpc'[g] = hpc[g] /\ hdoc'[g] = hdoc[g] /\ hdoc[g] \in Doc /\ hdoc[g] # hdoc[h]
      BY <1>1, <1>3, <2>1 DEF HandlerTypeOK, UploadsOwn, UploadOnly
    <3> QED BY <1>1, <1>3, <1>4, <2>1, <3>1, PipelineAssumption DEF UploadsOwn, HandlerTypeOK
  <2>2. ASSUME hpc'[h] \in UploadOnly
        PROVE  /\ status'[hdoc'[h]] = "none"
               /\ hpc'[h] = "create" => hdoc'[h] \in objects'
               /\ \A k \in Handler : k # h => hdoc'[k] # hdoc'[h]
    <3>1. hpc'[h] \in {"create", "unsave"} /\ hdoc' = hdoc /\ (SaveFile(h) \/ CreateRow(h))
      BY <1>1, <1>3, <2>2
         DEF HandlerStep, SaveFile, CreateRow, Unsave, EnqueueUpload, MarkFailed, RemoveChunks,
             RemoveObject, RemoveRow, Reenqueue, MarkPending, Goto, Reply, HandlerTypeOK,
             UploadOnly
    <3>2. hpc[h] \in UploadOnly /\ UNCHANGED status
      BY <1>1, <2>2, <3>1
         DEF SaveFile, CreateRow, Goto, HandlerTypeOK, UploadOnly, repoVars
    <3>3. hpc'[h] = "create" => hdoc[h] \in objects'
      BY <1>1, <3>1 DEF SaveFile, CreateRow, Goto, Reply, Store!Save, HandlerTypeOK
    <3> QED BY <3>1, <3>2, <3>3 DEF UploadsOwn
  <2> QED BY <2>1, <2>2 DEF UploadsOwn
<1>6. RequestsHaveRow'
  <2>1. ASSUME NEW g \in Handler, g # h
        PROVE  /\ hpc'[g] \notin UploadOnly \cup {"idle"} => status'[hdoc'[g]] # "none"
               /\ hpc'[g] \in {"delObject", "delRow"} => hdoc'[g] \in withdrawn'
    BY <1>1, <1>2, <1>3, <2>1 DEF RequestsHaveRow, HandlerTypeOK
  <2>2. hpc'[h] \notin UploadOnly \cup {"idle"} => status'[hdoc'[h]] # "none"
    <3>1. CASE CreateRow(h)
      BY <1>1, <3>1 DEF CreateRow, Create, Goto, HandlerTypeOK, RepoTypeOK, UploadOnly
    <3>2. CASE ~CreateRow(h) /\ hpc'[h] \notin UploadOnly \cup {"idle"}
      <4>1. hpc[h] \notin UploadOnly \cup {"idle"} /\ hdoc' = hdoc
        BY <1>1, <1>3, <3>2
           DEF HandlerStep, SaveFile, Unsave, EnqueueUpload, MarkFailed, RemoveChunks,
               RemoveObject, RemoveRow, Reenqueue, MarkPending, Goto, Reply, HandlerTypeOK,
               UploadOnly
      <4> QED BY <1>1, <1>2, <4>1 DEF RequestsHaveRow
    <3> QED BY <3>1, <3>2
  <2>3. hpc'[h] \in {"delObject", "delRow"} => hdoc'[h] \in withdrawn'
    BY <1>1, <1>2
       DEF HandlerStep, SaveFile, CreateRow, Unsave, EnqueueUpload, MarkFailed, RemoveChunks,
           RemoveObject, RemoveRow, Reenqueue, MarkPending, Goto, Reply, HandlerTypeOK,
           RequestsHaveRow
  <2> QED BY <2>1, <2>2, <2>3 DEF RequestsHaveRow
<1>7. /\ UNCHANGED <<processVars, held>>
      /\ jobs' = jobs \/ (Queue!Send(hdoc[h]) /\ status[hdoc[h]] # "none")
  <2>1. /\ UNCHANGED <<processVars, held>>
        /\ jobs' = jobs \/ Queue!Send(hdoc[h])
    BY DEF HandlerStep, SaveFile, CreateRow, Unsave, EnqueueUpload, MarkFailed, RemoveChunks,
           RemoveObject, RemoveRow, Reenqueue, MarkPending, Queue!Send, Queue!workerVars, queueVars
  <2>2. hpc[h] \in {"enqueue", "reEnqueue"} \/ jobs' = jobs
    BY DEF HandlerStep, SaveFile, CreateRow, Unsave, EnqueueUpload, MarkFailed, RemoveChunks,
           RemoveObject, RemoveRow, Reenqueue, MarkPending, queueVars
  <2> QED BY <2>1, <2>2 DEF RequestsHaveRow, UploadOnly
<1>8. JobsHaveRow'
  <2>1. \A i \in DOMAIN jobs' : jobs'[i] \in Doc /\ status[jobs'[i]] # "none"
    <3>1. jobs \in Seq(Doc) /\ \A i \in DOMAIN jobs : status[jobs[i]] # "none"
      BY <1>1 DEF Queue!TypeOK, JobsHaveRow
    <3>2. CASE jobs' = jobs
      BY <3>1, <3>2
    <3>3. CASE jobs' = Append(jobs, hdoc[h]) /\ status[hdoc[h]] # "none"
      BY <1>1, <3>1, <3>3
    <3> QED BY <1>7, <3>2, <3>3 DEF Queue!Send
  <2>2. \A w \in Worker : wpc[w] # "wait" => held[w] \in Doc /\ status[held[w]] # "none"
    BY <1>1 DEF JobsHaveRow, Queue!TypeOK, ProcessTypeOK
  <2> QED BY <1>2, <1>7, <2>1, <2>2 DEF JobsHaveRow, processVars
<1>9. SnapshotsBacked'
  <2>1. ASSUME NEW w \in Worker, held[w] \notin withdrawn', wpc[w] \in {"mark", "finish"}
        PROVE  /\ wpc[w] = "mark" => wcount[w] <= chunks'[held[w]]
               /\ wpc[w] = "finish" => Pieces[held[w]] <= chunks'[held[w]]
    <3>1. /\ held[w] \in Doc /\ wcount[w] \in Nat /\ Pieces[held[w]] \in Nat
          /\ wpc[w] = "mark" => wcount[w] <= chunks[held[w]]
          /\ wpc[w] = "finish" => Pieces[held[w]] <= chunks[held[w]]
      BY <1>1, <1>2, <2>1, RepoAssumption DEF SnapshotsBacked, ProcessTypeOK, Queue!TypeOK
    <3>2. chunks[held[w]] \in Nat /\ chunks'[held[w]] \in Nat /\ chunks[held[w]] <= chunks'[held[w]]
      BY <1>1, <1>2, <2>1, <3>1 DEF RepoTypeOK
    <3> QED BY <3>1, <3>2
  <2>2. ASSUME NEW g \in Handler, hpc'[g] \in RetryPC, hdoc'[g] \notin withdrawn'
        PROVE  hcount'[g] <= chunks'[hdoc'[g]]
    <3>1. hpc[g] \in RetryPC /\ hdoc'[g] = hdoc[g] /\ hcount'[g] = hcount[g]
      <4>1. CASE g # h
        BY <1>1, <1>3, <2>2, <4>1 DEF HandlerTypeOK
      <4>2. CASE g = h
        BY <1>1, <1>3, <2>2, <4>2
           DEF HandlerStep, SaveFile, CreateRow, Unsave, EnqueueUpload, MarkFailed, RemoveChunks,
               RemoveObject, RemoveRow, Reenqueue, MarkPending, Goto, Reply, HandlerTypeOK, RetryPC
      <4> QED BY <4>1, <4>2
    <3>2. hdoc[g] \in Doc /\ hcount[g] \in Nat /\ hcount[g] <= chunks[hdoc[g]]
      BY <1>1, <1>2, <2>2, <3>1 DEF SnapshotsBacked, HandlerTypeOK, RetryPC
    <3>3. /\ chunks[hdoc[g]] \in Nat /\ chunks'[hdoc[g]] \in Nat
          /\ chunks[hdoc[g]] <= chunks'[hdoc[g]]
      BY <1>1, <1>2, <2>2, <3>1, <3>2 DEF RepoTypeOK
    <3> QED BY <3>1, <3>2, <3>3
  <2> QED BY <1>7, <2>1, <2>2 DEF SnapshotsBacked, processVars
<1> QED BY <1>5, <1>6, <1>8, <1>9

LEMMA InvariantStep == PipelineInv /\ [Next]_vars => PipelineInv'
<1> SUFFICES ASSUME PipelineInv, [Next]_vars
             PROVE  PipelineInv'
  OBVIOUS
<1>1. TypeOK'
  BY TypeStep DEF PipelineInv
<1>2. Promises' /\ NoRowNoClaim'
  BY EveryStepIsADataStep, DataStepKeepsPromises DEF PipelineInv
<1>3. Carried'
  BY HandlerCarries, BeginCarries, WorkerCarries, ServerCarries DEF Next, ServerStep
<1> QED BY <1>1, <1>2, <1>3 DEF PipelineInv

LEMMA InvariantInit == Init => PipelineInv
<1> SUFFICES ASSUME Init
             PROVE  PipelineInv
  OBVIOUS
<1>1. TypeOK
  BY TypeInit
<1>2. /\ \A h \in Handler : hpc[h] = "idle"
      /\ \A w \in Worker : wpc[w] = "wait"
      /\ \A d \in Doc : status[d] = "none" /\ count[d] = 0
      /\ jobs = <<>> /\ withdrawn = {}
  BY DEF Init, RepoInit, Queue!Init
<1>3. UploadsOwn /\ RequestsHaveRow
  BY <1>2 DEF UploadsOwn, RequestsHaveRow, UploadOnly
<1>4. JobsHaveRow
  BY <1>2 DEF JobsHaveRow
<1>5. SnapshotsBacked
  BY <1>2 DEF SnapshotsBacked, RetryPC
<1>6. NoRowNoClaim /\ Promises
  BY <1>2 DEF NoRowNoClaim, Promises, ChunkCountBacked, IndexedIsSearchable, SourceFileKept, Live
<1> QED BY <1>1, <1>3, <1>4, <1>5, <1>6 DEF PipelineInv, Carried

\* The promises and everything the goroutines carry hold in every state the
\* pipeline can reach.
THEOREM PipelineInvariant == Spec => []PipelineInv
BY InvariantInit, InvariantStep, PTL DEF Spec

\* The count shown with a document never exceeds the chunks a search can find,
\* under any interleaving, any failures and any number of restarts.
THEOREM CountsAreBacked == Spec => []ChunkCountBacked
BY PipelineInvariant, PTL DEF PipelineInv, Promises

\* "indexed" means searchable in full, whichever worker or attempt wrote it.
THEOREM IndexedMeansSearchable == Spec => []IndexedIsSearchable
BY PipelineInvariant, PTL DEF PipelineInv, Promises

\* A listed document has its file until a Delete has withdrawn it.
THEOREM FilesAreKept == Spec => []SourceFileKept
BY PipelineInvariant, PTL DEF PipelineInv, Promises

-----------------------------------------------------------------------------
(***************************************************************************)
(* The pipeline implements the searchable library: each kind of data step  *)
(* is the library step of the same purpose, or invisible to the library.   *)
(***************************************************************************)
Unborn == {d \in Doc : status[d] = "none"}
Listed == {d \in Doc : Live(d)}
Complete == {d \in Doc : Live(d) /\ status[d] = "indexed"}

LEMMA DataStepIsLibraryStep ==
  ASSUME TypeOK, Promises, DataStep
  PROVE  [Library!Next]_(Library!libraryVars)
<1> USE RepoAssumption
<1> USE DEF TypeOK, RepoTypeOK, DocStatus, Library!libraryVars, Live
<1>1. CASE UNCHANGED <<repoVars, objects, withdrawn>>
  BY <1>1 DEF repoVars
<1>2. ASSUME NEW d \in Doc, StoreStep(d)
      PROVE  Library!Store(d) \/ Library!Drop(d)
  BY <1>2 DEF StoreStep, repoVars, Library!Store, Library!Drop
<1>3. ASSUME NEW d \in Doc, WithdrawStep(d)
      PROVE  Library!Withdraw(d)
  BY <1>3 DEF WithdrawStep, DeleteChunks, Library!Withdraw
<1>4. ASSUME NEW d \in Doc, RowStep(d)
      PROVE  \/ Library!List(d) \/ Library!Publish(d) \/ Library!Advertise(d) \/ Library!Unlist(d)
             \/ UNCHANGED Library!libraryVars
  <2>1. UNCHANGED <<objects, withdrawn>>
    BY <1>4 DEF RowStep
  <2>2. CASE Create(d) /\ status[d] = "none" /\ d \in objects
    BY <2>1, <2>2 DEF Create, Library!List
  <2>3. ASSUME NEW s \in DocStatus, NEW n \in Nat, UpdateStatus(d, s, n), Truthful(d, s, n)
        PROVE  Library!Advertise(d) \/ UNCHANGED Library!libraryVars
    <3>1. CASE ~Live(d)
      BY <2>1, <2>3, <3>1 DEF UpdateStatus
    <3>2. CASE Live(d)
      <4>1. /\ count' = [count EXCEPT ![d] = n]
            /\ count'[d] = n
            /\ UNCHANGED <<objects, chunks, withdrawn, deleted>>
            /\ status' = [status EXCEPT ![d] = s]
        BY <2>1, <2>3, <3>2 DEF UpdateStatus
      <4>2. Unborn' = Unborn /\ Listed' = Listed
        BY <3>2, <4>1 DEF Unborn, Listed
      <4>3. Complete' = IF s = "indexed" THEN Complete \cup {d} ELSE Complete \ {d}
        BY <3>2, <4>1 DEF Complete
      <4>4. Library!Honest(d, count'[d], s = "indexed")
        BY <2>3, <3>2, <4>1 DEF Truthful, Library!Honest
      <4>5. Library!Advertise(d)
        BY <3>2, <4>1, <4>2, <4>3, <4>4 DEF Library!Advertise, Unborn, Listed, Complete
      <4> QED BY <4>5
    <3> QED BY <3>1, <3>2
  <2>4. CASE CreateChunks(d) /\ status[d] # "none"
    BY <2>1, <2>4 DEF CreateChunks, Library!Publish
  <2>5. CASE Delete(d) /\ d \in withdrawn
    BY <2>1, <2>5 DEF Delete, Library!Unlist
  <2> QED BY <1>4, <2>2, <2>3, <2>4, <2>5 DEF RowStep
<1> QED BY <1>1, <1>2, <1>3, <1>4 DEF DataStep, Library!Next

LEMMA InitIsLibraryInit == Init => Library!Init
<1> SUFFICES ASSUME Init
             PROVE  Library!Init
  OBVIOUS
<1>1. /\ status = [d \in Doc |-> "none"] /\ count = [d \in Doc |-> 0]
      /\ chunks = [d \in Doc |-> 0] /\ objects = {} /\ withdrawn = {}
  BY DEF Init, RepoInit, Store!StorageInit
<1> QED BY <1>1 DEF Library!Init, Live

\* What users see of the pipeline is a behaviour of the searchable library:
\* no interleaving, failure, crash or restart shows them anything else.
THEOREM PipelineImplementsLibrary == Spec => ImplementsLibrary
<1>1. Init => Library!Init
  BY InitIsLibraryInit
<1>2. PipelineInv /\ [Next]_vars => [Library!Next]_(Library!libraryVars)
  BY EveryStepIsADataStep, DataStepIsLibraryStep DEF PipelineInv
<1> QED BY <1>1, <1>2, PipelineInvariant, PTL DEF Spec, Library!Spec, ImplementsLibrary
=============================================================================
