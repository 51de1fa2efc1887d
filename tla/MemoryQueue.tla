----------------------------- MODULE MemoryQueue -----------------------------
(***************************************************************************)
(* The in-memory indexing queue, backend/internal/queue/memory.go: one     *)
(* buffered Go channel and a fixed pool of worker goroutines.  A worker    *)
(* ranges over the channel, runs Processor.Process on every job it         *)
(* receives, and repeats a failing job inline up to MaxRetries times.      *)
(*                                                                         *)
(* The module is used in two ways.  On its own (Spec) the processor and    *)
(* the producers are arbitrary: any attempt may succeed or fail and any    *)
(* job may be offered at any time.  DocumentPipeline instantiates it and   *)
(* conjoins its actions with the steps of the real processor.              *)
(***************************************************************************)
EXTENDS Naturals, Sequences

CONSTANTS
  Job,         \* queue.Job values; a job is identified by its document
  NoJob,       \* what an unoccupied worker holds
  Worker,      \* the goroutines launched by Start (QueueConfig.Concurrency)
  Capacity,    \* the channel's buffer, make(chan Job, 1024)
  MaxRetries   \* const maxRetries = 3

ASSUME QueueAssumption ==
  /\ NoJob \notin Job
  /\ Worker # {}                    \* NewMemory raises concurrency to 1
  /\ Capacity \in Nat \ {0}
  /\ MaxRetries \in Nat \ {0}

VARIABLES
  jobs,      \* the channel's buffer, oldest job first
  closed,    \* close(q.jobs) has run
  ctxDone,   \* the workers' context has been cancelled
  state,     \* where each worker goroutine is
  held,      \* the job each worker is processing
  attempt    \* the worker loop's attempt counter, 0 between jobs

queueVars == <<jobs, closed, ctxDone, state, held, attempt>>
workerVars == <<state, held, attempt>>

WorkerState == {"none", "starting", "idle", "busy", "exited"}

(***************************************************************************)
(* A freshly constructed queue (NewMemory): no goroutine exists yet.       *)
(***************************************************************************)
Init ==
  /\ jobs = <<>>
  /\ closed = FALSE
  /\ ctxDone = FALSE
  /\ state = [w \in Worker |-> "none"]
  /\ held = [w \in Worker |-> NoJob]
  /\ attempt = [w \in Worker |-> 0]

(***************************************************************************)
(* Start.  The locked prologue makes a context; the loop that follows      *)
(* launches the goroutines one by one, so Spawn is a step of its own and   *)
(* a Stop may fall between two of them.                                    *)
(***************************************************************************)
Start ==
  /\ \A w \in Worker : state[w] = "none"
  /\ state' = [w \in Worker |-> "starting"]
  /\ ctxDone' = FALSE
  /\ UNCHANGED <<jobs, closed, held, attempt>>

Spawn(w) ==
  /\ state[w] = "starting"
  /\ state' = [state EXCEPT ![w] = "idle"]
  /\ UNCHANGED <<jobs, closed, ctxDone, held, attempt>>

(***************************************************************************)
(* Enqueue is a select without a blocking case: the send, the caller's     *)
(* cancelled context, or the default.  A send on a closed channel panics.  *)
(* Send is the successful outcome; Full and closed are the conditions of   *)
(* ErrFull and of the panic (the caller's context is the caller's state).  *)
(***************************************************************************)
Full == ~closed /\ Len(jobs) = Capacity

MutantSendUnbounded(j) ==
  /\ ~closed
  /\ jobs' = Append(jobs, j)
  /\ UNCHANGED <<closed, ctxDone, workerVars>>

Send(j) ==
  /\ ~closed
  /\ Len(jobs) < Capacity
  /\ jobs' = Append(jobs, j)
  /\ UNCHANGED <<closed, ctxDone, workerVars>>

(***************************************************************************)
(* The worker loop.  Receiving from a closed channel still delivers what   *)
(* is buffered; only a closed AND empty channel ends the range loop.       *)
(***************************************************************************)
Take(w) ==
  /\ state[w] = "idle"
  /\ jobs # <<>>
  /\ state' = [state EXCEPT ![w] = "busy"]
  /\ held' = [held EXCEPT ![w] = Head(jobs)]
  /\ attempt' = [attempt EXCEPT ![w] = 1]
  /\ jobs' = Tail(jobs)
  /\ UNCHANGED <<closed, ctxDone>>

Release(w) ==
  /\ state' = [state EXCEPT ![w] = "idle"]
  /\ held' = [held EXCEPT ![w] = NoJob]
  /\ attempt' = [attempt EXCEPT ![w] = 0]
  /\ UNCHANGED <<jobs, closed, ctxDone>>

\* Process returned nil: leave the retry loop, receive the next job.
Succeed(w) == state[w] = "busy" /\ Release(w)

MutantRetryUncounted(w) ==
  /\ state[w] = "busy"
  /\ attempt' = [attempt EXCEPT ![w] = (@ % MaxRetries) + 1]
  /\ UNCHANGED <<jobs, closed, ctxDone, state, held>>

\* Process returned an error and attempts remain.
Retry(w) ==
  /\ state[w] = "busy"
  /\ attempt[w] < MaxRetries
  /\ attempt' = [attempt EXCEPT ![w] = @ + 1]
  /\ UNCHANGED <<jobs, closed, ctxDone, state, held>>

\* Process returned an error on the last attempt: the job is dropped.
GiveUp(w) ==
  /\ state[w] = "busy"
  /\ attempt[w] = MaxRetries
  /\ Release(w)

MutantExitOnCancel(w) ==
  /\ state[w] = "idle" /\ closed
  /\ state' = [state EXCEPT ![w] = "exited"]
  /\ UNCHANGED <<jobs, closed, ctxDone, held, attempt>>

\* The range loop ends and the deferred wg.Done runs.
Exit(w) ==
  /\ state[w] = "idle"
  /\ closed
  /\ jobs = <<>>
  /\ state' = [state EXCEPT ![w] = "exited"]
  /\ UNCHANGED <<jobs, closed, ctxDone, held, attempt>>

(***************************************************************************)
(* Stop cancels the context (q.cancel is set only once Start has run),     *)
(* closes the channel, and then waits for the launched goroutines;         *)
(* StopReturned is the condition under which wg.Wait returns.              *)
(***************************************************************************)
MutantStopOnlyCancels ==
  /\ ~closed
  /\ ctxDone' = TRUE
  /\ UNCHANGED <<jobs, closed, workerVars>>

Stop ==
  /\ ~closed
  /\ closed' = TRUE
  /\ ctxDone' = (\E w \in Worker : state[w] # "none")
  /\ UNCHANGED <<jobs, workerVars>>

StopReturned == closed /\ \A w \in Worker : state[w] \notin {"idle", "busy"}

\* The process dies: the channel and the goroutines are gone, and the next
\* process constructs its queue anew.  Nothing of it is durable.
Kill ==
  /\ jobs' = <<>>
  /\ closed' = FALSE
  /\ ctxDone' = FALSE
  /\ state' = [w \in Worker |-> "none"]
  /\ held' = [w \in Worker |-> NoJob]
  /\ attempt' = [w \in Worker |-> 0]

-----------------------------------------------------------------------------
(***************************************************************************)
(* The queue on its own, within the life of one process.                   *)
(***************************************************************************)
WorkerNext(w) ==
  Spawn(w) \/ Take(w) \/ Succeed(w) \/ Retry(w) \/ GiveUp(w) \/ Exit(w)

\* After Stop has returned the process is about to leave main.
Stopped == StopReturned /\ (\A w \in Worker : state[w] # "starting") /\ UNCHANGED queueVars

Next ==
  \/ Start
  \/ Stop
  \/ \E j \in Job : Send(j)
  \/ \E w \in Worker : WorkerNext(w)
  \/ Stopped

\* The Go scheduler runs every goroutine that can run, and Process returns
\* (the embedder's HTTP client has a 60 s timeout).  Nobody is obliged to
\* call Start, Stop or Enqueue.
Fairness == \A w \in Worker : WF_queueVars(WorkerNext(w))

Spec == Init /\ [][Next]_queueVars
FairSpec == Spec /\ Fairness

-----------------------------------------------------------------------------
TypeOK ==
  /\ jobs \in Seq(Job)
  /\ Len(jobs) <= Capacity
  /\ closed \in BOOLEAN
  /\ ctxDone \in BOOLEAN
  /\ state \in [Worker -> WorkerState]
  /\ held \in [Worker -> Job \cup {NoJob}]
  /\ attempt \in [Worker -> 0..MaxRetries]
  /\ \A w \in Worker : IF state[w] = "busy"
                       THEN held[w] \in Job /\ attempt[w] # 0
                       ELSE held[w] = NoJob /\ attempt[w] = 0

\* Nothing is left behind: once any worker has left its loop, the channel is
\* closed and empty, and so stays empty: every job Enqueue ever accepted was
\* received by some worker, even when Stop ran with a full buffer.
NothingLeftBehind ==
  (\E w \in Worker : state[w] = "exited") => closed /\ jobs = <<>>

\* Every job in the buffer of a started queue is eventually handed to a
\* worker: not starved by jobs that keep failing, nor dropped by a Stop that
\* runs while it waits (the workers' range loop outlives close(q.jobs)).
AcceptedIsReceived ==
  \A j \in Job :
    ((\E w \in Worker : state[w] # "none") /\ \E i \in DOMAIN jobs : jobs[i] = j)
      ~> (\E w \in Worker : held[w] = j)

\* What Stop waits for runs out: once the channel is closed it stays closed, and
\* whatever happens takes a job from the buffer or brings a worker nearer to its
\* end and no other further from it, however jobs fail (memory.go:92).
Left(w) ==
  CASE state[w] = "none" -> 3
    [] state[w] = "starting" -> 2
    [] state[w] = "busy" -> 2 + MaxRetries - attempt[w]
    [] state[w] = "idle" -> 1
    [] state[w] = "exited" -> 0
StopDrains ==
  [][closed =>
       /\ closed'
       /\ \/ Len(jobs') < Len(jobs)
          \/ /\ jobs' = jobs /\ \A w \in Worker : Left(w)' <= Left(w)
             /\ \E w \in Worker : Left(w)' < Left(w)]_queueVars

\* Stop, once called on a started queue, always returns: the workers drain
\* the buffer, run out of retries and leave, so wg.Wait does not hang.
StopReturns == (ctxDone /\ \E w \in Worker : state[w] # "none") ~> StopReturned
=============================================================================
