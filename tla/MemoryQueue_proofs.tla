------------------------- MODULE MemoryQueue_proofs -------------------------
(***************************************************************************)
(* Proofs about the queue alone, for any number of workers, any capacity   *)
(* and any number of retries.                                              *)
(***************************************************************************)
EXTENDS MemoryQueue, SequenceTheorems, TLAPS

QueueInv == TypeOK /\ NothingLeftBehind

\* One step of any kind keeps the type invariant and leaves nothing behind.
LEMMA QueueStepKeepsInv ==
  ASSUME QueueInv, [Next]_queueVars
  PROVE  QueueInv'
<1> USE QueueAssumption
<1> USE DEF QueueInv, TypeOK, NothingLeftBehind, WorkerState
<1>1. CASE UNCHANGED queueVars
  BY <1>1 DEF queueVars
<1>2. CASE Start
  BY <1>2 DEF Start
<1>3. CASE Stop
  BY <1>3 DEF Stop, workerVars
<1>4. ASSUME NEW j \in Job, Send(j)
      PROVE  QueueInv'
  BY <1>4 DEF Send, workerVars
<1>5. ASSUME NEW w \in Worker, WorkerNext(w)
      PROVE  QueueInv'
  <2>1. CASE Spawn(w)
    BY <2>1 DEF Spawn
  <2>2. CASE Take(w)
    BY <2>2 DEF Take
  <2>3. CASE Succeed(w)
    BY <2>3 DEF Succeed, Release
  <2>4. CASE Retry(w)
    BY <2>4 DEF Retry
  <2>5. CASE GiveUp(w)
    BY <2>5 DEF GiveUp, Release
  <2>6. CASE Exit(w)
    BY <2>6 DEF Exit
  <2> QED BY <1>5, <2>1, <2>2, <2>3, <2>4, <2>5, <2>6 DEF WorkerNext
<1>6. CASE Stopped
  BY <1>6, <1>1 DEF Stopped
<1> QED BY <1>1, <1>2, <1>3, <1>4, <1>5, <1>6 DEF Next

LEMMA QueueInvariant == Spec => []QueueInv
<1>1. Init => QueueInv
  <2> SUFFICES ASSUME Init
               PROVE  QueueInv
    OBVIOUS
  <2>1. jobs \in Seq(Job) /\ Len(jobs) = 0
    BY DEF Init
  <2>2. TypeOK
    <3>1. Len(jobs) <= Capacity /\ 0 \in 0..MaxRetries
      BY <2>1, QueueAssumption
    <3>2. state \in [Worker -> WorkerState] /\ \A w \in Worker : state[w] # "busy"
      BY DEF Init, WorkerState
    <3>3. /\ held \in [Worker -> Job \cup {NoJob}]
          /\ attempt \in [Worker -> 0..MaxRetries]
          /\ \A w \in Worker : held[w] = NoJob /\ attempt[w] = 0
      BY <3>1 DEF Init
    <3> QED BY <2>1, <3>1, <3>2, <3>3 DEF Init, TypeOK
  <2>3. NothingLeftBehind
    BY DEF Init, NothingLeftBehind
  <2> QED BY <2>2, <2>3 DEF QueueInv
<1>2. QueueInv /\ [Next]_queueVars => QueueInv'
  BY QueueStepKeepsInv
<1> QED BY <1>1, <1>2, PTL DEF Spec

\* The queue's state stays within its types and its buffer within its capacity.
THEOREM QueueTypeCorrect == Spec => []TypeOK
BY QueueInvariant, PTL DEF QueueInv

\* No worker leaves before the channel is closed and drained (memory.go:90):
\* however many jobs the buffer holds when Stop runs, a worker receives each.
THEOREM QueueLeavesNothingBehind == Spec => []NothingLeftBehind
BY QueueInvariant, PTL DEF QueueInv

\* After close(q.jobs) nothing the queue does can go on for ever: every step
\* lowers the jobs left or what a worker has left to do. (That numbers cannot
\* fall for ever, and that some worker can always step, make StopReturns.)
THEOREM QueueDrains == Spec => StopDrains
<1> DEFINE Nearer ==
      closed =>
        /\ closed'
        /\ \/ Len(jobs') < Len(jobs)
           \/ /\ jobs' = jobs /\ \A w \in Worker : Left(w)' <= Left(w)
              /\ \E w \in Worker : Left(w)' < Left(w)
<1>1. QueueInv /\ [Next]_queueVars => [Nearer]_queueVars
  <2> SUFFICES ASSUME QueueInv, Next, closed, ~UNCHANGED queueVars PROVE Nearer
    OBVIOUS
  <2> USE QueueAssumption DEF Left
  <2>1. /\ jobs \in Seq(Job) /\ state \in [Worker -> WorkerState]
        /\ attempt \in [Worker -> 0 .. MaxRetries]
    BY DEF QueueInv, TypeOK
  <2>2. CASE Start
    <3>1. \A w \in Worker : Left(w) = 3 /\ Left(w)' = 2
      BY <2>2 DEF Start
    <3> QED BY <2>2, <3>1 DEF Start
  <2>3. ~Stop /\ (\A j \in Job : ~Send(j)) /\ ~Stopped
    BY DEF Stop, Send, Stopped
  <2>4. ASSUME NEW w \in Worker, WorkerNext(w) PROVE Nearer
    <3>1. CASE Take(w)
      <4>1. Len(jobs') < Len(jobs) /\ closed'
        BY <2>1, <3>1 DEF Take
      <4> QED BY <4>1
    <3>2. ASSUME ~Take(w)
          PROVE  /\ closed' /\ jobs' = jobs /\ Left(w)' < Left(w)
                 /\ \A v \in Worker \ {w} : state'[v] = state[v] /\ attempt'[v] = attempt[v]
      <4>1. attempt[w] \in Nat /\ attempt[w] <= MaxRetries /\ MaxRetries \in Nat
        BY <2>1
      <4>2. CASE Spawn(w)
        BY <2>1, <4>2 DEF Spawn
      <4>3. CASE Succeed(w) \/ GiveUp(w)
        <5>1. state[w] = "busy" /\ state'[w] = "idle"
          BY <2>1, <4>3 DEF Succeed, GiveUp, Release
        <5>2. Left(w) = 2 + MaxRetries - attempt[w] /\ Left(w)' = 1
          BY <5>1
        <5>3. Left(w)' < Left(w)
          <6> HIDE DEF Left
          <6> QED BY <4>1, <5>2
        <5>4. closed' /\ jobs' = jobs
          BY <4>3 DEF Succeed, GiveUp, Release
        <5>5. \A v \in Worker \ {w} : state'[v] = state[v] /\ attempt'[v] = attempt[v]
          BY <2>1, <4>3 DEF Succeed, GiveUp, Release
        <5> QED BY <5>3, <5>4, <5>5
      <4>4. CASE Retry(w)
        <5>1. state[w] = "busy" /\ state'[w] = "busy" /\ attempt'[w] = attempt[w] + 1
          BY <2>1, <4>4 DEF Retry
        <5>2. Left(w) = 2 + MaxRetries - attempt[w]
              /\ Left(w)' = 2 + MaxRetries - (attempt[w] + 1)
          BY <5>1
        <5> HIDE DEF Left
        <5> QED BY <2>1, <4>1, <4>4, <5>2 DEF Retry
      <4>5. CASE Exit(w)
        BY <2>1, <4>5 DEF Exit
      <4> QED BY <2>4, <3>2, <4>2, <4>3, <4>4, <4>5 DEF WorkerNext
    <3>3. ASSUME ~Take(w), NEW v \in Worker PROVE Left(v)' <= Left(v)
      <4>1. CASE v = w
        <5>1. Left(w) \in Int /\ Left(w)' \in Int
          <6>1. \A x \in Nat : 2 + MaxRetries - x \in Int
            OBVIOUS
          <6>2. attempt[w] \in Nat
            BY <2>1
          <6>3. state[w] \in WorkerState
            BY <2>1
          <6>4. state'[w] \in WorkerState /\ attempt'[w] \in Nat
            BY QueueStepKeepsInv DEF QueueInv, TypeOK
          <6> QED BY <6>1, <6>2, <6>3, <6>4 DEF WorkerState
        <5> HIDE DEF Left
        <5>2. Left(w)' <= Left(w)
          BY <3>2, <3>3, <5>1
        <5> QED BY <4>1, <5>2
      <4>2. CASE v # w
        <5>1. Left(v) = Left(v)'
          BY <3>2, <3>3, <4>2
        <5>2. Left(v) \in Int
          <6>1. attempt[v] \in Nat /\ state[v] \in WorkerState
            BY <2>1
          <6> QED BY <6>1 DEF WorkerState
        <5> HIDE DEF Left
        <5> QED BY <5>1, <5>2
      <4> QED BY <4>1, <4>2
    <3>4. CASE ~Take(w)
      <4> HIDE DEF Left
      <4> QED BY <3>2, <3>3, <3>4
    <3> QED BY <3>1, <3>4
  <2> QED BY <2>2, <2>3, <2>4 DEF Next
<1> QED BY <1>1, QueueInvariant, PTL DEF Spec, StopDrains
=============================================================================
