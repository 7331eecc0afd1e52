---- MODULE PushSenderProofs ----
(***************************************************************************)
(* Proofs about PushSender, for any number of configs, workers, callers of *)
(* Close and any queue size and attempt limit. IInv is inductive; the      *)
(* safety properties of the model follow from it.                          *)
(***************************************************************************)
EXTENDS PushSender, FiniteSetTheorems, SequenceTheorems, TLAPS

\* The goroutines the wait group stands for.
Alive == {w \in Workers : pc[w] # "none"}

\* The job in a worker's hands is a job.
LEMMA FirstJob ==
  ASSUME NEW s \in Seq(Job), s # <<>>
  PROVE  s[1] \in Job /\ s[1].n \in Nat
<1>1. Len(s) \in Nat /\ Len(s) # 0
  OBVIOUS
<1>2. s[1] \in Job
  BY <1>1
<1>3. QED
  BY <1>2 DEF Job

\* IInv holds initially.
LEMMA InitIInv == Init => IInv
<1> SUFFICES ASSUME Init PROVE IInv
  OBVIOUS
<1>1. TypeOK
  <2>1. /\ pc \in [Workers -> WorkerPc]
        /\ queue \in [Workers -> Seq(Job)]
        /\ cur \in [Workers -> Seq(Job)]
    BY DEF Init, WorkerPc
  <2>2. attempt \in [Workers -> 0..MaxAttempts]
    BY BoundsAssumption DEF Init
  <2>3. QED
    BY <2>1, <2>2 DEF Init, TypeOK
<1>2. WorkerShape /\ Registration /\ ChannelsFollowSender /\ Closing /\ NoPanic
  BY DEF Init, WorkerShape, Registration, ChannelsFollowSender, Closing, NoPanic,
         Running, Delivering, Retiring
<1>3. WaitGroupCounts
  <2>1. Alive = {}
    BY DEF Init, Alive
  <2>2. QED
    BY <2>1, FS_EmptySet DEF Init, WaitGroupCounts, Alive
<1>4. QED
  BY <1>1, <1>2, <1>3 DEF IInv

\* A step in which no goroutine starts or ends keeps the wait group in step.
LEMMA SameAlive ==
  ASSUME WaitGroupCounts, UNCHANGED wg, Alive' = Alive
  PROVE  WaitGroupCounts'
BY DEF WaitGroupCounts, Alive

\* SendPush on a closed sender, or of an event that cannot be encoded.
LEMMA SendPushRefusedIInv ==
  ASSUME IInv, NEW k \in Configs, SendPushRefused(k)
  PROVE  IInv'
BY DEF IInv, TypeOK, WorkerShape, Registration, ChannelsFollowSender, WaitGroupCounts,
       Closing, NoPanic, Running, SendPushRefused, NextEvent, CountFailed,
       senderVars, workerVars

\* SendPush under the lock: reuse or spawn the worker, then offer the job.
LEMMA SendPushIInv ==
  ASSUME IInv, NEW k \in Configs, NEW terminal \in BOOLEAN, SendPush(k, terminal)
  PROVE  IInv'
<1> DEFINE job == [n |-> sent[k] + 1, terminal |-> terminal]
<1>0. TypeOK /\ ~closed
  BY DEF IInv, SendPush
<1>1. PICK w \in Workers : WorkerFor(k, w) /\ EnsureWorker(k, w) /\ Offer(k, w, job)
  BY DEF SendPush
<1>job. job \in Job /\ job.n = sent[k] + 1
  BY <1>0 DEF TypeOK, Job
<1>open. ~chClosed[w]
  BY <1>0, <1>1 DEF IInv, WorkerFor, WorkerShape, Registration, ChannelsFollowSender, TypeOK
<1>2. TypeOK'
  <2>0. sent[k] + 1 \in Nat /\ queue[w] \in Seq(Job)
    BY <1>0 DEF TypeOK
  <2> HIDE DEF job
  <2>1. queue' \in [Workers -> Seq(Job)]
    <3>1. Append(queue[w], job) \in Seq(Job)
      BY <2>0, <1>job
    <3>2. queue' = queue \/ queue' = [queue EXCEPT ![w] = Append(queue[w], job)]
      BY <1>1 DEF Offer
    <3>3. QED
      BY <3>1, <3>2, <1>0 DEF TypeOK
  <2>2. sent' \in [Configs -> Nat] /\ delivered' \in [Configs -> SUBSET Nat]
        /\ failed' \in [Configs -> SUBSET Nat]
    <3>1. sent' \in [Configs -> Nat]
      BY <1>0 DEF TypeOK, SendPush, NextEvent
    <3>2. failed' = failed \/ failed' = [failed EXCEPT ![k] = failed[k] \cup {job.n}]
      BY <1>1 DEF Offer, CountFailed
    <3>3. delivered' = delivered
      BY <1>1 DEF Offer, CountFailed
    <3>4. failed' \in [Configs -> SUBSET Nat]
      <4>1. job.n \in Nat
        BY <2>0, <1>job
      <4>2. failed \in [Configs -> SUBSET Nat]
        BY <1>0 DEF TypeOK
      <4>3. QED
        BY <3>2, <4>1, <4>2
    <3>5. QED
      BY <3>1, <3>3, <3>4, <1>0 DEF TypeOK
  <2>3. workers' \in [Configs -> Workers \cup {NoWorker}] /\ wg' \in Nat
        /\ pc' \in [Workers -> WorkerPc] /\ key' \in [Workers -> Configs]
    <3>1. CASE workers[k] = NoWorker
      <4>1. /\ workers' = [workers EXCEPT ![k] = w] /\ wg' = wg + 1
            /\ pc' = [pc EXCEPT ![w] = "select"] /\ key' = [key EXCEPT ![w] = k]
        BY <3>1, <1>1 DEF EnsureWorker
      <4>2. pc' \in [Workers -> WorkerPc]
        BY <4>1, <1>0 DEF TypeOK, WorkerPc
      <4>3. QED
        BY <4>1, <4>2, <1>0 DEF TypeOK
    <3>2. CASE workers[k] # NoWorker
      BY <3>2, <1>0, <1>1 DEF TypeOK, EnsureWorker
    <3>3. QED
      BY <3>1, <3>2
  <2>4. panicked' \in BOOLEAN
    BY <1>0, <1>1 DEF TypeOK, Offer
  <2>5. QED
    BY <2>1, <2>2, <2>3, <2>4, <1>0 DEF TypeOK, SendPush
<1>3. NoPanic'
  BY <1>1, <1>open DEF IInv, NoPanic, Offer
<1>4. \A v \in Workers : v # w => pc'[v] = pc[v] /\ key'[v] = key[v] /\ queue'[v] = queue[v]
  BY <1>0, <1>1 DEF TypeOK, EnsureWorker, Offer
<1>5. /\ pc[w] = "none" => pc'[w] = "select"
      /\ pc[w] # "none" => pc'[w] = pc[w]
      /\ key'[w] = k /\ workers'[k] = w
      /\ \A j \in Configs : j # k => workers'[j] = workers[j]
      /\ pc[w] = "none" \/ Running(w)
      /\ pc[w] = "none" => workers[k] = NoWorker
  BY <1>0, <1>1, WorkersAssumption DEF IInv, TypeOK, EnsureWorker, WorkerFor, Registration, Running
<1>5a. Running(w)'
  BY <1>5 DEF Running
<1>5b. \A v \in Workers : v # w => (Running(v)' <=> Running(v))
  BY <1>4 DEF Running
<1>6. WorkerShape'
  <2> SUFFICES ASSUME NEW v \in Workers
               PROVE  /\ (pc[v] \in Delivering <=> cur[v] # <<>>)'
                      /\ (Len(cur[v]) <= 1)'
                      /\ (pc[v] = "backoff" => attempt[v] < MaxAttempts)'
                      /\ (pc[v] = "drained" => queue[v] = <<>> /\ chClosed[v])'
                      /\ (pc[v] = "none" => ~chClosed[v])'
                      /\ (~Running(v) => queue[v] = <<>>)'
    BY DEF WorkerShape
  <2>1. cur' = cur /\ attempt' = attempt /\ chClosed' = chClosed
    BY DEF SendPush
  <2>2. CASE v # w
    BY <2>1, <2>2, <1>4, <1>5b DEF IInv, WorkerShape
  <2>3. CASE v = w
    <3>1. pc[w] # "drained"
      BY <1>open, <1>0, <1>5 DEF IInv, WorkerShape, ChannelsFollowSender, Running
    <3>2. QED
      BY <2>1, <2>3, <1>5, <1>5a, <3>1 DEF IInv, WorkerShape, Delivering
  <2>4. QED
    BY <2>2, <2>3
<1>7. Registration'
  <2>1. ASSUME NEW j \in Configs, workers'[j] # NoWorker
        PROVE  Running(workers[j])' /\ key'[workers'[j]] = j
    <3>1. CASE j = k
      BY <3>1, <1>5, <1>5a
    <3>2. CASE j # k
      <4>1. workers[j] \in Workers /\ Running(workers[j]) /\ key[workers[j]] = j
        BY <3>2, <2>1, <1>5, <1>0 DEF IInv, Registration, TypeOK
      <4>2. workers[j] # w
        BY <4>1, <3>2, <1>1, <1>0 DEF WorkerFor, IInv, Registration, Running, TypeOK
      <4>3. QED
        BY <4>1, <4>2, <3>2, <1>4, <1>5, <1>5b DEF Running
    <3>3. QED
      BY <3>1, <3>2
  <2>2. ASSUME NEW v \in Workers, Running(v)'
        PROVE  workers'[key'[v]] = v
    <3>1. CASE v = w
      BY <3>1, <1>5
    <3>2. CASE v # w
      <4>1. workers[key[v]] = v /\ key[v] \in Configs
        BY <3>2, <2>2, <1>5b, <1>0 DEF IInv, Registration, TypeOK
      <4>2. key[v] # k
        BY <4>1, <3>2, <1>1, WorkersAssumption DEF WorkerFor
      <4>3. QED
        BY <4>1, <4>2, <3>2, <1>4, <1>5
    <3>3. QED
      BY <3>1, <3>2
  <2>3. QED
    BY <2>1, <2>2 DEF Registration
<1>8. ChannelsFollowSender'
  <2>1. chClosed' = chClosed /\ closed' = closed
    BY DEF SendPush
  <2>2. QED
    BY <2>1, <1>0, <1>open, <1>5b DEF IInv, ChannelsFollowSender, TypeOK
<1>9. WaitGroupCounts'
  <2>1. CASE pc[w] = "none"
    <3>1. Alive' = Alive \cup {w} /\ w \notin Alive
      BY <2>1, <1>4, <1>5 DEF Alive
    <3>2. IsFiniteSet(Alive)
      BY WorkersAssumption, FS_Subset DEF Alive
    <3>3. wg' = wg + 1
      BY <2>1, <1>1, <1>5 DEF EnsureWorker
    <3>4. QED
      BY <3>1, <3>2, <3>3, FS_AddElement DEF IInv, WaitGroupCounts, Alive
  <2>2. CASE pc[w] # "none"
    <3>1. Alive' = Alive
      BY <2>2, <1>4, <1>5 DEF Alive
    <3>2. wg' = wg
      BY <2>2, <1>1 DEF EnsureWorker, WorkerFor
    <3>3. QED
      BY <3>1, <3>2, SameAlive DEF IInv
  <2>3. QED
    BY <2>1, <2>2
<1>10. Closing'
  BY <1>0 DEF IInv, Closing, SendPush
<1>11. QED
  BY <1>2, <1>3, <1>6, <1>7, <1>8, <1>9, <1>10 DEF IInv

\* A worker that stays in its loop and leaves the map, the channels' state and
\* the wait group alone keeps the global part of the invariant.
LEMMA WorkerMoves ==
  ASSUME IInv, NEW w \in Workers, Running(w),
         NEW x \in WorkerPc \ {"none", "exit"}, pc' = [pc EXCEPT ![w] = x],
         UNCHANGED <<senderVars, key, chClosed>>
  PROVE  Registration' /\ ChannelsFollowSender' /\ WaitGroupCounts' /\ Closing' /\ NoPanic'
<1>0. TypeOK /\ UNCHANGED <<closed, workers, wg, panicked, closePc, key, chClosed>>
  BY DEF IInv, senderVars
<1>1. /\ pc'[w] = x /\ pc[w] # "none"
      /\ \A v \in Workers : v # w => pc'[v] = pc[v]
  BY <1>0 DEF TypeOK, Running
<1>2. \A v \in Workers : Running(v)' <=> Running(v)
  BY <1>1 DEF Running
<1>3. Registration'
  BY <1>0, <1>2 DEF IInv, Registration, TypeOK, Running
<1>4. ChannelsFollowSender'
  BY <1>0, <1>2 DEF IInv, ChannelsFollowSender
<1>5. WaitGroupCounts'
  <2>1. Alive' = Alive
    BY <1>1 DEF Alive
  <2>2. QED
    BY <1>0, <2>1, SameAlive DEF IInv
<1>6. Closing' /\ NoPanic'
  BY <1>0, <1>1 DEF IInv, Closing, NoPanic
<1>7. QED
  BY <1>3, <1>4, <1>5, <1>6

\* The worker takes a job from its channel.
LEMMA ReceiveIInv ==
  ASSUME IInv, NEW w \in Workers, Receive(w)
  PROVE  IInv'
<1>0. TypeOK /\ Running(w)
  BY DEF IInv, Receive, Running
<1>1. TypeOK'
  <2>1. Head(queue[w]) \in Job /\ Tail(queue[w]) \in Seq(Job)
    BY <1>0 DEF TypeOK, Receive
  <2>2. QED
    BY <1>0, <2>1, BoundsAssumption
    DEF TypeOK, Receive, senderVars, history, WorkerPc, Delivering
<1>2. WorkerShape'
  BY <1>0 DEF IInv, TypeOK, WorkerShape, Receive, Running, Delivering
<1>3. Registration' /\ ChannelsFollowSender' /\ WaitGroupCounts' /\ Closing' /\ NoPanic'
  BY <1>0, WorkerMoves DEF Receive, WorkerPc, Delivering
<1>4. QED
  BY <1>1, <1>2, <1>3 DEF IInv

\* The worker finds its channel closed and drained, or its idle timer fired.
LEMMA WakeIInv ==
  ASSUME IInv, NEW w \in Workers, ReceiveClosed(w) \/ IdleFires(w)
  PROVE  IInv'
<1>0. TypeOK /\ Running(w)
  BY DEF IInv, ReceiveClosed, IdleFires, Running
<1>1. PICK x \in {"drained", "idle"} :
        /\ pc' = [pc EXCEPT ![w] = x]
        /\ pc[w] = "select"
        /\ x = "drained" => queue[w] = <<>> /\ chClosed[w]
        /\ UNCHANGED <<senderVars, key, queue, chClosed, cur, attempt, history>>
  BY DEF ReceiveClosed, IdleFires
<1>2. TypeOK'
  BY <1>0, <1>1 DEF TypeOK, senderVars, history, WorkerPc, Retiring
<1>3. WorkerShape'
  BY <1>0, <1>1 DEF IInv, TypeOK, WorkerShape, Running, Delivering
<1>4. Registration' /\ ChannelsFollowSender' /\ WaitGroupCounts' /\ Closing' /\ NoPanic'
  BY <1>0, <1>1, WorkerMoves DEF WorkerPc, Retiring
<1>5. QED
  BY <1>2, <1>3, <1>4 DEF IInv

\* The request leaves, the attempt fails retryably, or the delay is over: the
\* job stays in the worker's hands.
LEMMA AttemptIInv ==
  ASSUME IInv, NEW w \in Workers,
         \/ StartPost(w)
         \/ BackoffElapsed(w)
         \/ \E retryable \in BOOLEAN : PostFailed(w, retryable) /\ TryAgain(w, retryable)
  PROVE  IInv'
<1>0. TypeOK /\ Running(w) /\ pc[w] \in Delivering /\ cur[w] # <<>>
  BY DEF IInv, WorkerShape, StartPost, BackoffElapsed, PostFailed, Running, Delivering
<1>job. cur[w][1] \in Job /\ cur[w][1].n \in Nat
  BY <1>0, FirstJob DEF TypeOK
<1>1. PICK x \in Delivering :
        /\ pc' = [pc EXCEPT ![w] = x]
        /\ x = "backoff" => attempt[w] < MaxAttempts /\ attempt' = attempt
        /\ UNCHANGED <<senderVars, key, queue, chClosed, cur, sent, delivered, failed>>
  BY DEF StartPost, BackoffElapsed, PostFailed, TryAgain, Delivering, history
<1>2. attempt' \in [Workers -> 0..MaxAttempts]
      /\ \A v \in Workers : v # w => attempt'[v] = attempt[v]
  <2>1. CASE BackoffElapsed(w)
    <3>1. attempt[w] \in Nat /\ attempt[w] < MaxAttempts
      BY <2>1, <1>0, BoundsAssumption DEF IInv, TypeOK, WorkerShape, BackoffElapsed
    <3>2. attempt[w] + 1 \in 0..MaxAttempts
      BY <3>1, BoundsAssumption
    <3>3. QED
      BY <2>1, <3>2, <1>0 DEF TypeOK, BackoffElapsed
  <2>2. CASE attempt' = attempt
    BY <2>2, <1>0 DEF TypeOK
  <2>3. QED
    BY <2>1, <2>2 DEF StartPost, PostFailed, TryAgain
<1>3. posted' \in [Configs -> Nat]
  BY <1>0, <1>job DEF TypeOK, StartPost, BackoffElapsed, PostFailed, TryAgain, history
<1>4. TypeOK'
  BY <1>0, <1>1, <1>2, <1>3 DEF TypeOK, senderVars, WorkerPc, Delivering
<1>5. WorkerShape'
  <2>1. /\ pc'[w] = x
        /\ \A v \in Workers : v # w => pc'[v] = pc[v]
    BY <1>0, <1>1 DEF TypeOK
  <2>2. QED
    BY <1>0, <1>1, <1>2, <2>1 DEF IInv, WorkerShape, Running, Delivering
<1>6. Registration' /\ ChannelsFollowSender' /\ WaitGroupCounts' /\ Closing' /\ NoPanic'
  BY <1>0, <1>1, WorkerMoves DEF WorkerPc, Delivering
<1>7. QED
  BY <1>4, <1>5, <1>6 DEF IInv

\* The job is settled: accepted by the webhook, failed for good or aborted.
LEMMA FinishIInv ==
  ASSUME IInv, NEW w \in Workers, pc[w] \in Delivering, FinishJob(w),
         \/ CountFailed(key[w], cur[w][1].n)
         \/ CountDelivered(key[w], cur[w][1].n)
  PROVE  IInv'
<1>0. TypeOK /\ Running(w) /\ cur[w] # <<>>
  BY DEF IInv, WorkerShape, Running, Delivering
<1>job. cur[w][1] \in Job /\ cur[w][1].n \in Nat
  BY <1>0, FirstJob DEF TypeOK
<1>1. PICK x \in {"terminal", "select"} : pc' = [pc EXCEPT ![w] = x]
  BY DEF FinishJob
<1>2. TypeOK'
  <2>1. delivered' \in [Configs -> SUBSET Nat] /\ failed' \in [Configs -> SUBSET Nat]
    <3>1. key[w] \in Configs
      BY <1>0 DEF TypeOK
    <3>2. CASE CountFailed(key[w], cur[w][1].n)
      BY <3>1, <3>2, <1>0, <1>job DEF TypeOK, CountFailed
    <3>3. CASE CountDelivered(key[w], cur[w][1].n)
      BY <3>1, <3>3, <1>0, <1>job DEF TypeOK, CountDelivered
    <3>4. QED
      BY <3>2, <3>3
  <2>2. QED
    BY <1>0, <1>1, <2>1, BoundsAssumption DEF TypeOK, FinishJob, senderVars, WorkerPc, Retiring
<1>3. WorkerShape'
  BY <1>0, <1>1 DEF IInv, TypeOK, WorkerShape, FinishJob, Running, Delivering
<1>4. Registration' /\ ChannelsFollowSender' /\ WaitGroupCounts' /\ Closing' /\ NoPanic'
  BY <1>0, <1>1, WorkerMoves DEF FinishJob, WorkerPc, Retiring
<1>5. QED
  BY <1>2, <1>3, <1>4 DEF IInv

\* The worker calls retire: it leaves its loop, or goes on for a queued job.
LEMMA RetireIInv ==
  ASSUME IInv, NEW w \in Workers, Retire(w)
  PROVE  IInv'
<1>0. /\ TypeOK /\ Running(w) /\ workers[key[w]] = w /\ key[w] \in Configs
      /\ pc[w] \notin Delivering
      /\ UNCHANGED <<closed, cancelled, wg, panicked, closePc,
                     key, queue, chClosed, cur, attempt, history>>
  BY DEF IInv, TypeOK, Registration, Retire, Retiring, Running, Delivering
<1>1. CASE queue[w] # <<>>
  <2>1. pc' = [pc EXCEPT ![w] = "select"] /\ UNCHANGED workers
    BY <1>1, <1>0 DEF IInv, TypeOK, WorkerShape, Retire, CanRetire
  <2>2. TypeOK'
    BY <1>0, <2>1 DEF TypeOK, history, WorkerPc
  <2>3. WorkerShape'
    BY <1>0, <2>1 DEF IInv, TypeOK, WorkerShape, Running, Delivering
  <2>4. Registration' /\ ChannelsFollowSender' /\ WaitGroupCounts' /\ Closing' /\ NoPanic'
    BY <1>0, <2>1, WorkerMoves DEF WorkerPc, senderVars
  <2>5. QED
    BY <2>2, <2>3, <2>4 DEF IInv
<1>2. CASE queue[w] = <<>>
  <2>1. /\ pc' = [pc EXCEPT ![w] = "exit"]
        /\ workers' = [workers EXCEPT ![key[w]] = NoWorker]
    BY <1>2, <1>0 DEF Retire, CanRetire
  <2>2. TypeOK'
    BY <1>0, <2>1 DEF TypeOK, history, WorkerPc
  <2>3. WorkerShape'
    BY <1>0, <1>2, <2>1 DEF IInv, TypeOK, WorkerShape, Running, Delivering
  <2>4. /\ pc'[w] = "exit" /\ pc[w] # "none" /\ ~Running(w)'
        /\ \A v \in Workers : v # w => pc'[v] = pc[v] /\ (Running(v)' <=> Running(v))
        /\ workers'[key[w]] = NoWorker
        /\ \A j \in Configs : j # key[w] => workers'[j] = workers[j]
    BY <1>0, <2>1 DEF TypeOK, Running
  <2>5. Registration'
    <3>1. ASSUME NEW j \in Configs, workers'[j] # NoWorker
          PROVE  Running(workers[j])' /\ key'[workers'[j]] = j
      <4>1. j # key[w] /\ workers'[j] = workers[j] /\ workers[j] \in Workers
        BY <3>1, <2>4, <1>0 DEF TypeOK
      <4>2. Running(workers[j]) /\ key[workers[j]] = j
        BY <3>1, <4>1 DEF IInv, Registration
      <4>3. workers[j] # w
        BY <4>1, <4>2
      <4>4. QED
        BY <4>1, <4>2, <4>3, <2>4, <1>0 DEF Running
    <3>2. ASSUME NEW v \in Workers, Running(v)'
          PROVE  workers'[key'[v]] = v
      <4>1. v # w /\ workers[key[v]] = v /\ key[v] \in Configs
        BY <3>2, <2>4, <1>0 DEF IInv, Registration, TypeOK
      <4>2. key[v] # key[w]
        BY <4>1, <1>0
      <4>3. QED
        BY <4>1, <4>2, <2>4, <1>0
    <3>3. QED
      BY <3>1, <3>2 DEF Registration
  <2>6. ChannelsFollowSender'
    BY <1>0, <2>4 DEF IInv, ChannelsFollowSender
  <2>7. WaitGroupCounts'
    <3>1. Alive' = Alive
      BY <2>4 DEF Alive
    <3>2. QED
      BY <1>0, <3>1, SameAlive DEF IInv
  <2>8. Closing' /\ NoPanic'
    BY <1>0, <2>4 DEF IInv, Closing, NoPanic, Running
  <2>9. QED
    BY <2>2, <2>3, <2>5, <2>6, <2>7, <2>8 DEF IInv
<1>3. QED
  BY <1>1, <1>2

\* The goroutine ends: wg.Done.
LEMMA ExitIInv ==
  ASSUME IInv, NEW w \in Workers, Exit(w)
  PROVE  IInv'
<1>0. /\ TypeOK /\ pc[w] = "exit" /\ queue[w] = <<>> /\ cur[w] = <<>>
      /\ UNCHANGED <<closed, workers, cancelled, panicked, closePc, key, cur, attempt, history>>
  BY DEF IInv, WorkerShape, Exit, Running, Delivering
<1>1. /\ pc'[w] = "none" /\ ~Running(w)' /\ ~chClosed'[w] /\ queue' = queue
      /\ \A v \in Workers : v # w => /\ pc'[v] = pc[v] /\ (Running(v)' <=> Running(v))
                                      /\ chClosed'[v] = chClosed[v]
  BY <1>0 DEF TypeOK, Exit, Running
<1>2. IsFiniteSet(Alive) /\ w \in Alive /\ Alive' = Alive \ {w}
  <2>1. IsFiniteSet(Alive)
    BY WorkersAssumption, FS_Subset DEF Alive
  <2>2. QED
    BY <2>1, <1>0, <1>1 DEF Alive
<1>3. wg' \in Nat /\ WaitGroupCounts'
  <2>1. wg = Cardinality(Alive) /\ wg' = wg - 1
    BY DEF IInv, WaitGroupCounts, Alive, Exit
  <2>2. Cardinality(Alive') = wg - 1
    BY <1>2, <2>1, FS_RemoveElement
  <2>3. IsFiniteSet(Alive') /\ Cardinality(Alive') \in Nat
    BY <1>2, FS_RemoveElement, FS_CardinalityType
  <2>4. QED
    BY <2>1, <2>2, <2>3 DEF WaitGroupCounts, Alive
<1>4. TypeOK'
  BY <1>0, <1>1, <1>3 DEF TypeOK, Exit, history, WorkerPc
<1>5. WorkerShape'
  BY <1>0, <1>1 DEF IInv, WorkerShape, Delivering
<1>6. Registration' /\ ChannelsFollowSender'
  <2>1. ~Running(w)
    BY <1>0 DEF Running
  <2>2. \A j \in Configs : workers[j] # NoWorker => workers[j] \in Workers
    BY <1>0 DEF TypeOK
  <2>3. Registration'
    BY <1>0, <1>1, <2>1, <2>2 DEF IInv, Registration, Running
  <2>4. ChannelsFollowSender'
    BY <1>0, <1>1, <2>1 DEF IInv, ChannelsFollowSender
  <2>5. QED
    BY <2>3, <2>4
<1>7. Closing' /\ NoPanic'
  BY <1>0, <1>1 DEF IInv, Closing, NoPanic
<1>8. QED
  BY <1>3, <1>4, <1>5, <1>6, <1>7 DEF IInv

\* Close, first part: mark the sender closed and close the channels, once.
LEMMA CloseBeginIInv ==
  ASSUME IInv, NEW c \in Closers, CloseBegin(c)
  PROVE  IInv'
<1>0. /\ TypeOK
      /\ closed' = TRUE
      /\ UNCHANGED <<workers, cancelled, wg, pc, key, queue, cur, attempt, history>>
  BY DEF IInv, TypeOK, CloseBegin
<1>1. \A w \in Workers : Running(w) <=> Registered(w)
  BY <1>0, WorkersAssumption DEF IInv, TypeOK, Registration, Registered
<1>2. /\ chClosed' \in [Workers -> BOOLEAN]
      /\ \A w \in Workers : Running(w) => chClosed'[w] = TRUE
      /\ \A w \in Workers : ~Running(w) => chClosed'[w] = chClosed[w]
  <2>1. CASE closed
    BY <2>1, <1>0 DEF IInv, TypeOK, CloseBegin, ChannelsFollowSender
  <2>2. CASE ~closed
    BY <2>2, <1>0, <1>1 DEF IInv, TypeOK, CloseBegin, ChannelsFollowSender
  <2>3. QED
    BY <2>1, <2>2
<1>3. panicked' = FALSE
  <2>1. CASE closed
    BY <2>1 DEF IInv, NoPanic, TypeOK, CloseBegin
  <2>2. CASE ~closed
    <3>1. \A w \in Workers : ~(chClosed[w] /\ Registered(w))
      BY <2>2, <1>1 DEF IInv, ChannelsFollowSender
    <3>2. QED
      BY <2>2, <3>1 DEF IInv, NoPanic, TypeOK, CloseBegin
  <2>3. QED
    BY <2>1, <2>2
<1>4. closePc' = [closePc EXCEPT ![c] = "wait"]
  BY DEF CloseBegin
<1>5. TypeOK'
  BY <1>0, <1>2, <1>3, <1>4 DEF TypeOK, history
<1>6. WorkerShape' /\ Registration' /\ ChannelsFollowSender' /\ WaitGroupCounts' /\ NoPanic'
  <2>1. \A w \in Workers : Running(w)' <=> Running(w)
    BY <1>0 DEF Running
  <2>2. WorkerShape'
    BY <1>0, <1>2, <2>1 DEF IInv, WorkerShape, Running
  <2>3. Registration'
    BY <1>0 DEF IInv, Registration, Running
  <2>4. ChannelsFollowSender'
    BY <1>0, <1>2, <2>1 DEF ChannelsFollowSender
  <2>5. WaitGroupCounts' /\ NoPanic'
    BY <1>0, <1>3 DEF IInv, WaitGroupCounts, NoPanic
  <2>6. QED
    BY <2>2, <2>3, <2>4, <2>5
<1>7. Closing'
  BY <1>0, <1>4 DEF IInv, TypeOK, Closing
<1>8. QED
  BY <1>5, <1>6, <1>7 DEF IInv

\* Close, second part: wait for the workers, or cancel them and then wait.
LEMMA CloseEndIInv ==
  ASSUME IInv, NEW c \in Closers, CloseDrained(c) \/ CloseTimesOut(c) \/ CloseAborted(c)
  PROVE  IInv'
<1>0. /\ TypeOK /\ closePc[c] # "idle"
      /\ UNCHANGED <<closed, workers, wg, panicked, workerVars, history>>
  BY DEF IInv, CloseDrained, CloseTimesOut, CloseAborted
<1>1. PICK x \in {"abort", "returned"} :
        closePc' = [closePc EXCEPT ![c] = x] /\ (x = "returned" => wg = 0)
  BY DEF CloseDrained, CloseTimesOut, CloseAborted
<1>2. x = "returned" => \A w \in Workers : pc[w] = "none"
  <2>1. IsFiniteSet(Alive) /\ wg = Cardinality(Alive)
    BY WorkersAssumption, FS_Subset DEF IInv, WaitGroupCounts, Alive
  <2>2. QED
    BY <1>1, <2>1, FS_EmptySet DEF Alive
<1>3. cancelled' \in BOOLEAN
  BY <1>0 DEF TypeOK, CloseDrained, CloseTimesOut, CloseAborted
<1>4. TypeOK'
  BY <1>0, <1>1, <1>3 DEF TypeOK, workerVars, history
<1>5. WorkerShape' /\ Registration' /\ ChannelsFollowSender' /\ WaitGroupCounts' /\ NoPanic'
  BY <1>0 DEF IInv, WorkerShape, Registration, ChannelsFollowSender, WaitGroupCounts, NoPanic,
              Running, workerVars
<1>6. Closing'
  BY <1>0, <1>1, <1>2 DEF IInv, TypeOK, Closing, workerVars
<1>7. QED
  BY <1>4, <1>5, <1>6 DEF IInv

\* IInv is inductive.
LEMMA NextIInv == IInv /\ [Next]_vars => IInv'
<1> SUFFICES ASSUME IInv, [Next]_vars PROVE IInv'
  OBVIOUS
<1>1. ASSUME NEW k \in Configs, SendPushRefused(k) PROVE IInv'
  BY <1>1, SendPushRefusedIInv
<1>2. ASSUME NEW k \in Configs, NEW terminal \in BOOLEAN, SendPush(k, terminal) PROVE IInv'
  BY <1>2, SendPushIInv
<1>3. ASSUME NEW w \in Workers, Receive(w) \/ IdleFires(w) \/ ReceiveClosed(w) PROVE IInv'
  BY <1>3, ReceiveIInv, WakeIInv
<1>4. ASSUME NEW w \in Workers, Retire(w) \/ Exit(w) PROVE IInv'
  BY <1>4, RetireIInv, ExitIInv
<1>5. ASSUME NEW w \in Workers, StartPost(w) \/ BackoffElapsed(w) PROVE IInv'
  BY <1>5, AttemptIInv
<1>6. ASSUME NEW w \in Workers, PostRefused(w) \/ PostAccepted(w) \/ BackoffAborted(w) PROVE IInv'
  BY <1>6, FinishIInv DEF PostRefused, PostAccepted, BackoffAborted, JobFailed, Delivering
<1>7. ASSUME NEW w \in Workers, NEW retryable \in BOOLEAN, PostFailed(w, retryable) PROVE IInv'
  <2>1. CASE TryAgain(w, retryable)
    BY <1>7, <2>1, AttemptIInv
  <2>2. CASE ~TryAgain(w, retryable)
    BY <1>7, <2>2, FinishIInv DEF PostFailed, JobFailed, Delivering
  <2>3. QED
    BY <2>1, <2>2
<1>8. ASSUME NEW c \in Closers,
             CloseBegin(c) \/ CloseDrained(c) \/ CloseTimesOut(c) \/ CloseAborted(c)
      PROVE IInv'
  BY <1>8, CloseBeginIInv, CloseEndIInv
<1>9. ASSUME UNCHANGED vars PROVE IInv'
  BY <1>9 DEF IInv, TypeOK, WorkerShape, Registration, ChannelsFollowSender, WaitGroupCounts,
              Closing, NoPanic, Running, vars, senderVars, workerVars, history
<1>10. QED
  BY <1>1, <1>2, <1>3, <1>4, <1>5, <1>6, <1>7, <1>8, <1>9 DEF Next, Progress

\* The worker map, the wait group and the channels of push.go agree in every
\* reachable state: IInv is an invariant of the sender.
THEOREM SenderInvariant == Spec => []IInv
BY InitIInv, NextIInv, PTL DEF Spec

\* The types of the sender's state, among them attempt <= MaxAttempts: deliver
\* never makes more than pushMaxAttempts attempts for an event.
THEOREM TypeCorrect == Spec => []TypeOK
<1>1. IInv => TypeOK
  BY DEF IInv
<1>2. QED
  BY <1>1, SenderInvariant, PTL

\* The comment of SendPush for any number of configs and workers: a queued job
\* is never left without a worker.
THEOREM NeverOrphaned == Spec => []NoOrphanedJob
<1>1. IInv => NoOrphanedJob
  BY DEF IInv, NoOrphanedJob, WorkerShape, Registration
<1>2. QED
  BY <1>1, SenderInvariant, PTL

\* No two goroutines deliver for the same config.
THEOREM SingleDeliverer == Spec => []OneDeliverer
<1>1. IInv => OneDeliverer
  BY DEF IInv, OneDeliverer, Registration
<1>2. QED
  BY <1>1, SenderInvariant, PTL

\* SendPush never sends on a closed channel and Close never closes one twice,
\* however many Close calls there are.
THEOREM NeverPanics == Spec => []NoPanic
<1>1. IInv => NoPanic
  BY DEF IInv
<1>2. QED
  BY <1>1, SenderInvariant, PTL

-----------------------------------------------------------------------------
(* What a worker holds *)

\* The numbers of the jobs in a channel.
Numbers(q) == [i \in 1..Len(q) |-> q[i].n]

LEMMA JobNumbers ==
  ASSUME NEW q \in Seq(Job)
  PROVE  /\ Numbers(q) \in Seq(Nat) /\ Len(Numbers(q)) = Len(q) /\ Len(q) \in Nat
         /\ \A i \in 1..Len(q) : q[i] \in Job /\ Numbers(q)[i] = q[i].n /\ q[i].n \in Nat
<1>1. \A i \in 1..Len(q) : q[i] \in Job
  OBVIOUS
<1>2. \A i \in 1..Len(q) : q[i].n \in Nat
  BY <1>1 DEF Job
<1>3. QED
  BY <1>1, <1>2 DEF Numbers

\* A list that is not empty and has at most one element has one.
LEMMA JustOne ==
  ASSUME NEW S, NEW c \in Seq(S), Len(c) <= 1, c # <<>>
  PROVE  Len(c) = 1
<1>1. Len(c) \in Nat /\ Len(c) # 0
  OBVIOUS
<1>2. \A n \in Nat : n # 0 /\ n <= 1 => n = 1
  OBVIOUS
<1>3. QED
  BY <1>1, <1>2, Zenon

\* One element in front of a list.
LEMMA OneBefore ==
  ASSUME NEW S, NEW c \in Seq(S), Len(c) = 1, NEW q \in Seq(S)
  PROVE  /\ c \o q \in Seq(S) /\ Len(c \o q) = 1 + Len(q)
         /\ (c \o q)[1] = c[1]
         /\ \A i \in 1..Len(q) : (c \o q)[1 + i] = q[i]
<1>1. Len(q) \in Nat /\ c \o q \in Seq(S)
  OBVIOUS
<1>2. Len(c \o q) = 1 + Len(q)
  BY ConcatProperties
<1>3. \A i \in 1..(Len(c) + Len(q)) : (c \o q)[i] = IF i <= Len(c) THEN c[i] ELSE q[i - Len(c)]
  BY ConcatProperties
<1>4. QED
  BY <1>1, <1>2, <1>3

\* What is in hand comes first.
LEMMA NumbersOfConcat ==
  ASSUME NEW c \in Seq(Job), Len(c) <= 1, NEW q \in Seq(Job)
  PROVE  Numbers(c \o q) = IF c = <<>> THEN Numbers(q) ELSE <<c[1].n>> \o Numbers(q)
<1>1. CASE c = <<>>
  BY <1>1, ConcatEmptySeq
<1>2. CASE c # <<>>
  <2>1. Len(c) = 1 /\ c[1].n \in Nat /\ Len(q) \in Nat
    BY <1>2, JustOne, FirstJob
  <2> DEFINE all == c \o q
             one == <<c[1].n>>
             new == one \o Numbers(q)
  <2>2. /\ all \in Seq(Job) /\ Len(all) = 1 + Len(q) /\ all[1] = c[1]
        /\ \A i \in 1..Len(q) : all[1 + i] = q[i]
    BY <2>1, OneBefore
  <2>3. one \in Seq(Nat) /\ Len(one) = 1 /\ one[1] = c[1].n
    BY <2>1
  <2>4. Numbers(q) \in Seq(Nat) /\ Len(Numbers(q)) = Len(q)
    BY JobNumbers
  <2>5. /\ new \in Seq(Nat) /\ Len(new) = 1 + Len(q) /\ new[1] = one[1]
        /\ \A i \in 1..Len(q) : new[1 + i] = Numbers(q)[i]
    <3> HIDE DEF one
    <3>1. QED
      BY <2>3, <2>4, OneBefore
  <2> HIDE DEF all, one, new
  <2>6. /\ Numbers(all) \in Seq(Nat) /\ Len(Numbers(all)) = 1 + Len(q)
        /\ \A i \in 1..(1 + Len(q)) : Numbers(all)[i] = all[i].n
    BY <2>2, JobNumbers
  <2>7. ASSUME NEW i \in 1..Len(q)
        PROVE  Numbers(all)[1 + i] = new[1 + i]
    <3>1. 1 + i \in 1..(1 + Len(q))
      BY <2>1
    <3>2. Numbers(all)[1 + i] = all[1 + i].n /\ all[1 + i] = q[i]
      BY <2>2, <2>6, <3>1
    <3>3. new[1 + i] = Numbers(q)[i] /\ Numbers(q)[i] = q[i].n
      BY <2>5, JobNumbers
    <3>4. QED
      BY <3>2, <3>3
  <2>8. Numbers(all)[1] = new[1]
    BY <2>1, <2>2, <2>3, <2>5, <2>6
  <2>9. \A i \in 1..(1 + Len(q)) : i = 1 \/ \E j \in 1..Len(q) : i = 1 + j
    <3>1. \A i \in 1..(1 + Len(q)) : i # 1 => i - 1 \in 1..Len(q) /\ i = 1 + (i - 1)
      BY <2>1
    <3>2. QED
      BY <3>1
  <2>10. \A i \in 1..Len(new) : Numbers(all)[i] = new[i]
    BY <2>5, <2>7, <2>8, <2>9
  <2>11. Numbers(all) = new
    BY <2>5, <2>6, <2>10, SeqEqual
  <2>12. QED
    BY <1>2, <2>11 DEF all, new, one
<1>3. QED
  BY <1>1, <1>2

\* A job that is queued comes last.
LEMMA NumbersOfAppend ==
  ASSUME NEW q \in Seq(Job), NEW job \in Job
  PROVE  Numbers(Append(q, job)) = Append(Numbers(q), job.n)
<1>1. job.n \in Nat /\ Len(q) \in Nat
  BY DEF Job
<1> DEFINE all == Append(q, job)
           old == Numbers(q)
           new == Append(old, job.n)
<1>2. /\ all \in Seq(Job) /\ Len(all) = Len(q) + 1 /\ all[Len(q) + 1] = job
      /\ \A i \in 1..Len(q) : all[i] = q[i]
  BY AppendProperties
<1>3. old \in Seq(Nat) /\ Len(old) = Len(q) /\ \A i \in 1..Len(q) : old[i] = q[i].n
  BY JobNumbers
<1> HIDE DEF old
<1>4. /\ new \in Seq(Nat) /\ Len(new) = Len(q) + 1 /\ new[Len(q) + 1] = job.n
      /\ \A i \in 1..Len(q) : new[i] = old[i]
  BY <1>1, <1>3, AppendProperties
<1> HIDE DEF all, new
<1>5. /\ Numbers(all) \in Seq(Nat) /\ Len(Numbers(all)) = Len(q) + 1
      /\ \A i \in 1..(Len(q) + 1) : Numbers(all)[i] = all[i].n
  BY <1>2, JobNumbers
<1>6. \A i \in 1..(Len(q) + 1) : i = Len(q) + 1 \/ i \in 1..Len(q)
  BY <1>1
<1>7. ASSUME NEW i \in 1..Len(q)
      PROVE  Numbers(all)[i] = new[i]
  <2>1. i \in 1..(Len(q) + 1)
    BY <1>1
  <2>2. Numbers(all)[i] = all[i].n /\ all[i] = q[i]
    BY <1>2, <1>5, <2>1
  <2>3. new[i] = old[i] /\ old[i] = q[i].n
    BY <1>3, <1>4
  <2>4. QED
    BY <2>2, <2>3
<1>8. Numbers(all)[Len(q) + 1] = new[Len(q) + 1]
  BY <1>1, <1>2, <1>4, <1>5
<1>9. \A i \in 1..Len(new) : Numbers(all)[i] = new[i]
  BY <1>4, <1>6, <1>7, <1>8
<1>10. Numbers(all) = new
  BY <1>4, <1>5, <1>9, SeqEqual
<1>11. QED
  BY <1>10 DEF all, new, old

\* Appending behind a list that has something in front of it.
LEMMA AppendOfConcat ==
  ASSUME NEW S, NEW c \in Seq(S), NEW q \in Seq(S), NEW x \in S
  PROVE  c \o Append(q, x) = Append(c \o q, x)
<1>1. <<x>> \in Seq(S) /\ Append(q, x) = q \o <<x>>
  BY AppendIsConcat
<1>2. c \o q \in Seq(S)
  OBVIOUS
<1>3. Append(c \o q, x) = (c \o q) \o <<x>>
  BY <1>2, AppendIsConcat
<1>4. QED
  BY <1>1, <1>3, ConcatAssociative

\* Head and tail of a list with one element in front.
LEMMA HeadTailConcat ==
  ASSUME NEW S, NEW n \in S, NEW rest \in Seq(S)
  PROVE  /\ <<n>> \o rest # <<>>
         /\ Head(<<n>> \o rest) = n
         /\ Tail(<<n>> \o rest) = rest
<1> DEFINE one == <<n>>
           all == one \o rest
<1>1. one \in Seq(S) /\ Len(one) = 1 /\ one[1] = n /\ Len(rest) \in Nat
  OBVIOUS
<1> HIDE DEF one
<1>2. /\ all \in Seq(S) /\ Len(all) = 1 + Len(rest) /\ all[1] = n
      /\ \A i \in 1..Len(rest) : all[1 + i] = rest[i]
  BY <1>1, OneBefore
<1> HIDE DEF all
<1>3. all # <<>>
  BY <1>1, <1>2
<1>4. Head(all) = n
  BY <1>2, <1>3
<1>5. /\ Tail(all) \in Seq(S) /\ Len(Tail(all)) = Len(rest)
      /\ \A i \in 1..Len(rest) : Tail(all)[i] = all[i + 1]
  <2>1. /\ Tail(all) \in Seq(S) /\ Len(Tail(all)) = Len(all) - 1
        /\ \A i \in 1..Len(Tail(all)) : Tail(all)[i] = all[i + 1]
    BY <1>2, <1>3, HeadTailProperties
  <2>2. QED
    BY <1>1, <1>2, <2>1
<1>6. \A i \in 1..Len(rest) : Tail(all)[i] = rest[i]
  BY <1>1, <1>2, <1>5
<1>7. Tail(all) = rest
  BY <1>5, <1>6, SeqEqual
<1>8. QED
  BY <1>3, <1>4, <1>7 DEF all, one

\* A list is its head in front of its tail.
LEMMA ConcatHeadTail ==
  ASSUME NEW S, NEW q \in Seq(S), q # <<>>
  PROVE  <<Head(q)>> \o Tail(q) = q
<1>1. Len(q) \in Nat \ {0}
  BY EmptySeq
<1>2. /\ Head(q) \in S /\ Head(q) = q[1] /\ Tail(q) \in Seq(S) /\ Len(Tail(q)) = Len(q) - 1
      /\ \A i \in 1..Len(Tail(q)) : Tail(q)[i] = q[i + 1]
  BY HeadTailProperties
<1> DEFINE one == <<Head(q)>>
           tl == Tail(q)
<1>3. one \in Seq(S) /\ Len(one) = 1 /\ one[1] = q[1]
  BY <1>2
<1>4. tl \in Seq(S) /\ Len(tl) = Len(q) - 1 /\ \A i \in 1..(Len(q) - 1) : tl[i] = q[i + 1]
  BY <1>2
<1> HIDE DEF one, tl
<1> DEFINE all == one \o tl
<1>5. /\ all \in Seq(S) /\ Len(all) = 1 + Len(tl) /\ all[1] = one[1]
      /\ \A i \in 1..Len(tl) : all[1 + i] = tl[i]
  BY <1>3, <1>4, OneBefore
<1> HIDE DEF all
<1>6. Len(all) = Len(q)
  BY <1>1, <1>4, <1>5
<1>7. ASSUME NEW i \in 1..Len(q)
      PROVE  all[i] = q[i]
  <2>1. CASE i = 1
    BY <2>1, <1>3, <1>5
  <2>2. CASE i # 1
    <3>1. i - 1 \in 1..(Len(q) - 1) /\ 1 + (i - 1) = i /\ (i - 1) + 1 = i
      BY <1>1, <2>2
    <3>2. all[1 + (i - 1)] = tl[i - 1] /\ tl[i - 1] = q[(i - 1) + 1]
      BY <1>4, <1>5, <3>1
    <3>3. QED
      BY <3>1, <3>2
  <2>3. QED
    BY <2>1, <2>2
<1>8. all = q
  BY <1>5, <1>6, <1>7, SeqEqual
<1>9. QED
  BY <1>8 DEF all, one, tl

\* A config without a worker holds nothing; otherwise what its worker has in
\* hand comes before what is in the channel.
LEMMA PendingIs ==
  ASSUME IInv, NEW k \in Configs
  PROVE  /\ workers[k] = NoWorker => Pending(k) = <<>>
         /\ \A w \in Workers : workers[k] = w =>
              /\ cur[w] = <<>> => Pending(k) = Numbers(queue[w])
              /\ cur[w] # <<>> => Pending(k) = <<cur[w][1].n>> \o Numbers(queue[w])
<1>1. workers[k] = NoWorker => Pending(k) = <<>>
  BY DEF Pending
<1>2. ASSUME NEW w \in Workers, workers[k] = w
      PROVE  /\ cur[w] = <<>> => Pending(k) = Numbers(queue[w])
             /\ cur[w] # <<>> => Pending(k) = <<cur[w][1].n>> \o Numbers(queue[w])
  <2>1. Pending(k) = Numbers(cur[w] \o queue[w])
    BY <1>2, WorkersAssumption DEF Pending, Numbers
  <2>2. queue[w] \in Seq(Job) /\ cur[w] \in Seq(Job) /\ Len(cur[w]) <= 1
    BY DEF IInv, TypeOK, WorkerShape
  <2>3. QED
    BY <2>1, <2>2, NumbersOfConcat
<1>3. QED
  BY <1>1, <1>2

\* What a config's worker holds is a list of event numbers.
LEMMA PendingType ==
  ASSUME IInv, NEW k \in Configs
  PROVE  Pending(k) \in Seq(Nat)
<1>1. CASE workers[k] = NoWorker
  <2>1. Pending(k) = <<>>
    BY <1>1, PendingIs
  <2>2. QED
    BY <2>1
<1>2. ASSUME NEW w \in Workers, workers[k] = w
      PROVE  Pending(k) \in Seq(Nat)
  <2>1. queue[w] \in Seq(Job) /\ cur[w] \in Seq(Job)
    BY DEF IInv, TypeOK
  <2>2. Numbers(queue[w]) \in Seq(Nat)
    BY <2>1, JobNumbers
  <2>3. CASE cur[w] = <<>>
    BY <1>2, <2>2, <2>3, PendingIs
  <2>4. CASE cur[w] # <<>>
    <3>1. <<cur[w][1].n>> \in Seq(Nat)
      BY <2>1, <2>4, FirstJob
    <3>2. QED
      BY <1>2, <2>2, <2>4, <3>1, PendingIs, ConcatProperties
  <2>5. QED
    BY <2>3, <2>4
<1>3. QED
  BY <1>1, <1>2 DEF IInv, TypeOK

\* A step that leaves a config's worker, its hand and its channel alone.
LEMMA PendingSame ==
  ASSUME NEW k \in Configs, workers'[k] = workers[k],
         workers[k] # NoWorker =>
           cur'[workers[k]] = cur[workers[k]] /\ queue'[workers[k]] = queue[workers[k]]
  PROVE  Pending(k)' = Pending(k)
BY DEF Pending

\* A config that has an event in a worker's hands is that worker's config.
LEMMA OthersHoldTheSame ==
  ASSUME IInv, NEW w \in Workers, Running(w), UNCHANGED workers,
         \A v \in Workers \ {w} : cur'[v] = cur[v] /\ queue'[v] = queue[v],
         NEW j \in Configs, j # key[w]
  PROVE  Pending(j)' = Pending(j)
<1>1. workers[j] # w
  BY WorkersAssumption DEF IInv, Registration
<1>2. workers[j] # NoWorker => workers[j] \in Workers \ {w}
  BY <1>1 DEF IInv, TypeOK
<1>3. QED
  BY <1>2, PendingSame

\* SendPush accepts the event behind what the worker holds, or refuses it.
LEMMA SendPushHolds ==
  ASSUME IInv, IInv', NEW k \in Configs, NEW terminal \in BOOLEAN, SendPush(k, terminal)
  PROVE  /\ \A j \in Configs \ {k} : Pending(j)' = Pending(j)
         /\ \/ /\ Pending(k)' = Append(Pending(k), sent[k] + 1)
               /\ UNCHANGED <<delivered, failed>>
            \/ Pending(k)' = Pending(k) /\ CountFailed(k, sent[k] + 1)
<1> DEFINE job == [n |-> sent[k] + 1, terminal |-> terminal]
<1>1. PICK w \in Workers : WorkerFor(k, w) /\ EnsureWorker(k, w) /\ Offer(k, w, job)
  BY DEF SendPush
<1>0. sent[k] \in Nat /\ workers \in [Configs -> Workers \cup {NoWorker}]
  BY DEF IInv, TypeOK
<1>2. job \in Job /\ job.n = sent[k] + 1
  BY <1>0 DEF Job
<1>3. workers'[k] = w /\ \A j \in Configs \ {k} : workers'[j] = workers[j] /\ workers[j] # w
  <2>1. workers'[k] = w /\ \A j \in Configs \ {k} : workers'[j] = workers[j]
    BY <1>0, <1>1 DEF WorkerFor, EnsureWorker
  <2>2. ASSUME NEW j \in Configs \ {k} PROVE workers[j] # w
    <3>1. CASE workers[k] = NoWorker
      BY <1>1, <3>1, WorkersAssumption DEF WorkerFor, IInv, Registration, Running
    <3>2. CASE workers[k] # NoWorker
      BY <1>1, <3>2, WorkersAssumption DEF WorkerFor, IInv, Registration
    <3> QED
      BY <3>1, <3>2
  <2> QED
    BY <2>1, <2>2
<1>4. cur' = cur /\ \A v \in Workers \ {w} : queue'[v] = queue[v]
  BY <1>1 DEF SendPush, Offer, IInv, TypeOK
<1>5. \A j \in Configs \ {k} : Pending(j)' = Pending(j)
  <2>1. \A j \in Configs \ {k} : workers[j] # NoWorker => workers[j] \in Workers \ {w}
    BY <1>3 DEF IInv, TypeOK
  <2>2. QED
    BY <1>3, <1>4, <2>1, PendingSame
<1>6. ~chClosed[w]
  BY <1>1 DEF SendPush, IInv, WorkerFor, WorkerShape, Registration, ChannelsFollowSender, TypeOK
<1>7. queue[w] \in Seq(Job) /\ cur[w] \in Seq(Job) /\ queue'[w] \in Seq(Job)
  BY DEF IInv, TypeOK
<1>8. workers[k] = NoWorker => cur[w] = <<>> /\ queue[w] = <<>>
  BY <1>1 DEF WorkerFor, IInv, WorkerShape, Running, Delivering
<1>9. /\ cur[w] = <<>> => Pending(k) = Numbers(queue[w])
      /\ cur[w] # <<>> => Pending(k) = <<cur[w][1].n>> \o Numbers(queue[w])
  <2>1. Numbers(<<>>) = <<>>
    BY DEF Numbers
  <2>2. CASE workers[k] = NoWorker
    BY <1>8, <2>1, <2>2, PendingIs
  <2>3. CASE workers[k] # NoWorker
    BY <1>1, <2>3, PendingIs DEF WorkerFor
  <2>4. QED
    BY <2>2, <2>3
<1>10. /\ cur[w] = <<>> => Pending(k)' = Numbers(queue'[w])
       /\ cur[w] # <<>> => Pending(k)' = <<cur[w][1].n>> \o Numbers(queue'[w])
  <2>1. Pending(k)' = Numbers(cur[w] \o queue'[w])
    BY <1>3, <1>4, WorkersAssumption DEF Pending, Numbers
  <2>2. Len(cur[w]) <= 1
    BY DEF IInv, WorkerShape
  <2>3. QED
    BY <1>7, <2>1, <2>2, NumbersOfConcat
<1>11. CASE queue'[w] = Append(queue[w], job) /\ UNCHANGED <<delivered, failed>>
  <2> HIDE DEF job
  <2>1. Numbers(queue'[w]) = Append(Numbers(queue[w]), sent[k] + 1)
    BY <1>2, <1>7, <1>11, NumbersOfAppend
  <2>2. CASE cur[w] = <<>>
    BY <1>5, <1>9, <1>10, <1>11, <2>1, <2>2
  <2>3. CASE cur[w] # <<>>
    <3>1. /\ <<cur[w][1].n>> \in Seq(Nat)
          /\ Numbers(queue[w]) \in Seq(Nat)
          /\ sent[k] + 1 \in Nat
      <4>1. cur[w][1].n \in Nat
        BY <1>7, <2>3, FirstJob
      <4>2. Numbers(queue[w]) \in Seq(Nat)
        BY <1>7, JobNumbers
      <4>3. sent[k] + 1 \in Nat
        BY <1>0
      <4>4. QED
        BY <4>1, <4>2, <4>3
    <3>2. <<cur[w][1].n>> \o Append(Numbers(queue[w]), sent[k] + 1)
            = Append(<<cur[w][1].n>> \o Numbers(queue[w]), sent[k] + 1)
      BY <3>1, AppendOfConcat
    <3>3. QED
      BY <1>5, <1>9, <1>10, <1>11, <2>1, <2>3, <3>2
  <2>4. QED
    BY <2>2, <2>3
<1>12. CASE queue' = queue /\ CountFailed(k, job.n)
  BY <1>2, <1>5, <1>9, <1>10, <1>12
<1>13. QED
  <2>1. \/ queue'[w] = Append(queue[w], job) /\ UNCHANGED <<delivered, failed>>
        \/ queue' = queue /\ CountFailed(k, job.n)
    <3> HIDE DEF job
    <3>1. QED
      BY <1>1, <1>6 DEF Offer, IInv, TypeOK
  <2>2. QED
    BY <1>11, <1>12, <2>1

\* Taking a job from the channel into the hand changes nothing held.
LEMMA ReceiveHolds ==
  ASSUME IInv, NEW w \in Workers, NEW k \in Configs, k = key[w], Receive(w)
  PROVE  \A j \in Configs : Pending(j)' = Pending(j)
<1>1. Running(w) /\ queue[w] # <<>> /\ pc[w] \notin Delivering
  BY DEF Receive, Running, Delivering
<1>2. cur[w] = <<>> /\ queue[w] \in Seq(Job) /\ workers[k] = w
  BY <1>1 DEF IInv, TypeOK, WorkerShape, Registration
<1>3. UNCHANGED workers /\ \A v \in Workers \ {w} : cur'[v] = cur[v] /\ queue'[v] = queue[v]
  BY DEF Receive, senderVars, IInv, TypeOK
<1>4. \A j \in Configs \ {k} : Pending(j)' = Pending(j)
  BY <1>1, <1>3, OthersHoldTheSame
<1>5. cur'[w] = <<Head(queue[w])>> /\ queue'[w] = Tail(queue[w])
  BY DEF Receive, IInv, TypeOK
<1>6. Pending(k) = Numbers(queue[w])
  BY <1>2, PendingIs
<1>7. Pending(k)' = Numbers(cur'[w] \o queue'[w])
  BY <1>2, <1>3, WorkersAssumption DEF Pending, Numbers
<1>8. cur'[w] \o queue'[w] = queue[w]
  BY <1>1, <1>2, <1>5, ConcatHeadTail
<1>9. Pending(k)' = Pending(k)
  BY <1>6, <1>7, <1>8
<1>10. QED
  BY <1>4, <1>9

\* A settled job was the oldest one held.
LEMMA FinishHolds ==
  ASSUME IInv, NEW w \in Workers, NEW k \in Configs, k = key[w],
         pc[w] \in Delivering, FinishJob(w)
  PROVE  /\ \A j \in Configs \ {k} : Pending(j)' = Pending(j)
         /\ Pending(k) # <<>>
         /\ Pending(k)' = Tail(Pending(k))
         /\ Head(Pending(k)) = cur[w][1].n
<1>1. /\ Running(w) /\ cur[w] # <<>> /\ cur[w] \in Seq(Job) /\ queue[w] \in Seq(Job)
      /\ workers[k] = w
  BY DEF IInv, TypeOK, WorkerShape, Registration, Running, Delivering
<1>2. /\ UNCHANGED workers /\ cur'[w] = <<>> /\ queue' = queue
      /\ \A v \in Workers \ {w} : cur'[v] = cur[v] /\ queue'[v] = queue[v]
  BY DEF FinishJob, senderVars, IInv, TypeOK
<1>3. \A j \in Configs \ {k} : Pending(j)' = Pending(j)
  BY <1>1, <1>2, OthersHoldTheSame
<1> DEFINE n == cur[w][1].n
           rest == Numbers(queue[w])
<1>4. Pending(k) = <<n>> \o rest
  BY <1>1, PendingIs
<1>5. Pending(k)' = rest
  <2>1. Pending(k)' = Numbers(cur'[w] \o queue'[w])
    BY <1>1, <1>2, WorkersAssumption DEF Pending, Numbers
  <2>2. cur'[w] \o queue'[w] = queue[w]
    BY <1>1, <1>2, ConcatEmptySeq
  <2>3. QED
    BY <2>1, <2>2
<1>6. n \in Nat /\ rest \in Seq(Nat)
  BY <1>1, FirstJob, JobNumbers
<1> HIDE DEF n, rest
<1>7. /\ <<n>> \o rest # <<>>
      /\ Tail(<<n>> \o rest) = rest
      /\ Head(<<n>> \o rest) = n
  BY <1>6, HeadTailConcat
<1>8. QED
  BY <1>3, <1>4, <1>5, <1>7 DEF n

\* A worker that leaves its loop holds nothing.
LEMMA RetireHolds ==
  ASSUME IInv, NEW w \in Workers, NEW k \in Configs, k = key[w], Retire(w)
  PROVE  \A j \in Configs : Pending(j)' = Pending(j)
<1>1. Running(w) /\ pc[w] \notin Delivering /\ UNCHANGED <<cur, queue>>
  BY DEF Retire, Running, Delivering, Retiring
<1>2. cur[w] = <<>> /\ workers[k] = w
  BY <1>1 DEF IInv, TypeOK, WorkerShape, Registration
<1>3. CASE workers' = workers
  BY <1>1, <1>3, PendingSame
<1>4. CASE queue[w] = <<>> /\ workers' = [workers EXCEPT ![k] = NoWorker]
  <2>1. \A j \in Configs \ {k} : workers'[j] = workers[j]
    BY <1>4 DEF IInv, TypeOK
  <2>2. \A j \in Configs \ {k} : Pending(j)' = Pending(j)
    BY <1>1, <2>1, PendingSame
  <2>3. workers'[k] = NoWorker
    BY <1>4 DEF IInv, TypeOK
  <2>4. Pending(k)' = <<>>
    BY <2>3 DEF Pending
  <2>5. Pending(k) = Numbers(<<>>)
    BY <1>2, <1>4, PendingIs
  <2>6. Numbers(<<>>) = <<>>
    BY DEF Numbers
  <2>7. Pending(k)' = Pending(k)
    BY <2>4, <2>5, <2>6
  <2>8. QED
    BY <2>2, <2>7
<1>5. QED
  BY <1>3, <1>4 DEF Retire, CanRetire

\* The goroutine that ends has left an empty channel.
LEMMA ExitHolds ==
  ASSUME IInv, NEW w \in Workers, Exit(w)
  PROVE  \A j \in Configs : Pending(j)' = Pending(j)
<1>1. UNCHANGED <<workers, cur>> /\ queue[w] = <<>>
  BY DEF IInv, WorkerShape, Exit, Running
<1>2. queue' = queue
  BY <1>1 DEF Exit, IInv, TypeOK
<1>3. QED
  BY <1>1, <1>2, PendingSame

-----------------------------------------------------------------------------
(* The sender implements PushDelivery *)

\* What every config holds, as the abstract specification sees it.
held == [k \in Configs |-> Pending(k)]

\* A step in which nothing is handed over, held or counted differently.
LEMMA QuietStep ==
  ASSUME \A j \in Configs : Pending(j)' = Pending(j),
         UNCHANGED <<closed, sent, delivered, failed>>
  PROVE  UNCHANGED Delivery!vars
<1>1. held' = held
  BY DEF held
<1>2. QED
  BY <1>1 DEF Delivery!vars, held

\* SendPush is Accept or Refuse.
LEMMA SendPushImplements ==
  ASSUME IInv, IInv', NEW k \in Configs, NEW terminal \in BOOLEAN, SendPush(k, terminal)
  PROVE  Delivery!Accept(k) \/ Delivery!Refuse(k)
<1>1. /\ ~closed /\ sent[k] < MaxEvents /\ sent' = [sent EXCEPT ![k] = @ + 1] /\ UNCHANGED closed
  BY DEF SendPush, NextEvent
<1>2. \A j \in Configs \ {k} : Pending(j)' = Pending(j)
  BY SendPushHolds
<1>3. CASE Pending(k)' = Append(Pending(k), sent[k] + 1) /\ UNCHANGED <<delivered, failed>>
  <2>1. held' = [held EXCEPT ![k] = Append(@, sent[k] + 1)]
    BY <1>2, <1>3 DEF held
  <2>2. QED
    BY <1>1, <1>3, <2>1 DEF Delivery!Accept, held
<1>4. CASE Pending(k)' = Pending(k) /\ CountFailed(k, sent[k] + 1)
  <2>1. held' = held
    BY <1>2, <1>4 DEF held
  <2>2. QED
    BY <1>1, <1>4, <2>1 DEF Delivery!Refuse, held, CountFailed
<1>5. QED
  BY <1>3, <1>4, SendPushHolds

\* An event that cannot be encoded, or comes after Close, is refused.
LEMMA SendPushRefusedImplements ==
  ASSUME IInv, NEW k \in Configs, SendPushRefused(k)
  PROVE  Delivery!Refuse(k)
<1>1. \A j \in Configs : Pending(j)' = Pending(j)
  BY PendingSame DEF SendPushRefused, senderVars, workerVars
<1>2. held' = held
  BY <1>1 DEF held
<1>3. QED
  BY <1>2 DEF SendPushRefused, NextEvent, CountFailed, senderVars, Delivery!Refuse, held

\* The end of a delivery settles the oldest event.
LEMMA FinishImplements ==
  ASSUME IInv, NEW w \in Workers, pc[w] \in Delivering, FinishJob(w),
         \/ CountFailed(key[w], cur[w][1].n)
         \/ CountDelivered(key[w], cur[w][1].n)
  PROVE  \E k \in Configs : Delivery!Settle(k)
<1>2. PICK j \in Configs : j = key[w]
  BY DEF IInv, TypeOK
<1>3. /\ \A i \in Configs \ {j} : Pending(i)' = Pending(i)
      /\ Pending(j) # <<>> /\ Pending(j)' = Tail(Pending(j))
      /\ Head(Pending(j)) = cur[w][1].n
  BY <1>2, FinishHolds
<1>4. held' = [held EXCEPT ![j] = Tail(@)] /\ held[j] = Pending(j)
  BY <1>3 DEF held
<1>5. UNCHANGED <<closed, sent>>
  BY DEF FinishJob, senderVars
<1>6. Delivery!Settle(j)
  <2>1. CASE CountFailed(key[w], cur[w][1].n)
    BY <1>2, <1>3, <1>4, <1>5, <2>1 DEF Delivery!Settle, held, CountFailed
  <2>2. CASE CountDelivered(key[w], cur[w][1].n)
    BY <1>2, <1>3, <1>4, <1>5, <2>2 DEF Delivery!Settle, held, CountDelivered
  <2>3. QED
    BY <2>1, <2>2
<1>7. QED
  BY <1>6

\* Close is the abstract Shutdown when it is the first, and hidden otherwise.
LEMMA CloseImplements ==
  ASSUME IInv, NEW c \in Closers,
         CloseBegin(c) \/ CloseDrained(c) \/ CloseTimesOut(c) \/ CloseAborted(c)
  PROVE  Delivery!Shutdown \/ UNCHANGED Delivery!vars
<1>1. UNCHANGED <<workers, cur, queue, sent, delivered, failed>>
  BY DEF CloseBegin, CloseDrained, CloseTimesOut, CloseAborted, workerVars, history
<1>2. \A j \in Configs : Pending(j)' = Pending(j)
  BY <1>1, PendingSame
<1>3. CASE UNCHANGED closed
  BY <1>1, <1>2, <1>3, QuietStep
<1>4. CASE closed' = TRUE
  <2>1. held' = held
    BY <1>2 DEF held
  <2>2. QED
    BY <1>1, <1>4, <2>1 DEF Delivery!Shutdown, held
<1>5. QED
  BY <1>3, <1>4 DEF CloseBegin, CloseDrained, CloseTimesOut, CloseAborted

\* The steps of a worker that settle nothing are hidden.
LEMMA HiddenStep ==
  ASSUME IInv, NEW w \in Workers,
         \/ Receive(w) \/ IdleFires(w) \/ ReceiveClosed(w) \/ Retire(w) \/ Exit(w)
         \/ StartPost(w) \/ BackoffElapsed(w)
         \/ \E retryable \in BOOLEAN : PostFailed(w, retryable) /\ TryAgain(w, retryable)
  PROVE  /\ \A j \in Configs : Pending(j)' = Pending(j)
         /\ UNCHANGED <<closed, sent, delivered, failed>>
<1>1. UNCHANGED <<closed, sent, delivered, failed>>
  BY DEF Receive, IdleFires, ReceiveClosed, Retire, Exit, StartPost, BackoffElapsed, PostFailed,
         senderVars, history
<1>2. PICK k \in Configs : k = key[w]
  BY DEF IInv, TypeOK
<1>3. CASE Receive(w) \/ Retire(w) \/ Exit(w)
  BY <1>1, <1>2, <1>3, ReceiveHolds, RetireHolds, ExitHolds
<1>4. CASE UNCHANGED <<workers, cur, queue>>
  BY <1>1, <1>4, PendingSame
<1>5. QED
  BY <1>3, <1>4
  DEF IdleFires, ReceiveClosed, StartPost, BackoffElapsed, PostFailed, senderVars

\* Every step of the sender is a step of PushDelivery or changes nothing of it.
LEMMA NextImplements ==
  ASSUME IInv, IInv', [Next]_vars
  PROVE  [Delivery!Next]_(Delivery!vars)
<1>1. ASSUME NEW k \in Configs, SendPushRefused(k) PROVE Delivery!Next
  BY <1>1, SendPushRefusedImplements DEF Delivery!Next
<1>2. ASSUME NEW k \in Configs, NEW terminal \in BOOLEAN, SendPush(k, terminal)
      PROVE Delivery!Next
  BY <1>2, SendPushImplements DEF Delivery!Next
<1>3. ASSUME NEW w \in Workers,
             \/ Receive(w) \/ IdleFires(w) \/ ReceiveClosed(w) \/ Retire(w) \/ Exit(w)
             \/ StartPost(w) \/ BackoffElapsed(w)
      PROVE UNCHANGED Delivery!vars
  BY <1>3, HiddenStep, QuietStep
<1>4. ASSUME NEW w \in Workers, PostRefused(w) \/ PostAccepted(w) \/ BackoffAborted(w)
      PROVE Delivery!Next
  BY <1>4, FinishImplements
  DEF PostRefused, PostAccepted, BackoffAborted, JobFailed, Delivering, Delivery!Next
<1>5. ASSUME NEW w \in Workers, NEW retryable \in BOOLEAN, PostFailed(w, retryable)
      PROVE [Delivery!Next]_(Delivery!vars)
  <2>1. CASE TryAgain(w, retryable)
    BY <1>5, <2>1, HiddenStep, QuietStep
  <2>2. CASE ~TryAgain(w, retryable)
    BY <1>5, <2>2, FinishImplements DEF PostFailed, JobFailed, Delivering, Delivery!Next
  <2>3. QED
    BY <2>1, <2>2
<1>6. ASSUME NEW c \in Closers,
             CloseBegin(c) \/ CloseDrained(c) \/ CloseTimesOut(c) \/ CloseAborted(c)
      PROVE [Delivery!Next]_(Delivery!vars)
  BY <1>6, CloseImplements DEF Delivery!Next
<1>7. CASE UNCHANGED vars
  <2>1. \A j \in Configs : Pending(j)' = Pending(j)
    BY <1>7, PendingSame DEF vars, senderVars, workerVars
  <2>2. QED
    BY <1>7, <2>1, QuietStep DEF vars, senderVars, history
<1>8. QED
  BY <1>1, <1>2, <1>3, <1>4, <1>5, <1>6, <1>7 DEF Next, Progress

\* The sender implements the safety part of PushDelivery: however workers come
\* and go, each config has one ordered list of accepted events, only its head
\* is settled, and nothing is accepted once Close has begun.
THEOREM DeliveryRefined == Spec => Delivery!Safety
<1>1. Init => Delivery!Init
  <2> SUFFICES ASSUME Init PROVE Delivery!Init
    OBVIOUS
  <2>1. \A k \in Configs : Pending(k) = <<>>
    BY DEF Init, Pending
  <2>2. held = [k \in Configs |-> <<>>]
    BY <2>1 DEF held
  <2>3. QED
    BY <2>2 DEF Init, Delivery!Init, held
<1>2. IInv /\ IInv' /\ [Next]_vars => [Delivery!Next]_(Delivery!vars)
  BY NextImplements
<1>3. QED
  BY <1>1, <1>2, SenderInvariant, PTL DEF Spec, Delivery!Safety

-----------------------------------------------------------------------------
(* Accounting and order *)

\* The events config k's worker holds.
Unsettled(k) == {Pending(k)[i] : i \in DOMAIN Pending(k)}

\* EveryEventAccounted and HeldInOrder for one config.
Accounted(k) ==
  /\ delivered[k] \cap failed[k] = {}
  /\ Counted(k) \cap Unsettled(k) = {}
  /\ Counted(k) \cup Unsettled(k) = 1..sent[k]
InOrder(k) ==
  /\ posted[k] <= sent[k]
  /\ \A i \in DOMAIN Pending(k) :
        /\ posted[k] <= Pending(k)[i] /\ Pending(k)[i] <= sent[k]
        /\ \A j \in DOMAIN Pending(k) : i < j => Pending(k)[i] < Pending(k)[j]
Ledger(k) == Accounted(k) /\ InOrder(k)

LEMMA LedgerIs ==
  EveryEventAccounted /\ HeldInOrder <=> \A k \in Configs : Ledger(k)
BY DEF EveryEventAccounted, HeldInOrder, Ledger, Accounted, InOrder, Unsettled

\* The types of what the ledger of a config is about.
LEMMA LedgerType ==
  ASSUME IInv, NEW k \in Configs
  PROVE  /\ sent[k] \in Nat /\ posted[k] \in Nat
         /\ delivered[k] \in SUBSET Nat /\ failed[k] \in SUBSET Nat
         /\ Pending(k) \in Seq(Nat) /\ Len(Pending(k)) \in Nat
         /\ DOMAIN Pending(k) = 1..Len(Pending(k))
         /\ \A i \in DOMAIN Pending(k) : Pending(k)[i] \in Nat
<1>1. Pending(k) \in Seq(Nat)
  BY PendingType
<1>2. QED
  BY <1>1 DEF IInv, TypeOK

\* A config of which nothing is settled, held or counted differently, and whose
\* webhook saw nothing or the oldest event held.
LEMMA SameLedger ==
  ASSUME IInv, NEW k \in Configs, Ledger(k),
         Pending(k)' = Pending(k), sent'[k] = sent[k],
         delivered'[k] = delivered[k], failed'[k] = failed[k],
         \/ posted'[k] = posted[k]
         \/ Pending(k) # <<>> /\ posted'[k] = Pending(k)[1]
  PROVE  Ledger(k)'
<1>1. Accounted(k)'
  BY DEF Ledger, Accounted, Unsettled, Counted
<1>2. CASE posted'[k] = posted[k]
  BY <1>1, <1>2 DEF Ledger, InOrder
<1>3. CASE Pending(k) # <<>> /\ posted'[k] = Pending(k)[1]
  <2>1. 1 \in DOMAIN Pending(k) /\ \A i \in DOMAIN Pending(k) : i = 1 \/ 1 < i
    <3>1. Len(Pending(k)) # 0
      BY <1>3, LedgerType
    <3>2. QED
      BY <3>1, LedgerType
  <2>2. \A i \in DOMAIN Pending(k) : Pending(k)[1] <= Pending(k)[i]
    BY <2>1, LedgerType DEF Ledger, InOrder
  <2>3. InOrder(k)'
    BY <1>3, <2>1, <2>2 DEF Ledger, InOrder
  <2>4. QED
    BY <1>1, <2>3 DEF Ledger
<1>4. QED
  BY <1>2, <1>3

\* A new event is younger than everything held.
LEMMA AcceptLedger ==
  ASSUME IInv, NEW k \in Configs, Ledger(k),
         Pending(k)' = Append(Pending(k), sent[k] + 1), sent'[k] = sent[k] + 1,
         delivered'[k] = delivered[k], failed'[k] = failed[k], posted'[k] = posted[k]
  PROVE  Ledger(k)'
<1> DEFINE P == Pending(k)
           n == sent[k] + 1
           Q == Append(P, n)
<1>1. /\ P \in Seq(Nat) /\ Len(P) \in Nat /\ DOMAIN P = 1..Len(P) /\ n \in Nat
      /\ \A i \in 1..Len(P) : P[i] \in Nat
  BY LedgerType
<1>2. /\ Q \in Seq(Nat) /\ DOMAIN Q = 1..(Len(P) + 1) /\ Q[Len(P) + 1] = n
      /\ \A i \in 1..Len(P) : Q[i] = P[i]
  <2> HIDE DEF P, n
  <2>1. QED
    BY <1>1, AppendProperties
<1>3. Pending(k)' = Q
  OBVIOUS
<1> HIDE DEF P, n, Q
<1>4. \A i \in DOMAIN Q : i = Len(P) + 1 \/ i \in 1..Len(P)
  BY <1>1, <1>2
<1>5. 1..Len(P) \subseteq DOMAIN Q /\ Len(P) + 1 \in DOMAIN Q
  BY <1>1, <1>2
<1>6. Unsettled(k)' = Unsettled(k) \cup {n}
  <2>1. Unsettled(k)' = {Q[i] : i \in DOMAIN Q}
    BY <1>3 DEF Unsettled
  <2>2. Unsettled(k) = {P[i] : i \in 1..Len(P)}
    BY <1>1 DEF Unsettled, P
  <2>3. QED
    BY <1>2, <1>4, <1>5, <2>1, <2>2
<1>7. Accounted(k)'
  <2>1. Counted(k)' = Counted(k)
    BY DEF Counted
  <2>2. n \notin 1..sent[k] /\ 1..n = (1..sent[k]) \cup {n} /\ sent'[k] = n
    BY LedgerType DEF n
  <2>3. QED
    BY <1>6, <2>1, <2>2 DEF Ledger, Accounted
<1>8. InOrder(k)'
  <2>1. sent[k] \in Nat /\ posted[k] \in Nat /\ n = sent[k] + 1
    BY LedgerType DEF n
  <2>2. /\ posted[k] <= sent[k]
        /\ \A i \in 1..Len(P) :
              /\ posted[k] <= P[i] /\ P[i] <= sent[k]
              /\ \A j \in 1..Len(P) : i < j => P[i] < P[j]
    BY <1>1 DEF Ledger, InOrder, P
  <2>3. posted[k] <= n
    BY <2>1, <2>2
  <2>4. ASSUME NEW i \in DOMAIN Q
        PROVE  posted[k] <= Q[i] /\ Q[i] <= n
    <3>1. CASE i = Len(P) + 1
      BY <1>2, <2>1, <2>3, <3>1
    <3>2. CASE i \in 1..Len(P)
      <4>1. Q[i] = P[i] /\ P[i] \in Nat /\ posted[k] <= P[i] /\ P[i] <= sent[k]
        BY <1>1, <1>2, <2>2, <3>2
      <4>2. QED
        BY <2>1, <4>1
    <3>3. QED
      BY <1>4, <3>1, <3>2
  <2>5. ASSUME NEW i \in DOMAIN Q, NEW j \in DOMAIN Q, i < j
        PROVE  Q[i] < Q[j]
    <3>1. i \in 1..Len(P) /\ Q[i] = P[i] /\ P[i] \in Nat /\ P[i] <= sent[k]
      <4>1. i \in 1..Len(P)
        BY <1>1, <1>2, <2>5
      <4>2. QED
        BY <1>1, <1>2, <2>2, <4>1
    <3>2. CASE j = Len(P) + 1
      BY <1>2, <2>1, <3>1, <3>2
    <3>3. CASE j \in 1..Len(P)
      BY <1>2, <2>2, <2>5, <3>1, <3>3
    <3>4. QED
      BY <1>4, <3>2, <3>3
  <2>6. QED
    BY <1>3, <2>1, <2>3, <2>4, <2>5 DEF InOrder
<1>9. QED
  BY <1>7, <1>8 DEF Ledger

\* A refused event is counted once.
LEMMA RefuseLedger ==
  ASSUME IInv, NEW k \in Configs, Ledger(k),
         Pending(k)' = Pending(k), sent'[k] = sent[k] + 1,
         delivered'[k] = delivered[k], failed'[k] = failed[k] \cup {sent[k] + 1},
         posted'[k] = posted[k]
  PROVE  Ledger(k)'
<1> DEFINE n == sent[k] + 1
<1>1. n \notin 1..sent[k] /\ 1..n = (1..sent[k]) \cup {n}
  BY LedgerType
<1>2. Accounted(k)'
  BY <1>1 DEF Ledger, Accounted, Unsettled, Counted
<1>3. InOrder(k)'
  BY LedgerType DEF Ledger, InOrder
<1>4. QED
  BY <1>2, <1>3 DEF Ledger

\* The oldest event held is settled and counted once.
LEMMA SettleLedger ==
  ASSUME IInv, NEW k \in Configs, Ledger(k),
         Pending(k) # <<>>, Pending(k)' = Tail(Pending(k)), sent'[k] = sent[k],
         posted'[k] = posted[k],
         \/ /\ delivered'[k] = delivered[k] \cup {Head(Pending(k))} /\ failed'[k] = failed[k]
         \/ /\ failed'[k] = failed[k] \cup {Head(Pending(k))} /\ delivered'[k] = delivered[k]
  PROVE  Ledger(k)'
<1> DEFINE P == Pending(k)
           T == Tail(P)
<1>1. /\ P \in Seq(Nat) /\ Len(P) \in Nat \ {0} /\ DOMAIN P = 1..Len(P)
      /\ \A i \in 1..Len(P) : P[i] \in Nat
  BY LedgerType, EmptySeq
<1>2. T \in Seq(Nat) /\ Len(T) = Len(P) - 1 /\ \A i \in 1..Len(T) : T[i] = P[i + 1]
  <2> HIDE DEF P
  <2>1. P # <<>>
    BY DEF P
  <2>2. QED
    BY <1>1, <2>1, HeadTailProperties
<1>3. Head(P) = P[1]
  BY <1>1
<1>4. Pending(k)' = T /\ DOMAIN T = 1..(Len(P) - 1)
  BY <1>2
<1> HIDE DEF P, T
<1>5. \A i \in 1..(Len(P) - 1) : i + 1 \in 1..Len(P) /\ T[i] = P[i + 1] /\ 1 < i + 1
  BY <1>1, <1>2
<1>6. \A i \in 1..Len(P) : i = 1 \/ (i - 1 \in 1..(Len(P) - 1) /\ T[i - 1] = P[i])
  BY <1>1, <1>2
<1>7. /\ posted[k] <= sent[k]
      /\ \A i \in 1..Len(P) :
            /\ posted[k] <= P[i] /\ P[i] <= sent[k]
            /\ \A j \in 1..Len(P) : i < j => P[i] < P[j]
  BY <1>1 DEF Ledger, InOrder, P
<1>8. Unsettled(k)' = {T[i] : i \in 1..(Len(P) - 1)} /\ Unsettled(k) = {P[i] : i \in 1..Len(P)}
  BY <1>1, <1>4 DEF Unsettled, P
<1>9. Unsettled(k) = Unsettled(k)' \cup {P[1]} /\ P[1] \notin Unsettled(k)'
  <2>1. 1 \in 1..Len(P)
    BY <1>1
  <2>2. \A i \in 1..(Len(P) - 1) : P[1] < T[i]
    BY <1>5, <1>7, <2>1
  <2>3. P[1] \notin Unsettled(k)'
    BY <1>1, <1>5, <1>8, <2>1, <2>2
  <2>4. Unsettled(k) \subseteq Unsettled(k)' \cup {P[1]}
    BY <1>6, <1>8
  <2>5. Unsettled(k)' \cup {P[1]} \subseteq Unsettled(k)
    BY <1>5, <1>8, <2>1
  <2>6. QED
    BY <2>3, <2>4, <2>5
<1>10. Accounted(k)'
  <2>1. Head(Pending(k)) = P[1]
    BY <1>3 DEF P
  <2>2. Counted(k)' = Counted(k) \cup {P[1]}
    BY <2>1 DEF Counted
  <2>3. P[1] \notin Counted(k)
    BY <1>9 DEF Ledger, Accounted
  <2>4. (delivered[k] \cap failed[k])' = {}
    BY <2>1, <2>3 DEF Ledger, Accounted, Counted
  <2>5. QED
    BY <1>9, <2>2, <2>3, <2>4 DEF Ledger, Accounted
<1>11. InOrder(k)'
  <2>1. \A i \in 1..(Len(P) - 1) : posted[k] <= T[i] /\ T[i] <= sent[k]
    BY <1>5, <1>7
  <2>2. \A i, j \in 1..(Len(P) - 1) : i < j => T[i] < T[j]
    <3>1. \A i, j \in 1..(Len(P) - 1) : i < j => i + 1 < j + 1
      BY <1>1
    <3>2. QED
      BY <1>5, <1>7, <3>1
  <2>3. QED
    BY <1>4, <1>7, <2>1, <2>2 DEF InOrder
<1>12. QED
  BY <1>10, <1>11 DEF Ledger

\* A settled or hidden step posts nothing, a request posts the oldest event.
LEMMA StartPostOldest ==
  ASSUME IInv, NEW w \in Workers, NEW k \in Configs, k = key[w], StartPost(w)
  PROVE  /\ Pending(k) # <<>> /\ posted'[k] = Pending(k)[1]
         /\ \A j \in Configs \ {k} : posted'[j] = posted[j]
<1>1. /\ cur[w] # <<>> /\ cur[w] \in Seq(Job) /\ queue[w] \in Seq(Job) /\ workers[k] = w
  BY DEF StartPost, IInv, TypeOK, WorkerShape, Registration, Running, Delivering
<1>2. posted'[k] = cur[w][1].n /\ \A j \in Configs \ {k} : posted'[j] = posted[j]
  BY DEF StartPost, IInv, TypeOK
<1> DEFINE n == cur[w][1].n
           rest == Numbers(queue[w])
<1>3. Pending(k) = <<n>> \o rest /\ n \in Nat /\ rest \in Seq(Nat)
  BY <1>1, PendingIs, FirstJob, JobNumbers
<1>4. Pending(k) # <<>> /\ Head(Pending(k)) = n
  <2> HIDE DEF n, rest
  <2>1. QED
    BY <1>3, HeadTailConcat
<1>5. Head(Pending(k)) = Pending(k)[1]
  BY <1>4, PendingType
<1>6. QED
  BY <1>2, <1>4, <1>5

\* A step of one config's event keeps the ledgers of the others.
LEMMA OtherLedger ==
  ASSUME IInv, NEW k \in Configs, NEW j \in Configs \ {k}, Ledger(j),
         Pending(j)' = Pending(j), UNCHANGED posted,
         \E S : sent' = [sent EXCEPT ![k] = S] \/ UNCHANGED sent,
         \E S : delivered' = [delivered EXCEPT ![k] = S] \/ UNCHANGED delivered,
         \E S : failed' = [failed EXCEPT ![k] = S] \/ UNCHANGED failed
  PROVE  Ledger(j)'
<1>1. sent'[j] = sent[j] /\ delivered'[j] = delivered[j] /\ failed'[j] = failed[j]
  BY DEF IInv, TypeOK
<1>2. QED
  BY <1>1, SameLedger

LEMMA SendPushLedger ==
  ASSUME IInv, IInv', \A j \in Configs : Ledger(j), NEW k \in Configs,
         SendPushRefused(k) \/ \E terminal \in BOOLEAN : SendPush(k, terminal)
  PROVE  \A j \in Configs : Ledger(j)'
<1>1. sent' = [sent EXCEPT ![k] = @ + 1] /\ sent'[k] = sent[k] + 1 /\ UNCHANGED posted
  BY DEF SendPushRefused, SendPush, NextEvent, IInv, TypeOK
<1>2. /\ \A j \in Configs \ {k} : Pending(j)' = Pending(j)
      /\ \/ /\ Pending(k)' = Append(Pending(k), sent[k] + 1)
            /\ UNCHANGED <<delivered, failed>>
         \/ Pending(k)' = Pending(k) /\ CountFailed(k, sent[k] + 1)
  <2>1. CASE SendPushRefused(k)
    BY <2>1, PendingSame DEF SendPushRefused, senderVars, workerVars
  <2>2. CASE \E terminal \in BOOLEAN : SendPush(k, terminal)
    BY <2>2, SendPushHolds
  <2>3. QED
    BY <2>1, <2>2
<1>3. CASE Pending(k)' = Append(Pending(k), sent[k] + 1) /\ UNCHANGED <<delivered, failed>>
  <2>1. Ledger(k)'
    BY <1>1, <1>3, AcceptLedger
  <2>2. \A j \in Configs \ {k} : Ledger(j)'
    BY <1>1, <1>2, <1>3, OtherLedger
  <2>3. QED
    BY <2>1, <2>2
<1>4. CASE Pending(k)' = Pending(k) /\ CountFailed(k, sent[k] + 1)
  <2>1. /\ failed' = [failed EXCEPT ![k] = failed[k] \cup {sent[k] + 1}]
        /\ failed'[k] = failed[k] \cup {sent[k] + 1} /\ UNCHANGED delivered
    BY <1>4 DEF CountFailed, IInv, TypeOK
  <2>2. Ledger(k)'
    BY <1>1, <1>4, <2>1, RefuseLedger
  <2>3. \A j \in Configs \ {k} : Ledger(j)'
    BY <1>1, <1>2, <2>1, OtherLedger
  <2>4. QED
    BY <2>2, <2>3
<1>5. QED
  BY <1>2, <1>3, <1>4

LEMMA FinishLedger ==
  ASSUME IInv, \A j \in Configs : Ledger(j), NEW w \in Workers, pc[w] \in Delivering, FinishJob(w),
         \/ CountFailed(key[w], cur[w][1].n)
         \/ CountDelivered(key[w], cur[w][1].n)
  PROVE  \A j \in Configs : Ledger(j)'
<1>1. PICK k \in Configs : k = key[w]
  BY DEF IInv, TypeOK
<1>2. /\ \A j \in Configs \ {k} : Pending(j)' = Pending(j)
      /\ Pending(k) # <<>> /\ Pending(k)' = Tail(Pending(k))
      /\ Head(Pending(k)) = cur[w][1].n
  BY <1>1, FinishHolds
<1>3. UNCHANGED <<sent, posted>>
  BY DEF FinishJob
<1> DEFINE n == Head(Pending(k))
<1>4. \/ failed' = [failed EXCEPT ![k] = failed[k] \cup {n}] /\ UNCHANGED delivered
      \/ delivered' = [delivered EXCEPT ![k] = delivered[k] \cup {n}] /\ UNCHANGED failed
  BY <1>1, <1>2 DEF CountFailed, CountDelivered
<1> HIDE DEF n
<1>5. \/ failed'[k] = failed[k] \cup {n} /\ delivered'[k] = delivered[k]
      \/ delivered'[k] = delivered[k] \cup {n} /\ failed'[k] = failed[k]
  BY <1>4 DEF IInv, TypeOK
<1>6. Ledger(k)'
  BY <1>2, <1>3, <1>5, SettleLedger DEF n
<1>7. \A j \in Configs \ {k} : Ledger(j)'
  BY <1>2, <1>3, <1>4, OtherLedger
<1>8. QED
  BY <1>6, <1>7

\* A hidden step keeps the ledgers, a request being for the oldest event.
LEMMA HiddenLedger ==
  ASSUME IInv, \A j \in Configs : Ledger(j), NEW w \in Workers,
         \/ Receive(w) \/ IdleFires(w) \/ ReceiveClosed(w) \/ Retire(w) \/ Exit(w)
         \/ StartPost(w) \/ BackoffElapsed(w)
         \/ \E retryable \in BOOLEAN : PostFailed(w, retryable) /\ TryAgain(w, retryable)
  PROVE  /\ \A j \in Configs : Ledger(j)'
         /\ \A j \in Configs : posted'[j] >= posted[j]
<1>1. /\ \A j \in Configs : Pending(j)' = Pending(j)
      /\ UNCHANGED <<sent, delivered, failed>>
  BY HiddenStep
<1>2. CASE UNCHANGED posted
  <2>1. \A j \in Configs : posted[j] \in Nat
    BY LedgerType
  <2>2. QED
    BY <1>1, <1>2, <2>1, SameLedger
<1>3. CASE StartPost(w)
  <2>1. PICK k \in Configs : k = key[w]
    BY DEF IInv, TypeOK
  <2>2. /\ Pending(k) # <<>> /\ posted'[k] = Pending(k)[1]
        /\ \A j \in Configs \ {k} : posted'[j] = posted[j]
    BY <1>3, <2>1, StartPostOldest
  <2>3. \A j \in Configs : Ledger(j)'
    BY <1>1, <2>2, SameLedger
  <2>4. 1 \in DOMAIN Pending(k)
    BY <2>2, LedgerType
  <2>5. posted[k] <= Pending(k)[1] /\ Pending(k)[1] \in Nat
    BY <2>4, LedgerType DEF Ledger, InOrder
  <2>6. \A j \in Configs : posted'[j] >= posted[j]
    BY <2>2, <2>5, LedgerType
  <2>7. QED
    BY <2>3, <2>6
<1>4. QED
  BY <1>2, <1>3
  DEF Receive, IdleFires, ReceiveClosed, Retire, Exit, BackoffElapsed, PostFailed, history

\* Every step keeps the ledgers, and no webhook sees an event after a younger one.
LEMMA NextLedger ==
  ASSUME IInv, IInv', \A k \in Configs : Ledger(k), [Next]_vars
  PROVE  /\ \A k \in Configs : Ledger(k)'
         /\ \A k \in Configs : posted'[k] >= posted[k]
<1>0. ASSUME UNCHANGED posted
      PROVE  \A k \in Configs : posted'[k] >= posted[k]
  <2>1. \A k \in Configs : posted[k] \in Nat
    BY LedgerType
  <2>2. QED
    BY <1>0, <2>1
<1>1. ASSUME NEW k \in Configs,
             SendPushRefused(k) \/ \E terminal \in BOOLEAN : SendPush(k, terminal)
      PROVE  (\A j \in Configs : Ledger(j)') /\ UNCHANGED posted
  BY <1>1, SendPushLedger DEF SendPushRefused, SendPush
<1>2. ASSUME NEW w \in Workers,
             \/ Receive(w) \/ IdleFires(w) \/ ReceiveClosed(w) \/ Retire(w) \/ Exit(w)
             \/ StartPost(w) \/ BackoffElapsed(w)
             \/ \E retryable \in BOOLEAN : PostFailed(w, retryable) /\ TryAgain(w, retryable)
      PROVE  /\ \A j \in Configs : Ledger(j)'
             /\ \A j \in Configs : posted'[j] >= posted[j]
  BY <1>2, HiddenLedger
<1>3. ASSUME NEW w \in Workers, PostRefused(w) \/ PostAccepted(w) \/ BackoffAborted(w)
      PROVE  (\A j \in Configs : Ledger(j)') /\ UNCHANGED posted
  BY <1>3, FinishLedger
  DEF PostRefused, PostAccepted, BackoffAborted, JobFailed, FinishJob, Delivering
<1>4. ASSUME NEW w \in Workers, NEW retryable \in BOOLEAN, PostFailed(w, retryable),
             ~TryAgain(w, retryable)
      PROVE  (\A j \in Configs : Ledger(j)') /\ UNCHANGED posted
  BY <1>4, FinishLedger DEF PostFailed, JobFailed, FinishJob, Delivering
<1>5. ASSUME NEW c \in Closers,
             CloseBegin(c) \/ CloseDrained(c) \/ CloseTimesOut(c) \/ CloseAborted(c)
      PROVE  (\A j \in Configs : Ledger(j)') /\ UNCHANGED posted
  <2>1. UNCHANGED <<workers, cur, queue, sent, delivered, failed, posted>>
    BY <1>5 DEF CloseBegin, CloseDrained, CloseTimesOut, CloseAborted, workerVars, history
  <2>2. \A j \in Configs : Pending(j)' = Pending(j)
    BY <2>1, PendingSame
  <2>3. QED
    BY <2>1, <2>2, SameLedger
<1>6. CASE UNCHANGED vars
  <2>1. UNCHANGED <<workers, cur, queue, sent, delivered, failed, posted>>
    BY <1>6 DEF vars, senderVars, workerVars, history
  <2>2. \A j \in Configs : Pending(j)' = Pending(j)
    BY <2>1, PendingSame
  <2>3. QED
    BY <1>0, <2>1, <2>2, SameLedger
<1>7. QED
  BY <1>0, <1>1, <1>2, <1>3, <1>4, <1>5, <1>6 DEF Next, Progress

\* Every config's ledger is right in every reachable state.
LEMMA LedgerInvariant == Spec => [](\A k \in Configs : Ledger(k))
<1>1. Init => \A k \in Configs : Ledger(k)
  <2> SUFFICES ASSUME Init, NEW k \in Configs PROVE Ledger(k)
    OBVIOUS
  <2>1. Pending(k) = <<>> /\ sent[k] = 0 /\ posted[k] = 0 /\ delivered[k] = {} /\ failed[k] = {}
    BY DEF Init, Pending
  <2>2. DOMAIN Pending(k) = {}
    BY <2>1
  <2>3. QED
    BY <2>1, <2>2 DEF Ledger, Accounted, InOrder, Unsettled, Counted
<1>2. IInv /\ IInv' /\ (\A k \in Configs : Ledger(k)) /\ [Next]_vars
        => (\A k \in Configs : Ledger(k))'
  BY NextLedger
<1>3. QED
  BY <1>1, <1>2, SenderInvariant, PTL DEF Spec

\* The two metrics counters add up, for any number of configs, workers and
\* Close calls: an event handed to SendPush is counted once or held once.
THEOREM EventsAccounted == Spec => []EveryEventAccounted
<1>1. (\A k \in Configs : Ledger(k)) => EveryEventAccounted
  BY LedgerIs
<1>2. QED
  BY <1>1, LedgerInvariant, PTL

\* "One worker that delivers its events in order": respawned workers and
\* retries never post an event after a younger one.
THEOREM PostsInOrder == Spec => PostedInOrder
<1>1. IInv /\ IInv' /\ (\A k \in Configs : Ledger(k)) /\ [Next]_vars
        => [\A k \in Configs : posted'[k] >= posted[k]]_vars
  BY NextLedger
<1>2. QED
  BY <1>1, SenderInvariant, LedgerInvariant, PTL DEF Spec, PostedInOrder

\* When Close has returned nothing is left behind: no goroutine, and no event
\* that was not counted.
THEOREM CloseIsComplete == Spec => []CloseLeavesNothing
<1>1. IInv /\ (\A k \in Configs : Ledger(k)) => CloseLeavesNothing
  <2> SUFFICES ASSUME IInv, \A k \in Configs : Ledger(k),
                      NEW c \in Closers, closePc[c] = "returned"
               PROVE  /\ \A w \in Workers : pc[w] = "none"
                      /\ \A k \in Configs : Counted(k) = 1..sent[k]
    BY DEF CloseLeavesNothing
  <2>1. \A w \in Workers : pc[w] = "none"
    BY DEF IInv, Closing
  <2>2. \A k \in Configs : workers[k] = NoWorker
    BY <2>1 DEF IInv, TypeOK, Registration, Running
  <2>3. \A k \in Configs : DOMAIN Pending(k) = {}
    <3>1. \A k \in Configs : Pending(k) = <<>>
      BY <2>2, PendingIs
    <3>2. QED
      BY <3>1
  <2>4. \A k \in Configs : Counted(k) = 1..sent[k]
    BY <2>3 DEF Ledger, Accounted, Unsettled
  <2>5. QED
    BY <2>1, <2>4
<1>2. QED
  BY <1>1, SenderInvariant, LedgerInvariant, PTL
====
