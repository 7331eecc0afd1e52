---- MODULE PushSender ----
(***************************************************************************)
(* PushSender of internal/agent/push.go: webhook notifications of task     *)
(* events. SendPush only queues an event on the channel of the config's    *)
(* worker, spawning the worker if there is none; the worker posts the      *)
(* events one at a time with retries and retires after a terminal event,   *)
(* after an idle period or when Close has closed its channel.              *)
(*                                                                         *)
(* An action is one critical section under PushSender.mu, or one step of a *)
(* worker between two points where another goroutine can interfere. The    *)
(* webhook and the HTTP client are nondeterministic outcomes. An event is  *)
(* the number it has in the order SendPush was called for its config, so   *)
(* the two metrics counters are kept as sets of event numbers.             *)
(***************************************************************************)
EXTENDS Naturals, Sequences, FiniteSets

CONSTANTS Configs,      \* webhook registrations: the keys of the worker map
          Workers,      \* worker goroutines that can be alive at once
          NoWorker,     \* absence of an entry in the worker map
          Closers,      \* callers of Close
          QueueSize,    \* pushQueueSize
          MaxAttempts,  \* pushMaxAttempts
          MaxEvents     \* bound on the SendPush calls per config

ASSUME WorkersAssumption == IsFiniteSet(Workers) /\ NoWorker \notin Workers
ASSUME BoundsAssumption ==
    /\ QueueSize \in Nat \ {0}
    /\ MaxAttempts \in Nat \ {0}
    /\ MaxEvents \in Nat

VARIABLES
    \* the sender, guarded by mu
    closed,     \* closed
    workers,    \* workers[k]: the registered worker of config k, or NoWorker
    cancelled,  \* s.ctx has been cancelled
    wg,         \* the wait group's counter
    panicked,   \* a send on, or a close of, a closed channel
    closePc,    \* progress of each Close call
    \* the worker goroutines
    pc,         \* where the worker is
    key,        \* the config it was started for
    queue,      \* its channel's buffer
    chClosed,   \* its channel is closed
    cur,        \* the job in its hands: <<>> or <<job>>
    attempt,    \* number of the current delivery attempt
    \* observation
    sent,       \* sent[k]: SendPush calls made for k
    delivered,  \* events counted by metrics.IncPushDelivered
    failed,     \* events counted by metrics.IncPushFailed
    posted      \* posted[k]: the event last POSTed to the webhook, 0 if none

senderVars == <<closed, workers, cancelled, wg, panicked, closePc>>
workerVars == <<pc, key, queue, chClosed, cur, attempt>>
history    == <<sent, delivered, failed, posted>>
vars       == <<senderVars, workerVars, history>>

Job == [n : Nat \ {0}, terminal : BOOLEAN]

Delivering == {"attempt", "posting", "backoff"}
Retiring   == {"terminal", "idle", "drained"}
WorkerPc   == {"none", "select", "exit"} \cup Delivering \cup Retiring

\* The worker has not left its loop: it still reads from its channel.
Running(w) == pc[w] \notin {"none", "exit"}

Counted(k) == delivered[k] \cup failed[k]

TypeOK ==
    /\ closed \in BOOLEAN
    /\ workers \in [Configs -> Workers \cup {NoWorker}]
    /\ cancelled \in BOOLEAN
    /\ wg \in Nat
    /\ panicked \in BOOLEAN
    /\ closePc \in [Closers -> {"idle", "wait", "abort", "returned"}]
    /\ pc \in [Workers -> WorkerPc]
    /\ key \in [Workers -> Configs]
    /\ queue \in [Workers -> Seq(Job)]
    /\ chClosed \in [Workers -> BOOLEAN]
    /\ cur \in [Workers -> Seq(Job)]
    /\ attempt \in [Workers -> 0..MaxAttempts]
    /\ sent \in [Configs -> Nat]
    /\ delivered \in [Configs -> SUBSET Nat]
    /\ failed \in [Configs -> SUBSET Nat]
    /\ posted \in [Configs -> Nat]

Init ==
    /\ closed = FALSE
    /\ workers = [k \in Configs |-> NoWorker]
    /\ cancelled = FALSE
    /\ wg = 0
    /\ panicked = FALSE
    /\ closePc = [c \in Closers |-> "idle"]
    /\ pc = [w \in Workers |-> "none"]
    /\ key \in [Workers -> Configs]
    /\ queue = [w \in Workers |-> <<>>]
    /\ chClosed = [w \in Workers |-> FALSE]
    /\ cur = [w \in Workers |-> <<>>]
    /\ attempt = [w \in Workers |-> 0]
    /\ sent = [k \in Configs |-> 0]
    /\ delivered = [k \in Configs |-> {}]
    /\ failed = [k \in Configs |-> {}]
    /\ posted = [k \in Configs |-> 0]

-----------------------------------------------------------------------------
(* SendPush *)

CountFailed(k, n) ==
    /\ failed' = [failed EXCEPT ![k] = @ \cup {n}]
    /\ UNCHANGED delivered

CountDelivered(k, n) ==
    /\ delivered' = [delivered EXCEPT ![k] = @ \cup {n}]
    /\ UNCHANGED failed

\* The entry of the worker map, or a goroutine slot for a new worker.
WorkerFor(k, w) ==
    IF workers[k] = NoWorker THEN pc[w] = "none" ELSE workers[k] = w

\* Without an entry: make the channel, register, wg.Add(1), go s.run.
EnsureWorker(k, w) ==
    IF workers[k] = NoWorker
    THEN /\ workers' = [workers EXCEPT ![k] = w]
         /\ wg' = wg + 1
         /\ pc' = [pc EXCEPT ![w] = "select"]
         /\ key' = [key EXCEPT ![w] = k]
    ELSE UNCHANGED <<workers, wg, pc, key>>

MutantOfferUncounted(k, w, job) ==
    /\ UNCHANGED <<delivered, failed>>
    /\ IF Len(queue[w]) < QueueSize /\ ~chClosed[w]
       THEN queue' = [queue EXCEPT ![w] = Append(@, job)] /\ UNCHANGED panicked
       ELSE UNCHANGED <<queue, panicked>>

\* select { case w.queue <- job: default: drop and count }
Offer(k, w, job) ==
    \/ /\ chClosed[w]
       /\ panicked' = TRUE
       /\ UNCHANGED <<queue, delivered, failed>>
    \/ /\ ~chClosed[w] /\ Len(queue[w]) < QueueSize
       /\ queue' = [queue EXCEPT ![w] = Append(@, job)]
       /\ UNCHANGED <<panicked, delivered, failed>>
    \/ /\ ~chClosed[w] /\ Len(queue[w]) >= QueueSize
       /\ CountFailed(k, job.n)
       /\ UNCHANGED <<panicked, queue>>

NextEvent(k) ==
    /\ sent[k] < MaxEvents
    /\ sent' = [sent EXCEPT ![k] = @ + 1]

\* The event cannot be encoded, or the sender is closed: counted, not queued.
SendPushRefused(k) ==
    /\ NextEvent(k)
    /\ CountFailed(k, sent[k] + 1)
    /\ UNCHANGED <<senderVars, workerVars, posted>>

SendPush(k, terminal) ==
    /\ ~closed
    /\ NextEvent(k)
    /\ \E w \in Workers :
          /\ WorkerFor(k, w)
          /\ EnsureWorker(k, w)
          /\ Offer(k, w, [n |-> sent[k] + 1, terminal |-> terminal])
    /\ UNCHANGED <<closed, cancelled, closePc, chClosed, cur, attempt, posted>>

-----------------------------------------------------------------------------
(* run: one worker *)

\* case job, ok := <-w.queue, ok
Receive(w) ==
    /\ pc[w] = "select"
    /\ queue[w] # <<>>
    /\ cur' = [cur EXCEPT ![w] = <<Head(queue[w])>>]
    /\ queue' = [queue EXCEPT ![w] = Tail(@)]
    /\ attempt' = [attempt EXCEPT ![w] = 1]
    /\ pc' = [pc EXCEPT ![w] = "attempt"]
    /\ UNCHANGED <<senderVars, key, chClosed, history>>

\* case job, ok := <-w.queue, !ok: closed by Close and fully drained
ReceiveClosed(w) ==
    /\ pc[w] = "select"
    /\ queue[w] = <<>>
    /\ chClosed[w]
    /\ pc' = [pc EXCEPT ![w] = "drained"]
    /\ UNCHANGED <<senderVars, key, queue, chClosed, cur, attempt, history>>

\* case <-idle.C; the timer may win over a job that is also ready
IdleFires(w) ==
    /\ pc[w] = "select"
    /\ pc' = [pc EXCEPT ![w] = "idle"]
    /\ UNCHANGED <<senderVars, key, queue, chClosed, cur, attempt, history>>

MutantRetireUnchecked(w) == TRUE

\* retire: nothing is queued, read with mu held
CanRetire(w) == queue[w] = <<>>

MutantUnregisterFirst(w) ==
    /\ pc[w] \in Retiring
    /\ workers' = [workers EXCEPT ![key[w]] = NoWorker]
    /\ pc' = [pc EXCEPT ![w] = IF CanRetire(w) THEN "exit" ELSE "select"]
    /\ UNCHANGED <<closed, cancelled, wg, panicked, closePc,
                   key, queue, chClosed, cur, attempt, history>>

\* The call of retire after a terminal event, an idle period or the drain.
\* In the last case run returns whatever retire says.
Retire(w) ==
    /\ pc[w] \in Retiring
    /\ workers' = IF CanRetire(w) /\ workers[key[w]] = w
                  THEN [workers EXCEPT ![key[w]] = NoWorker]
                  ELSE workers
    /\ pc' = [pc EXCEPT ![w] = IF CanRetire(w) \/ @ = "drained"
                               THEN "exit" ELSE "select"]
    /\ UNCHANGED <<closed, cancelled, wg, panicked, closePc,
                   key, queue, chClosed, cur, attempt, history>>

\* The deferred wg.Done; the goroutine's channel becomes garbage.
Exit(w) ==
    /\ pc[w] = "exit"
    /\ pc' = [pc EXCEPT ![w] = "none"]
    /\ wg' = wg - 1
    /\ queue' = [queue EXCEPT ![w] = <<>>]
    /\ chClosed' = [chClosed EXCEPT ![w] = FALSE]
    /\ UNCHANGED <<closed, workers, cancelled, panicked, closePc,
                   key, cur, attempt, history>>

-----------------------------------------------------------------------------
(* deliverJob, deliver and postOnce *)

\* The job is settled and the loop goes on, to retire after a terminal event.
FinishJob(w) ==
    /\ cur' = [cur EXCEPT ![w] = <<>>]
    /\ pc' = [pc EXCEPT ![w] = IF cur[w][1].terminal THEN "terminal" ELSE "select"]
    /\ attempt' = [attempt EXCEPT ![w] = 0]
    /\ UNCHANGED <<senderVars, key, queue, chClosed, sent, posted>>

JobFailed(w) ==
    /\ CountFailed(key[w], cur[w][1].n)
    /\ FinishJob(w)

\* The request leaves for the webhook; client.Do would fail at once on a
\* context that is already cancelled.
StartPost(w) ==
    /\ pc[w] = "attempt"
    /\ ~cancelled
    /\ pc' = [pc EXCEPT ![w] = "posting"]
    /\ posted' = [posted EXCEPT ![key[w]] = cur[w][1].n]
    /\ UNCHANGED <<senderVars, key, queue, chClosed, cur, attempt,
                   sent, delivered, failed>>

\* The request cannot be built, its target is blocked or the context is gone.
PostRefused(w) ==
    /\ pc[w] = "attempt"
    /\ JobFailed(w)

PostAccepted(w) ==
    /\ pc[w] = "posting"
    /\ CountDelivered(key[w], cur[w][1].n)
    /\ FinishJob(w)

MutantRetryOneMore(w, retryable) == retryable

\* deliver: try again after this failure?
TryAgain(w, retryable) == retryable /\ attempt[w] < MaxAttempts

\* 5xx is retryable, 4xx is not, a network error is as long as the context
\* lives: any answer may come in any state.
PostFailed(w, retryable) ==
    /\ pc[w] = "posting"
    /\ IF TryAgain(w, retryable)
       THEN /\ pc' = [pc EXCEPT ![w] = "backoff"]
            /\ UNCHANGED <<senderVars, key, queue, chClosed, cur, attempt, history>>
       ELSE JobFailed(w)

BackoffElapsed(w) ==
    /\ pc[w] = "backoff"
    /\ attempt' = [attempt EXCEPT ![w] = @ + 1]
    /\ pc' = [pc EXCEPT ![w] = "attempt"]
    /\ UNCHANGED <<senderVars, key, queue, chClosed, cur, history>>

BackoffAborted(w) ==
    /\ pc[w] = "backoff"
    /\ cancelled
    /\ JobFailed(w)

-----------------------------------------------------------------------------
(* Close *)

Registered(w) == \E k \in Configs : workers[k] = w

MutantCloseForgetsFlag(c) ==
    /\ closePc[c] = "idle"
    /\ closePc' = [closePc EXCEPT ![c] = "wait"]
    /\ chClosed' = [w \in Workers |-> chClosed[w] \/ Registered(w)]
    /\ UNCHANGED <<closed, workers, cancelled, wg, panicked, pc, key, queue,
                   cur, attempt, history>>

MutantCloseLeavesChannels(c) ==
    /\ closePc[c] = "idle"
    /\ closePc' = [closePc EXCEPT ![c] = "wait"]
    /\ closed' = TRUE
    /\ UNCHANGED <<workers, cancelled, wg, panicked, workerVars, history>>

CloseBegin(c) ==
    /\ closePc[c] = "idle"
    /\ closePc' = [closePc EXCEPT ![c] = "wait"]
    /\ IF ~closed
       THEN /\ closed' = TRUE
            /\ chClosed' = [w \in Workers |-> chClosed[w] \/ Registered(w)]
            /\ panicked' = (panicked \/ \E w \in Workers : chClosed[w] /\ Registered(w))
       ELSE UNCHANGED <<closed, chClosed, panicked>>
    /\ UNCHANGED <<workers, cancelled, wg, pc, key, queue, cur, attempt, history>>

\* wg.Wait has returned before ctx was done
CloseDrained(c) ==
    /\ closePc[c] = "wait"
    /\ wg = 0
    /\ cancelled' = TRUE
    /\ closePc' = [closePc EXCEPT ![c] = "returned"]
    /\ UNCHANGED <<closed, workers, wg, panicked, workerVars, history>>

MutantTimeoutReturns(c) ==
    /\ closePc[c] = "wait"
    /\ cancelled' = TRUE
    /\ closePc' = [closePc EXCEPT ![c] = "returned"]
    /\ UNCHANGED <<closed, workers, wg, panicked, workerVars, history>>

\* ctx is done first: cancel the deliveries and wait for the workers
CloseTimesOut(c) ==
    /\ closePc[c] = "wait"
    /\ cancelled' = TRUE
    /\ closePc' = [closePc EXCEPT ![c] = "abort"]
    /\ UNCHANGED <<closed, workers, wg, panicked, workerVars, history>>

CloseAborted(c) ==
    /\ closePc[c] = "abort"
    /\ wg = 0
    /\ closePc' = [closePc EXCEPT ![c] = "returned"]
    /\ UNCHANGED <<closed, workers, cancelled, wg, panicked, workerVars, history>>

-----------------------------------------------------------------------------

\* What a worker does by itself once it has something to do.
Progress(w) ==
    \/ ReceiveClosed(w) \/ Retire(w) \/ Exit(w)
    \/ StartPost(w) \/ PostRefused(w) \/ PostAccepted(w)
    \/ \E retryable \in BOOLEAN : PostFailed(w, retryable)
    \/ BackoffElapsed(w) \/ BackoffAborted(w)

Next ==
    \/ \E k \in Configs :
          \/ SendPushRefused(k)
          \/ \E terminal \in BOOLEAN : SendPush(k, terminal)
    \/ \E w \in Workers : Receive(w) \/ IdleFires(w) \/ Progress(w)
    \/ \E c \in Closers :
          CloseBegin(c) \/ CloseDrained(c) \/ CloseTimesOut(c) \/ CloseAborted(c)

\* A worker keeps running (each attempt ends by pushAttemptTimeout, each delay
\* by its timer). Receive is strongly fair: after a retire that found a job,
\* idle.Reset re-arms the timer and the next select can only take the job.
\* A Close call that may return does. Nobody is obliged to call SendPush or
\* Close, and neither the idle timer nor Close's context need ever expire.
Fairness ==
    /\ \A w \in Workers : WF_vars(Progress(w)) /\ SF_vars(Receive(w))
    /\ \A c \in Closers : WF_vars(CloseDrained(c)) /\ WF_vars(CloseAborted(c))

Spec == Init /\ [][Next]_vars
FairSpec == Spec /\ Fairness

-----------------------------------------------------------------------------
(* Correctness *)

\* A queued job is never left without a worker (the comment in SendPush): the
\* goroutine whose channel holds it is registered and has not left its loop,
\* however SendPush, retire and the idle timer interleave.
NoOrphanedJob ==
    \A w \in Workers : queue[w] # <<>> => Running(w) /\ workers[key[w]] = w

\* At most one goroutine delivers for a config at any time, also while a
\* retired worker has not exited and its successor is already running.
OneDeliverer ==
    \A v, w \in Workers : Running(v) /\ Running(w) /\ key[v] = key[w] => v = w

\* The events a config's registered worker holds, oldest first.
Pending(k) ==
    LET Held(w) == [i \in 1..Len(cur[w] \o queue[w]) |-> (cur[w] \o queue[w])[i].n]
    IN  IF workers[k] = NoWorker THEN <<>> ELSE Held(workers[k])

\* Every event handed to SendPush is in exactly one place: counted (delivered
\* or failed, not both) or held once by its config's worker.
EveryEventAccounted ==
    \A k \in Configs :
        /\ delivered[k] \cap failed[k] = {}
        /\ Counted(k) \cap {Pending(k)[i] : i \in DOMAIN Pending(k)} = {}
        /\ Counted(k) \cup {Pending(k)[i] : i \in DOMAIN Pending(k)} = 1..sent[k]

\* "one worker that delivers its events in order": a webhook never sees an
\* event after a younger one, whatever retries, retirements and respawns
\* happen in between.
PostedInOrder == [][\A k \in Configs : posted'[k] >= posted[k]]_vars

\* No goroutine sends on, or closes, a channel that Close has closed.
NoPanic == ~panicked

\* When Close has returned, by draining or by its deadline, no worker is left
\* and every event has been counted.
CloseLeavesNothing ==
    (\E c \in Closers : closePc[c] = "returned") =>
        /\ \A w \in Workers : pc[w] = "none"
        /\ \A k \in Configs : Counted(k) = 1..sent[k]

(***************************************************************************)
(* The inductive strengthening from which the safety properties follow.    *)
(***************************************************************************)

\* Where a worker is determines what it holds.
WorkerShape ==
    \A w \in Workers :
        /\ pc[w] \in Delivering <=> cur[w] # <<>>
        /\ Len(cur[w]) <= 1
        /\ pc[w] = "backoff" => attempt[w] < MaxAttempts
        /\ pc[w] = "drained" => queue[w] = <<>> /\ chClosed[w]
        /\ pc[w] = "none" => ~chClosed[w]
        /\ ~Running(w) => queue[w] = <<>>

\* The worker map and the running goroutines describe each other.
Registration ==
    /\ \A k \in Configs : workers[k] # NoWorker =>
          Running(workers[k]) /\ key[workers[k]] = k
    /\ \A w \in Workers : Running(w) => workers[key[w]] = w

\* The channels of running workers are closed exactly when the sender is.
ChannelsFollowSender == \A w \in Workers : Running(w) => chClosed[w] = closed

WaitGroupCounts == wg = Cardinality({w \in Workers : pc[w] # "none"})

Closing ==
    \A c \in Closers :
        /\ closePc[c] # "idle" => closed
        /\ closePc[c] = "returned" => \A w \in Workers : pc[w] = "none"

IInv ==
    /\ TypeOK
    /\ WorkerShape
    /\ Registration
    /\ ChannelsFollowSender
    /\ WaitGroupCounts
    /\ Closing
    /\ NoPanic

\* Why events are posted in order: what a worker holds is younger than what it
\* has posted, and the oldest is in front.
HeldInOrder ==
    \A k \in Configs :
        /\ posted[k] <= sent[k]
        /\ \A i \in DOMAIN Pending(k) :
              /\ posted[k] <= Pending(k)[i] /\ Pending(k)[i] <= sent[k]
              /\ \A j \in DOMAIN Pending(k) : i < j => Pending(k)[i] < Pending(k)[j]

\* Every Close call returns, whether or not its context ever expires.
CloseReturns == \A c \in Closers : closePc[c] = "wait" ~> closePc[c] = "returned"

\* The sender implements the ordered, accounted delivery of PushDelivery.
Delivery == INSTANCE PushDelivery
    WITH shut <- closed, raised <- sent, pending <- [k \in Configs |-> Pending(k)]

ImplementsDelivery == Delivery!Spec

====
