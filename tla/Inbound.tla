---- MODULE Inbound ----
(***************************************************************************)
(* The way of a request into a bridge: the protocol guard, the execution   *)
(* of module TaskExchange it starts, and what a new message wakes up       *)
(* (Store.OnIncoming): the responder, which lets a headless CLI answer, or *)
(* the nudger, which types a directive into the terminal of the host       *)
(* (internal/agent/responder.go, nudger.go, guard.go; wired in             *)
(* internal/cli/bridge.go). Requests, executions, handlers, the peer and   *)
(* the host interleave; the guard looks up a task in one step and the      *)
(* server serves the subscription in another. User hooks are left out:     *)
(* they run on their own, bounded by a timeout, and nobody waits for them. *)
(***************************************************************************)
EXTENDS TaskExchange, Guard

CONSTANTS Subs,         \* subscription requests
          Forms,        \* forms a request comes in
          CoalesceFor,  \* Nudger.coalesceFor
          MaxClock,     \* bound on the clock
          MaxRequests   \* bound on the requests

\* The responder's call for task t is t itself, the others are the host's.
ASSUME InboundAssumption ==
    /\ Tasks \subseteq Calls
    /\ Subs \cap Tasks = {}
    /\ Forms \subseteq Request /\ \A f \in Forms : Len(f.param) <= 1
    /\ CoalesceFor \in Nat \ {0}
    /\ MaxClock \in Nat /\ MaxRequests \in Nat

VARIABLES
    rq,           \* rq[q]: the request that sends task q, or subscription q
    requests,     \* how many came
    mode,         \* what OnIncoming is: A2A_RESPONDER comes before A2A_NUDGE
    wake,         \* wake[t]: the handler started for the message of t
    clock, lastNudgeAt,
    \* observation
    arrived,      \* arrived[t]: when the message of t was queued
    nudges        \* when nudges began
wakeVars == <<mode, wake, clock, lastNudgeAt, arrived, nudges>>
inboundVars == <<vars, rq, requests, wakeVars>>  \* vars: those of the exchange

Modes == {"responder", "nudger"}

\* at: a place, or the error that was answered; task: NoCall if none is named;
\* accepted: the server takes the version; over: the task had ended already
\* when the subscription arrived, and no lookup has failed.
NoRequest == [at |-> "none", task |-> NoCall, accepted |-> TRUE, over |-> FALSE]

InboundTypeOK ==
    /\ TypeOK
    /\ rq \in [Tasks \cup Subs ->
                 [at : {"none", "lookup", "passed", "served", "stream", "errorStream"}
                       \cup DOMAIN httpStatus,
                  task : Tasks \cup {NoCall}, accepted : BOOLEAN, over : BOOLEAN]]
    /\ requests \in 0..MaxRequests
    /\ mode \in Modes
    /\ wake \in [Tasks -> {"none", "started", "running", "completing", "nudging", "skipped",
                           "answered", "failed", "done"}]
    /\ clock \in Nat /\ lastNudgeAt \in Nat /\ nudges \subseteq Nat
    /\ arrived \in [Tasks -> Nat]

\* The time of the last nudge is the zero time at first: long ago.
InboundInit ==
    /\ Init
    /\ rq = [q \in Tasks \cup Subs |-> NoRequest] /\ requests = 0
    /\ mode \in Modes
    /\ wake = [t \in Tasks |-> "none"]
    /\ clock = CoalesceFor /\ lastNudgeAt = 0
    /\ arrived = [t \in Tasks |-> 0] /\ nudges = {}

-----------------------------------------------------------------------------
(* The guard *)

\* A subscription the guard understands and that names its task; any other one
\* is left to the server.
LooksUp(q, form) == q \in Subs /\ form.known /\ form.names

\* jsonrpc and rest up to the lookup: the body, the version, the pin.
Receive(q, t, form) ==
    LET passed == [at |-> IF LooksUp(q, form) THEN "lookup" ELSE "passed",
                   task |-> IF LooksUp(q, form) \/ q = t THEN t ELSE NoCall,
                   over |-> LooksUp(q, form) /\ Ended(t),
                   accepted |-> ServerTakes(pinProtocolVersion(form))]
    IN  /\ rq[q].at = "none" /\ requests < MaxRequests
        /\ requests' = requests + 1
        /\ rq' = [rq EXCEPT ![q] =
              IF form.body # "ok" THEN [@ EXCEPT !.at = bodyReadError(form).err]
              ELSE IF ~checkProtocolVersion(form)
              THEN [@ EXCEPT !.at = writeError(form, "VersionNotSupported").err]
              ELSE passed]
        /\ UNCHANGED <<vars, wakeVars>>

\* What a lookup in the task store finds.
Lookup(t) ==
    IF status[t] \in {"none", "gone"} THEN "missing"
    ELSE IF Ended(t) THEN "terminal" ELSE "open"

MutantAlwaysSubscribable(q, found) ==
    /\ rq[q].at = "lookup"
    /\ rq' = [rq EXCEPT ![q].at = "passed"]
    /\ UNCHANGED <<vars, requests, wakeVars>>

checkSubscribable(q, found) ==
    LET err == SubscribeError(found)
    IN  /\ rq[q].at = "lookup"
        /\ found \in {Lookup(rq[q].task), "failed"}
        /\ rq' = [rq EXCEPT ![q].at = IF err = "" THEN "passed" ELSE err,
                             ![q].over = @ /\ found # "failed"]
        /\ UNCHANGED <<vars, requests, wakeVars>>

\* The server opens a stream; for a task that is missing or has ended it holds
\* only an error. A subscription that names no task is refused there.
Subscribe(q) ==
    /\ q \in Subs
    /\ rq[q].at = "passed" /\ rq[q].accepted
    /\ rq' = [rq EXCEPT ![q].at = IF rq[q].task = NoCall THEN "InvalidRequest"
                                  ELSE IF Lookup(rq[q].task) = "open" THEN "stream"
                                  ELSE "errorStream"]
    /\ UNCHANGED <<vars, requests, wakeVars>>

-----------------------------------------------------------------------------
(* The execution *)

\* The message reaches the executor.
Submit(t) ==
    /\ rq[t].at = "passed" /\ rq[t].accepted
    /\ YieldSubmitted(t)
    /\ rq' = [rq EXCEPT ![t].at = "served"]
    /\ UNCHANGED <<requests, wakeVars>>

\* deliverIncoming starts the handler, in a goroutine, for a new entry only.
Deliver(t) ==
    /\ deliverIncoming(t)
    /\ wake' = IF pc'[t] = "queued" THEN [wake EXCEPT ![t] = "started"] ELSE wake
    /\ arrived' = IF pc'[t] = "queued" THEN [arrived EXCEPT ![t] = clock] ELSE arrived
    /\ UNCHANGED <<rq, requests, mode, clock, lastNudgeAt, nudges>>

Execute(t) ==
    /\ \/ registerWaiter(t)
       \/ YieldRejected(t) \/ YieldWorking(t)
       \/ TakeReply(t) \/ ContextDone(t)
       \/ YieldArtifact(t) \/ YieldCompleted(t)
       \/ unregisterWaiter(t)
    /\ UNCHANGED <<rq, requests, wakeVars>>

PeerCancels(t) == Cancel(t) /\ UNCHANGED <<rq, requests, wakeVars>>

HostLooks(drain) == HostReads(drain) /\ UNCHANGED <<rq, requests, wakeVars>>

HostAnswers(c, t) ==
    /\ c \notin Tasks
    /\ dropTaskEntries(c, t)
    /\ UNCHANGED <<rq, requests, wakeVars>>

HostAnswered(c) ==
    /\ c \notin Tasks
    /\ CompleteTask(c)
    /\ UNCHANGED <<rq, requests, wakeVars>>

-----------------------------------------------------------------------------
(* Responder.Handle *)

Wake(t, place) == wake' = [wake EXCEPT ![t] = place]

\* An entry without text is left to the host. (Replies to own questions do not
\* come this way: appendSyntheticReply starts no handler.)
Respond(t, empty) ==
    /\ mode = "responder"
    /\ wake[t] = "started"
    /\ handed' = handed \cup {t}
    /\ Wake(t, IF empty THEN "done" ELSE "running")
    /\ UNCHANGED <<messageOf, pc, waiters, replies, taken, inbox, status, callPc, callTask,
                   restarts, evicted, answer, rq, requests, mode, clock, lastNudgeAt, arrived, nudges>>

\* run: the CLI failed or was killed at the timeout; or it said nothing.
RunFails(t) ==
    /\ wake[t] = "running"
    /\ Wake(t, "failed")
    /\ UNCHANGED <<vars, rq, requests, mode, clock, lastNudgeAt, arrived, nudges>>

\* run: an answer; CompleteTask drops the entry of the inbox ...
RunAnswers(t) ==
    /\ wake[t] = "running"
    /\ dropTaskEntries(t, t)
    /\ Wake(t, "completing")
    /\ UNCHANGED <<rq, requests, mode, clock, lastNudgeAt, arrived, nudges>>

\* ... and hands the answer over, or fails.
Complete(t) ==
    /\ wake[t] = "completing"
    /\ CompleteTask(t)
    /\ Wake(t, IF callPc'[t] = "ok" THEN "answered" ELSE "failed")
    /\ UNCHANGED <<rq, requests, mode, clock, lastNudgeAt, arrived, nudges>>

-----------------------------------------------------------------------------
(* Nudger.Handle *)

MutantCoalesces == clock - lastNudgeAt <= CoalesceFor

\* A nudge began so recently that this message needs none.
Coalesces == clock - lastNudgeAt < CoalesceFor

\* The time is set under the lock, before the nudge, whether it succeeds or not.
Nudge(t) ==
    /\ mode = "nudger"
    /\ wake[t] = "started"
    /\ Wake(t, IF Coalesces THEN "skipped" ELSE "nudging")
    /\ lastNudgeAt' = IF Coalesces THEN lastNudgeAt ELSE clock
    /\ nudges' = IF Coalesces THEN nudges ELSE nudges \cup {clock}
    /\ UNCHANGED <<vars, rq, requests, mode, clock, arrived>>

\* The keystrokes were sent, or the backend failed and nobody tries again.
NudgeEnds(t, ok) ==
    /\ wake[t] = "nudging"
    /\ Wake(t, IF ok THEN "done" ELSE "failed")
    /\ UNCHANGED <<vars, rq, requests, mode, clock, lastNudgeAt, arrived, nudges>>

Tick ==
    /\ mode = "nudger"
    /\ clock < MaxClock
    /\ clock' = clock + 1
    /\ UNCHANGED <<vars, rq, requests, mode, wake, lastNudgeAt, arrived, nudges>>

-----------------------------------------------------------------------------

Handler(t) ==
    \/ \E empty \in BOOLEAN : Respond(t, empty)
    \/ RunFails(t) \/ RunAnswers(t) \/ Complete(t)
    \/ Nudge(t) \/ \E ok \in BOOLEAN : NudgeEnds(t, ok)

InboundNext ==
    \/ \E q \in Tasks \cup Subs :
          \/ \E t \in Tasks, form \in Forms : (q \in Subs \/ q = t) /\ Receive(q, t, form)
          \/ \E found \in {"missing", "terminal", "open", "failed"} : checkSubscribable(q, found)
          \/ Subscribe(q)
    \/ \E t \in Tasks :
          \/ Submit(t) \/ Deliver(t) \/ Execute(t) \/ PeerCancels(t)
          \/ Handler(t)
    \/ \E drain \in BOOLEAN : HostLooks(drain)
    \/ \E c \in Calls : HostAnswered(c) \/ \E t \in Tasks : HostAnswers(c, t)
    \/ Tick

InboundSpec == InboundInit /\ [][InboundNext]_inboundVars

-----------------------------------------------------------------------------
(* Correctness *)

\* "Would otherwise be refused after the guard has already accepted them": the
\* server takes the version of every request the guard lets through, whichever
\* of header and parameter carries it, and in whatever spelling.
AcceptedIsServed == \A q \in Tasks \cup Subs : rq[q].at = "passed" => rq[q].accepted

\* A subscription to a task that had ended before it arrived is answered with a
\* plain error, never with a stream, however the task store, executions and
\* cancelations go on meanwhile; a task may only end between lookup and stream,
\* and a failing lookup is the server's to report.
NoStreamForEnded ==
    [][\A q \in Subs : rq'[q].at = "errorStream" /\ rq[q].at = "passed" => ~rq[q].over]_inboundVars

\* Nudges keep their distance however many handlers run at once, and every
\* message whose handler is through has a nudge that began after its arrival or
\* less than the window before it.
NudgeCadence ==
    /\ \A m, n \in nudges : m < n => n - m >= CoalesceFor
    /\ \A t \in Tasks : mode = "nudger" /\ wake[t] \notin {"none", "started"} =>
          \E n \in nudges : n + CoalesceFor > arrived[t]

\* The answer a responder's run has produced is refused only when it comes too
\* late: the task has ended, or the host's own answer was accepted first.
RefusedOnlyWhenLate ==
    \A t \in Tasks :
        /\ callPc[t] = "notFound" => Ended(t)
        /\ callPc[t] = "pending" =>
              \E c \in Calls \ Tasks : callTask[c] = t /\ callPc[c] = "ok"

-----------------------------------------------------------------------------
(* The inductive invariant *)

\* A request that is looked up or passed on carries a version the server takes.
\* A subscription to a task that had ended still finds it ended, and is not
\* passed on.
RequestShape ==
    \A q \in Tasks \cup Subs :
        /\ rq[q].at \in {"lookup", "passed"} => rq[q].accepted
        /\ rq[q].at = "lookup" => rq[q].task \in Tasks /\ (rq[q].over => Ended(rq[q].task))
        /\ rq[q].at = "passed" => ~rq[q].over

\* A handler runs only for a message that was queued.
WakeShape ==
    \A t \in Tasks : wake[t] # "none" => pc[t] \notin {"idle", "submitted", "registered", "duplicate"}

\* The responder answers the task it runs for, every call that is under way is
\* about a task the host was told of, and a reply in a channel was accepted.
CallShape ==
    /\ \A c \in Calls : callPc[c] # "idle" => callTask[c] \in handed
    /\ \A t \in Tasks : callPc[t] # "idle" => callTask[t] = t
    /\ \A t \in Tasks : replies[t] # NoCall =>
          callPc[replies[t]] = "ok" /\ callTask[replies[t]] = t

\* lastNudgeAt is the time of the last nudge; the window before the first one
\* is over.
NudgeClock ==
    /\ clock >= CoalesceFor /\ lastNudgeAt <= clock
    /\ \A n \in nudges : n <= lastNudgeAt
    /\ IF nudges = {} THEN lastNudgeAt = 0 ELSE lastNudgeAt \in nudges
    /\ \A t \in Tasks : arrived[t] <= clock

InboundInv ==
    /\ InboundTypeOK /\ IInv
    /\ RequestShape /\ WakeShape /\ CallShape /\ NudgeClock
    /\ NudgeCadence /\ RefusedOnlyWhenLate

====
