---- MODULE TaskExchange ----
(***************************************************************************)
(* One inbound question from its arrival to its answer                     *)
(* (internal/agent/executor.go): Execute registers a waiter, queues the    *)
(* message for the host and waits for a reply or the cancelation of the    *)
(* task; CompleteTask, called by the host in two critical sections, drops  *)
(* the inbox entry and hands the reply to the waiter.                      *)
(*                                                                         *)
(* The A2A server around the executor is external: it starts one execution *)
(* per task, stores the events an execution yields until the task has      *)
(* ended, answers a yield after that with false, and cancels the context   *)
(* of a canceled task. The inbox is a set of tasks (module Inbox has its   *)
(* order, its snapshot and the reply entries). A message sent twice makes  *)
(* two tasks; a restart keeps the inbox and forgets everything else.       *)
(***************************************************************************)
EXTENDS Naturals, FiniteSets

CONSTANTS Tasks,        \* inbound tasks
          Messages,     \* messageIds
          Calls,        \* calls of a2a_complete_task
          NoCall,       \* absence of a reply
          SoftCap,      \* inboxSoftCap
          MaxRestarts   \* bound on the restarts of the bridge

ASSUME ExchangeAssumption ==
    /\ Tasks # {}
    /\ NoCall \notin Calls
    /\ SoftCap \in Nat \ {0}
    /\ MaxRestarts \in Nat

VARIABLES
    messageOf,  \* messageOf[t]: the messageId task t is created with
    pc,         \* pc[t]: where the execution of t is
    waiters,    \* tasks with an entry in Executor.waiters
    replies,    \* replies[t]: the call whose reply is in the waiter's channel
    taken,      \* taken[t]: the call whose reply the execution took
    inbox,      \* tasks with an entry in the store's inbox
    status,     \* status[t]: the state of the task at the server
    callPc,     \* callPc[c]: progress and result of a CompleteTask call
    callTask,   \* callTask[c]: its argument
    restarts,
    \* observation
    handed,     \* tasks the host has been told of
    evicted,    \* tasks whose entry the soft cap dropped
    answer      \* answer[t]: the call whose reply is the task's artifact

execVars == <<pc, waiters, replies, taken>>
callVars == <<callPc, callTask>>
vars == <<messageOf, execVars, callVars, inbox, status, restarts, handed, evicted, answer>>

Ended(t) == status[t] \in {"completed", "canceled", "rejected", "gone"}

TypeOK ==
    /\ messageOf \in [Tasks -> Messages]
    /\ pc \in [Tasks -> {"idle", "submitted", "registered", "queued", "duplicate",
                         "waiting", "consumed", "artifact", "return", "done"}]
    /\ waiters \subseteq Tasks
    /\ replies \in [Tasks -> Calls \cup {NoCall}]
    /\ taken \in [Tasks -> Calls \cup {NoCall}]
    /\ inbox \subseteq Tasks
    /\ status \in [Tasks -> {"none", "submitted", "working", "completed", "canceled",
                             "rejected", "gone"}]
    /\ callPc \in [Calls -> {"idle", "dropped", "ok", "notFound", "pending"}]
    /\ callTask \in [Calls -> Tasks]
    /\ restarts \in Nat
    /\ handed \subseteq Tasks /\ evicted \subseteq Tasks
    /\ answer \in [Tasks -> Calls \cup {NoCall}]

Init ==
    /\ messageOf \in [Tasks -> Messages]
    /\ pc = [t \in Tasks |-> "idle"]
    /\ waiters = {}
    /\ replies = [t \in Tasks |-> NoCall]
    /\ taken = [t \in Tasks |-> NoCall]
    /\ inbox = {}
    /\ status = [t \in Tasks |-> "none"]
    /\ callPc = [c \in Calls |-> "idle"]
    /\ callTask = [c \in Calls |-> CHOOSE t \in Tasks : TRUE]
    /\ restarts = 0
    /\ handed = {} /\ evicted = {}
    /\ answer = [t \in Tasks |-> NoCall]

-----------------------------------------------------------------------------
(* Execute *)

\* yield of a status event: stored, and true, as long as the task has not ended.
YieldStatus(t, state, next) ==
    IF Ended(t)
    THEN /\ pc' = [pc EXCEPT ![t] = "return"]
         /\ UNCHANGED status
    ELSE /\ pc' = [pc EXCEPT ![t] = next]
         /\ status' = [status EXCEPT ![t] = state]

\* A new message: the server creates the task from the first event.
YieldSubmitted(t) ==
    /\ pc[t] = "idle"
    /\ status[t] = "none"
    /\ YieldStatus(t, "submitted", "submitted")
    /\ UNCHANGED <<waiters, replies, taken, callVars, inbox, messageOf, restarts, handed, evicted, answer>>

MutantForgetWaiter(t) ==
    /\ pc[t] = "submitted"
    /\ pc' = [pc EXCEPT ![t] = "registered"]
    /\ UNCHANGED <<waiters, replies, taken, callVars, inbox, status, messageOf, restarts, handed, evicted, answer>>

registerWaiter(t) ==
    /\ pc[t] = "submitted"
    /\ pc' = [pc EXCEPT ![t] = "registered"]
    /\ waiters' = waiters \cup {t}
    /\ replies' = [replies EXCEPT ![t] = NoCall]
    /\ UNCHANGED <<taken, callVars, inbox, status, messageOf, restarts, handed, evicted, answer>>

MutantDuplicateWaits(t) ==
    /\ pc[t] = "registered"
    /\ pc' = [pc EXCEPT ![t] = "queued"]
    /\ inbox' = IF \E o \in inbox : messageOf[o] = messageOf[t] THEN inbox ELSE inbox \cup {t}
    /\ UNCHANGED <<waiters, replies, taken, callVars, status, messageOf, restarts, handed, evicted, answer>>

\* deliverIncoming refuses a messageId that is already queued; past the soft
\* cap it drops the oldest entry, here any.
deliverIncoming(t) ==
    /\ pc[t] = "registered"
    /\ \/ /\ \E o \in inbox : messageOf[o] = messageOf[t]
          /\ pc' = [pc EXCEPT ![t] = "duplicate"]
          /\ UNCHANGED <<inbox, evicted>>
       \/ /\ \A o \in inbox : messageOf[o] # messageOf[t]
          /\ pc' = [pc EXCEPT ![t] = "queued"]
          /\ \E out \in SUBSET inbox :
                /\ IF Cardinality(inbox) < SoftCap THEN out = {} ELSE Cardinality(out) = 1
                /\ inbox' = (inbox \ out) \cup {t}
                /\ evicted' = evicted \cup out
    /\ UNCHANGED <<waiters, replies, taken, callVars, status, messageOf, restarts, handed, answer>>

YieldRejected(t) ==
    /\ pc[t] = "duplicate"
    /\ YieldStatus(t, "rejected", "return")
    /\ UNCHANGED <<waiters, replies, taken, callVars, inbox, messageOf, restarts, handed, evicted, answer>>

YieldWorking(t) ==
    /\ pc[t] = "queued"
    /\ YieldStatus(t, "working", "waiting")
    /\ UNCHANGED <<waiters, replies, taken, callVars, inbox, messageOf, restarts, handed, evicted, answer>>

\* case reply := <-replies; the waiter stays registered
TakeReply(t) ==
    /\ pc[t] = "waiting"
    /\ replies[t] # NoCall
    /\ pc' = [pc EXCEPT ![t] = "consumed"]
    /\ taken' = [taken EXCEPT ![t] = replies[t]]
    /\ replies' = [replies EXCEPT ![t] = NoCall]
    /\ UNCHANGED <<waiters, callVars, inbox, status, messageOf, restarts, handed, evicted, answer>>

MutantIgnoreCancel(t) == FALSE

\* case <-ctx.Done(); with a reply ready as well either case may be chosen
ContextDone(t) ==
    /\ pc[t] = "waiting"
    /\ status[t] = "canceled"
    /\ pc' = [pc EXCEPT ![t] = "return"]
    /\ UNCHANGED <<waiters, replies, taken, callVars, inbox, status, messageOf, restarts, handed, evicted, answer>>

YieldArtifact(t) ==
    /\ pc[t] = "consumed"
    /\ pc' = [pc EXCEPT ![t] = IF Ended(t) THEN "return" ELSE "artifact"]
    /\ answer' = IF Ended(t) THEN answer ELSE [answer EXCEPT ![t] = taken[t]]
    /\ UNCHANGED <<waiters, replies, taken, callVars, inbox, status, messageOf, restarts, handed, evicted>>

YieldCompleted(t) ==
    /\ pc[t] = "artifact"
    /\ YieldStatus(t, "completed", "return")
    /\ UNCHANGED <<waiters, replies, taken, callVars, inbox, messageOf, restarts, handed, evicted, answer>>

\* The deferred call: the channel, and a reply in it, is gone.
unregisterWaiter(t) ==
    /\ pc[t] = "return"
    /\ pc' = [pc EXCEPT ![t] = "done"]
    /\ waiters' = waiters \ {t}
    /\ replies' = [replies EXCEPT ![t] = NoCall]
    /\ UNCHANGED <<taken, callVars, inbox, status, messageOf, restarts, handed, evicted, answer>>

-----------------------------------------------------------------------------
(* The peer, the host and the bridge process *)

\* A peer cancels a task it has been told of: Cancel yields the event.
Cancel(t) ==
    /\ status[t] \in {"submitted", "working"}
    /\ status' = [status EXCEPT ![t] = "canceled"]
    /\ UNCHANGED <<execVars, callVars, inbox, messageOf, restarts, handed, evicted, answer>>

\* a2a_inbox, the hook, OnIncoming: the host reads, or drains, the inbox.
HostReads(drain) ==
    /\ inbox # {}
    /\ handed' = handed \cup inbox
    /\ inbox' = IF drain THEN {} ELSE inbox
    /\ UNCHANGED <<execVars, callVars, status, messageOf, restarts, evicted, answer>>

\* CompleteTask, first critical section: the entry goes, whatever follows.
dropTaskEntries(c, t) ==
    /\ callPc[c] = "idle"
    /\ t \in handed
    /\ callPc' = [callPc EXCEPT ![c] = "dropped"]
    /\ callTask' = [callTask EXCEPT ![c] = t]
    /\ inbox' = inbox \ {t}
    /\ UNCHANGED <<execVars, status, messageOf, restarts, handed, evicted, answer>>

MutantSendDropped(c) ==
    /\ callPc[c] = "dropped"
    /\ callPc' = [callPc EXCEPT ![c] = IF callTask[c] \in waiters THEN "ok" ELSE "notFound"]
    /\ UNCHANGED <<execVars, callTask, inbox, status, messageOf, restarts, handed, evicted, answer>>

\* CompleteTask, second critical section: the reply goes to the waiter, if
\* there is one and its channel is empty.
CompleteTask(c) ==
    LET t == callTask[c]
        result == IF t \notin waiters THEN "notFound"
                  ELSE IF replies[t] # NoCall THEN "pending" ELSE "ok"
    IN  /\ callPc[c] = "dropped"
        /\ callPc' = [callPc EXCEPT ![c] = result]
        /\ replies' = IF result = "ok" THEN [replies EXCEPT ![t] = c] ELSE replies
        /\ UNCHANGED <<pc, waiters, taken, callTask, inbox, status, messageOf, restarts, handed, evicted, answer>>

\* Executions, waiters, running calls and the server's tasks die with the
\* process, the inbox comes back from its snapshot.
Restart ==
    /\ restarts < MaxRestarts
    /\ restarts' = restarts + 1
    /\ pc' = [t \in Tasks |-> IF pc[t] = "idle" THEN "idle" ELSE "done"]
    /\ waiters' = {}
    /\ replies' = [t \in Tasks |-> NoCall]
    /\ status' = [t \in Tasks |-> IF status[t] = "none" THEN "none" ELSE "gone"]
    /\ callPc' = [c \in Calls |-> IF callPc[c] = "dropped" THEN "idle" ELSE callPc[c]]
    /\ UNCHANGED <<messageOf, taken, callTask, inbox, handed, evicted, answer>>

-----------------------------------------------------------------------------

Step(t) ==
    \/ registerWaiter(t) \/ deliverIncoming(t)
    \/ YieldRejected(t) \/ YieldWorking(t)
    \/ TakeReply(t) \/ ContextDone(t)
    \/ YieldArtifact(t) \/ YieldCompleted(t)
    \/ unregisterWaiter(t)

Next ==
    \/ \E t \in Tasks : YieldSubmitted(t) \/ Step(t) \/ Cancel(t)
    \/ \E drain \in BOOLEAN : HostReads(drain)
    \/ \E c \in Calls : CompleteTask(c) \/ \E t \in Tasks : dropTaskEntries(c, t)
    \/ Restart

\* A started execution and a started call go on. Peers need not cancel and the
\* host need not read its inbox or answer.
Fairness ==
    /\ \A t \in Tasks : WF_vars(Step(t))
    /\ \A c \in Calls : WF_vars(CompleteTask(c))

Spec == Init /\ [][Next]_vars
FairSpec == Spec /\ Fairness

-----------------------------------------------------------------------------
(* Correctness *)

\* As long as the task is open, the host's answer to an entry it has, or can
\* still be given, finds the waiter: CompleteTask does not answer "not found".
AnswerableWhileOpen == \A t \in inbox \cup handed : ~Ended(t) => t \in waiters

\* A peer that waits has its question where the host finds it: in the inbox or
\* already told, unless the soft cap dropped it.
WaitingIsKnown == \A t \in Tasks : pc[t] = "waiting" => t \in inbox \cup handed \cup evicted

\* Where an execution is determines its waiter and its task.
ExecutionShape ==
    \A t \in Tasks :
        /\ t \in waiters <=> pc[t] \notin {"idle", "submitted", "done"}
        /\ pc[t] = "idle" <=> status[t] = "none"
        /\ pc[t] \in {"return", "done"} => Ended(t)
        /\ pc[t] \in {"idle", "submitted", "registered", "duplicate"} =>
              t \notin inbox \cup handed
        /\ pc[t] = "queued" => t \in inbox \cup handed \cup evicted

IInv == TypeOK /\ ExecutionShape /\ AnswerableWhileOpen /\ WaitingIsKnown

\* The tool's promise, "Attach a reply as an Artifact and mark the local task
\* COMPLETED": when the call succeeded and the task was completed, the
\* artifact is that call's reply.
AcceptedReplyRecorded ==
    \A c \in Calls :
        callPc[c] = "ok" /\ status[callTask[c]] = "completed" => answer[callTask[c]] = c

\* The comment in Execute, "The same messageId is already queued under another
\* task: the host answers that one": the other task can still be answered.
DuplicateHasLiveOriginal ==
    [][\A t \in Tasks : pc[t] = "registered" /\ pc'[t] = "duplicate" =>
          \E o \in inbox : messageOf[o] = messageOf[t] /\ ~Ended(o)]_vars

\* Every reply that was handed over ends its task: completed, or canceled first.
AcceptedReplyEndsTask ==
    \A c \in Calls : callPc[c] = "ok" ~> Ended(callTask[c])

\* A canceled task releases its waiter, whatever the execution was doing.
CancelReleasesWaiter == \A t \in Tasks : status[t] = "canceled" ~> t \notin waiters

====
