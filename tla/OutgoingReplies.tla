---- MODULE OutgoingReplies ----
(***************************************************************************)
(* Replies to the questions this agent sends: a2a_send_message records the *)
(* peer's task (store.go TrackOutgoing), then two paths race to turn its   *)
(* end into an inbox entry: a stream per send (mcp.go                      *)
(* subscribeOutgoingReply, store.go IngestOutgoingTerminal) and the poll   *)
(* loop (bridge.go, store.go PollOutgoing). Each removes the record in one *)
(* critical section and queues the reply in a later one.                   *)
(*                                                                         *)
(* A goroutine is a send, from the tool call to the end of its stream, or  *)
(* the poll loop. Network calls are nondeterministic outcomes. A follow-up *)
(* to a task that awaits input tracks the same task again. The inbox is    *)
(* the set of tasks with a queued reply (module Inbox has the rest).       *)
(***************************************************************************)
EXTENDS Integers

CONSTANTS Tasks,        \* task ids at the peers
          Sends,        \* calls of a2a_send_message
          NoSend,       \* absence of a record
          Poll,         \* the poll goroutine
          MaxAge,       \* outgoingMaxAge, in clock units
          MaxClock,     \* bound on the clock
          MaxRestarts   \* bound on the restarts of the bridge

ASSUME OutgoingAssumption ==
    /\ NoSend \notin Sends /\ Poll \notin Sends
    /\ {MaxAge, MaxClock, MaxRestarts} \subseteq Nat

Goroutines == Sends \cup {Poll}

VARIABLES
    taskOf,     \* taskOf[s]: the task a call starts or, as a follow-up, continues
    peer,       \* peer[t]: the task at the peer
    pending,    \* pendingOutgoing[t]: the send that tracked t last, or NoSend
    sentAt,     \* sentAt[s]: SentAt of the record of send s
    pc,         \* where each goroutine is
    claim,      \* claim[g]: the record g removed and has not yet answered for
    todo,       \* the poll loop's snapshot of the records, what is left of it
    polled,     \* the snapshot's record whose task the poll loop fetched
    inbox,      \* tasks with a reply in the inbox
    clock, restarts,
    \* observation
    spent,      \* spent[s]: notices (OnIncoming, user hook) s's record was removed for
    named,      \* named[s]: notices that quote the question and peer of s
    fate        \* fate[s]: what became of s's record

vars == <<taskOf, peer, pending, sentAt, pc, claim, todo, polled, inbox, clock, restarts,
          spent, named, fate>>

Final(t) == peer[t] \in {"answered", "blank"}

TypeOK ==
    /\ taskOf \in [Sends -> Tasks]
    /\ peer \in [Tasks -> {"absent", "open", "answered", "blank"}]
    /\ pending \in [Tasks -> Sends \cup {NoSend}]
    /\ sentAt \in [Sends -> Nat]
    /\ pc \in [Goroutines -> {"idle", "sending", "returned", "resolved", "streaming",
                              "loop", "fetched", "claimed", "done"}]
    /\ claim \in [Goroutines -> Sends \cup {NoSend}]
    /\ todo \subseteq Sends
    /\ polled \in Sends \cup {NoSend}
    /\ inbox \subseteq Tasks
    /\ clock \in Nat /\ restarts \in Nat
    /\ spent \in [Sends -> Nat] /\ named \in [Sends -> Nat]
    /\ fate \in [Sends -> {"untracked", "live", "answered", "displaced", "superseded",
                            "aged", "restart"}]

Init ==
    /\ taskOf \in [Sends -> Tasks]
    /\ peer = [t \in Tasks |-> "absent"]
    /\ pending = [t \in Tasks |-> NoSend]
    /\ sentAt = [s \in Sends |-> 0]
    /\ pc = [g \in Goroutines |-> "idle"]
    /\ claim = [g \in Goroutines |-> NoSend]
    /\ todo = {}
    /\ polled = NoSend
    /\ inbox = {}
    /\ clock = 0
    /\ restarts = 0
    /\ spent = [s \in Sends |-> 0]
    /\ named = [s \in Sends |-> 0]
    /\ fate = [s \in Sends |-> "untracked"]

-----------------------------------------------------------------------------
(* The peer, the host and time *)

\* The peer ends the task, with a reply or with nothing to show.
PeerFinishes(t, how) ==
    /\ peer[t] = "open"
    /\ peer' = [peer EXCEPT ![t] = how]
    /\ UNCHANGED <<taskOf, pending, sentAt, pc, claim, todo, polled, inbox, clock, restarts, spent, named, fate>>

\* The reply leaves the inbox: drained, peeked, acknowledged, aged or dropped.
ReplyTaken(t) ==
    /\ t \in inbox
    /\ inbox' = inbox \ {t}
    /\ UNCHANGED <<taskOf, peer, pending, sentAt, pc, claim, todo, polled, clock, restarts, spent, named, fate>>

Tick ==
    /\ clock < MaxClock
    /\ clock' = clock + 1
    /\ UNCHANGED <<taskOf, peer, pending, sentAt, pc, claim, todo, polled, inbox, restarts, spent, named, fate>>

-----------------------------------------------------------------------------
(* a2a_send_message and its stream *)

\* client.SendMessage: a new task, or a follow-up to one the host was told the
\* id of; a peer refuses a message to a task that has ended.
SendMessage(s) ==
    /\ pc[s] = "idle"
    /\ ~Final(taskOf[s])
    /\ peer[taskOf[s]] = "open" => \E r \in Sends : taskOf[r] = taskOf[s] /\ fate[r] # "untracked"
    /\ peer' = [peer EXCEPT ![taskOf[s]] = "open"]
    /\ pc' = [pc EXCEPT ![s] = "sending"]
    /\ UNCHANGED <<taskOf, pending, sentAt, claim, todo, polled, inbox, clock, restarts, spent, named, fate>>

\* The call fails, or the peer answers with a plain message: nothing to track.
SendUntracked(s) ==
    /\ pc[s] = "sending"
    /\ pc' = [pc EXCEPT ![s] = "done"]
    /\ UNCHANGED <<taskOf, peer, pending, sentAt, claim, todo, polled, inbox, clock, restarts, spent, named, fate>>

\* The response carries the task, ended (a blocking send) or still open when it
\* was sent: track it, then ingest it at once or open a stream. The bound on
\* the clock leaves the record time to age out.
TrackOutgoing(s, ended) ==
    /\ pc[s] = "sending"
    /\ ended => Final(taskOf[s])
    /\ clock + MaxAge < MaxClock
    /\ pending' = [pending EXCEPT ![taskOf[s]] = s]
    /\ sentAt' = [sentAt EXCEPT ![s] = clock]
    /\ pc' = [pc EXCEPT ![s] = IF ended THEN "resolved" ELSE "streaming"]
    /\ fate' = [r \in Sends |-> IF r = s THEN "live"
                                ELSE IF r = pending[taskOf[s]] THEN "superseded"
                                ELSE fate[r]]
    /\ UNCHANGED <<taskOf, peer, claim, todo, polled, inbox, clock, restarts, spent, named>>

\* The stream has ended, for whatever reason, and GetTask shows the end of the
\* task; ok: none of the calls failed.
StreamEnds(s, ok) ==
    /\ pc[s] = "streaming"
    /\ pc' = [pc EXCEPT ![s] = IF ok /\ Final(taskOf[s]) THEN "resolved" ELSE "done"]
    /\ UNCHANGED <<taskOf, peer, pending, sentAt, claim, todo, polled, inbox, clock, restarts, spent, named, fate>>

MutantClaimTwice(g, t, otherwise) ==
    /\ pc' = [pc EXCEPT ![g] = "claimed"]
    /\ claim' = [claim EXCEPT ![g] = IF g = Poll THEN polled ELSE g]
    /\ pending' = [pending EXCEPT ![t] = NoSend]

\* Remove the record of task t, if there is one; otherwise: where the goroutine
\* goes on when there is none.
Claim(g, t, otherwise) ==
    IF pending[t] = NoSend
    THEN /\ pc' = [pc EXCEPT ![g] = otherwise]
         /\ UNCHANGED <<claim, pending>>
    ELSE /\ pc' = [pc EXCEPT ![g] = "claimed"]
         /\ claim' = [claim EXCEPT ![g] = pending[t]]
         /\ pending' = [pending EXCEPT ![t] = NoSend]

\* Queue the reply to p's question, unless it is blank or one is queued
\* already, and notify. The record g removed is p's own or, in the poll loop,
\* a younger one of the same task, whose question is then never quoted.
appendSyntheticReply(g, p, next) ==
    LET t == taskOf[p]
        isNew == peer[t] = "answered" /\ t \notin inbox
    IN  /\ pc[g] = "claimed"
        /\ inbox' = IF isNew THEN inbox \cup {t} ELSE inbox
        /\ spent' = IF isNew THEN [spent EXCEPT ![claim[g]] = @ + 1] ELSE spent
        /\ named' = IF isNew THEN [named EXCEPT ![p] = @ + 1] ELSE named
        /\ claim' = [claim EXCEPT ![g] = NoSend]
        /\ fate' = [fate EXCEPT ![claim[g]] = IF p = claim[g] THEN "answered" ELSE "displaced"]
        /\ pc' = [pc EXCEPT ![g] = next]
        /\ UNCHANGED <<taskOf, peer, pending, sentAt, todo, polled, clock, restarts>>

IngestOutgoingTerminal(s) ==
    /\ pc[s] = "resolved"
    /\ Claim(s, taskOf[s], "done")
    /\ UNCHANGED <<taskOf, peer, sentAt, todo, polled, inbox, clock, restarts, spent, named, fate>>

-----------------------------------------------------------------------------
(* PollOutgoing *)

PollBegin ==
    /\ pc[Poll] = "idle"
    /\ \E t \in Tasks : pending[t] # NoSend
    /\ todo' = {s \in Sends : pending[taskOf[s]] = s}
    /\ pc' = [pc EXCEPT ![Poll] = "loop"]
    /\ UNCHANGED <<taskOf, peer, pending, sentAt, claim, polled, inbox, clock, restarts, spent, named, fate>>

MutantKeepsOld(s) == FALSE

\* time.Since(p.SentAt) > maxAge
TooOld(s) == clock - sentAt[s] > MaxAge

\* The record read from the snapshot is too old: whatever is tracked for its
\* task goes.
PollExpires(s) ==
    /\ pc[Poll] = "loop"
    /\ s \in todo
    /\ TooOld(s)
    /\ todo' = todo \ {s}
    /\ pending' = [pending EXCEPT ![taskOf[s]] = NoSend]
    /\ fate' = [r \in Sends |-> IF r = pending[taskOf[s]] THEN "aged" ELSE fate[r]]
    /\ UNCHANGED <<taskOf, peer, sentAt, pc, claim, polled, inbox, clock, restarts, spent, named>>

\* fetcher: an error or an open task leaves the record for the next round.
PollFetches(s, ok) ==
    /\ pc[Poll] = "loop"
    /\ s \in todo
    /\ ~TooOld(s)
    /\ todo' = todo \ {s}
    /\ polled' = s
    /\ pc' = [pc EXCEPT ![Poll] = IF ok /\ Final(taskOf[s]) THEN "fetched" ELSE "loop"]
    /\ UNCHANGED <<taskOf, peer, pending, sentAt, claim, inbox, clock, restarts, spent, named, fate>>

\* "Re-check membership under the lock": whatever record the task has by now
\* is removed, the one the loop holds stays p.
PollRechecks ==
    /\ pc[Poll] = "fetched"
    /\ Claim(Poll, taskOf[polled], "loop")
    /\ UNCHANGED <<taskOf, peer, sentAt, todo, polled, inbox, clock, restarts, spent, named, fate>>

PollEnds ==
    /\ pc[Poll] = "loop"
    /\ todo = {}
    /\ pc' = [pc EXCEPT ![Poll] = "idle"]
    /\ UNCHANGED <<taskOf, peer, pending, sentAt, claim, todo, polled, inbox, clock, restarts, spent, named, fate>>

-----------------------------------------------------------------------------

\* The bridge stops and starts again: the records were only in memory.
Restart ==
    /\ restarts < MaxRestarts
    /\ restarts' = restarts + 1
    /\ pc' = [g \in Goroutines |-> IF g = Poll \/ pc[g] = "idle" THEN "idle" ELSE "done"]
    /\ pending' = [t \in Tasks |-> NoSend]
    /\ claim' = [g \in Goroutines |-> NoSend]
    /\ todo' = {}
    /\ fate' = [s \in Sends |-> IF fate[s] = "live" THEN "restart" ELSE fate[s]]
    /\ UNCHANGED <<taskOf, peer, sentAt, polled, inbox, clock, spent, named>>

PollStep ==
    \/ PollBegin \/ PollRechecks \/ PollEnds
    \/ appendSyntheticReply(Poll, polled, "loop")
    \/ \E s \in Sends : PollExpires(s) \/ \E ok \in BOOLEAN : PollFetches(s, ok)

SendStep(s) ==
    \/ SendMessage(s) \/ SendUntracked(s) \/ IngestOutgoingTerminal(s)
    \/ appendSyntheticReply(s, claim[s], "done")
    \/ \E ended \in BOOLEAN : TrackOutgoing(s, ended)
    \/ \E ok \in BOOLEAN : StreamEnds(s, ok)

Next ==
    \/ \E t \in Tasks :
          ReplyTaken(t) \/ \E how \in {"answered", "blank"} : PeerFinishes(t, how)
    \/ \E s \in Sends : SendStep(s)
    \/ PollStep \/ Tick \/ Restart

\* The ticker fires every five seconds and every fetch has a timeout, time
\* passes, and a goroutine that removed a record goes on. Peers need not
\* answer, streams need not end, the host need not read its inbox.
Fairness ==
    /\ WF_vars(PollStep)
    /\ WF_vars(Tick)
    /\ \A s \in Sends : WF_vars(appendSyntheticReply(s, claim[s], "done"))

Spec == Init /\ [][Next]_vars
FairSpec == Spec /\ Fairness

-----------------------------------------------------------------------------
(* Correctness *)

\* No other call of the same task has been tracked.
OnlyQuestion(s) == \A r \in Sends \ {s} : taskOf[r] = taskOf[s] => fate[r] = "untracked"

\* A call of a2a_send_message pays for at most one notice, however streams, the
\* poll loop, the host's reads and restarts interleave ("prevents a double
\* inbox entry"), and a question without a follow-up is told as answered at
\* most once. With a follow-up the poll loop may tell the older question twice
\* and the younger one never: it notifies for the record of its snapshot.
AtMostOneNotice ==
    /\ \A s \in Sends : spent[s] <= 1
    /\ \A s \in Sends : OnlyQuestion(s) => named[s] <= 1

\* A record leaves the map for exactly one goroutine, and nobody else may
\* still answer it.
RecordsOwned ==
    /\ \A t \in Tasks : pending[t] # NoSend => taskOf[pending[t]] = t
    /\ \A s \in Sends : pending[taskOf[s]] = s =>
          fate[s] = "live" /\ \A g \in Goroutines : claim[g] # s
    /\ \A g \in Goroutines : claim[g] # NoSend => fate[claim[g]] = "live"
    /\ \A g, h \in Goroutines : claim[g] # NoSend /\ claim[g] = claim[h] => g = h

\* Where a goroutine is determines what it holds; the poll loop works on
\* records that were tracked, and removes one of the same task.
GoroutineShape ==
    /\ \A g \in Goroutines : pc[g] = "claimed" <=> claim[g] # NoSend
    /\ pc[Poll] \in {"fetched", "claimed"} => polled \in Sends /\ fate[polled] # "untracked"
    /\ claim[Poll] # NoSend => taskOf[claim[Poll]] = taskOf[polled]
    /\ \A s \in todo : fate[s] # "untracked"
    /\ \A s \in Sends : pc[s] \in {"idle", "sending"} => fate[s] = "untracked"

\* Only a closed record has paid for a notice, only a tracked question is
\* quoted, and a question alone in its task is quoted when its record pays.
NoticesCounted ==
    /\ \A s \in Sends : fate[s] \in {"untracked", "live"} => spent[s] = 0
    /\ \A s \in Sends : fate[s] = "untracked" => named[s] = 0
    /\ \A s \in Sends : OnlyQuestion(s) => named[s] = spent[s]

IInv == TypeOK /\ RecordsOwned /\ GoroutineShape /\ NoticesCounted /\ AtMostOneNotice

\* "we don't grow pendingOutgoing indefinitely when peers never respond": every
\* record leaves the map, also when no peer and no stream ever says anything,
\* and what was taken out of it is answered.
EveryQuestionSettles == \A s \in Sends : fate[s] = "live" ~> fate[s] # "live"

\* A record is only given up for age once it has the age: until then the poll
\* loop is the fallback that "still catches anything missed" by the stream.
NoPrematureExpiry ==
    [][\A s \in Sends : fate[s] = "live" /\ fate'[s] = "aged"
         => clock - sentAt[s] > MaxAge]_vars

====
