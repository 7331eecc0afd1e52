---- MODULE Inbox ----
(***************************************************************************)
(* The inbox of internal/agent/store.go: the queue of messages waiting for *)
(* the host, its JSON snapshot on disk, the janitor that ages out replies, *)
(* a crash and restart of the bridge, and the UserPromptSubmit hook        *)
(* (internal/assets/hook/a2a-inbox-hook.sh), a separate process that reads *)
(* the snapshot and truncates it in two steps the bridge knows nothing of. *)
(*                                                                         *)
(* An action is one critical section under Store.mu with the snapshot      *)
(* write it ends with, or one step of the hook. A peer's message may be    *)
(* delivered more than once, each time under a task of its own. An entry's *)
(* text is left out; the "reply-" prefix of a message id is the kind.      *)
(***************************************************************************)
EXTENDS Integers, Sequences, SequencesExt

CONSTANTS Messages,       \* messageIds of peers' messages
          Anonymous,      \* those sent with an empty messageId
          Outgoing,       \* tasks sent to peers, whose replies come back
          SoftCap,        \* inboxSoftCap
          ReplyTTL,       \* replyEntryTTL, in clock units
          MaxClock,       \* bound on the clock
          MaxDeliveries,  \* bound on the deliveries of messages and replies
          MaxCrashes,     \* bound on the crashes of the bridge
          MaxFaults       \* bound on the failed snapshot writes

ASSUME InboxAssumption ==
    /\ Anonymous \subseteq Messages
    /\ SoftCap \in Nat \ {0}
    /\ {ReplyTTL, MaxClock, MaxDeliveries, MaxCrashes, MaxFaults} \subseteq Nat

VARIABLES
    up,         \* the bridge process runs
    inbox,      \* Store.inbox; empty while the bridge is down
    disk,       \* the snapshot; <<>> also for a missing or truncated file
    hook,       \* the hook between rendering the snapshot and truncating it
    clock, crashes, faults,
    \* observation
    deliveries, \* how many messages and replies were delivered, again or not
    accepted,   \* entries that entered the inbox
    handed,     \* entries the host has been given, by a tool call or the hook
    removed,    \* entries taken out on purpose: drained, peeked, completed, aged
    evicted,    \* entries dropped by the soft cap
    erased,     \* entries the hook truncated away without having rendered them
    lost        \* entries of which a crash left no copy

bounds  == <<clock, crashes, faults>>
history == <<deliveries, accepted, handed, removed, evicted, erased, lost>>
vars    == <<up, inbox, disk, hook, bounds, history>>

\* One InboxEntry, from the n-th delivery: of message m, or of the reply to a
\* task, with the time of its delivery.
InboundEntry(m, n) == [kind |-> "inbound", id |-> m, n |-> n, ts |-> 0]
ReplyEntry(t, n, now) == [kind |-> "reply", id |-> t, n |-> n, ts |-> now]

Entries ==
    [kind : {"inbound"}, id : Messages, n : 1..MaxDeliveries, ts : {0}]
      \cup [kind : {"reply"}, id : Outgoing, n : 1..MaxDeliveries, ts : 0..MaxClock]

Init ==
    /\ up = TRUE
    /\ inbox = <<>>
    /\ disk = <<>>
    /\ hook = "idle"
    /\ clock = 0 /\ crashes = 0 /\ faults = 0
    /\ deliveries = 0
    /\ accepted = {} /\ handed = {} /\ removed = {}
    /\ evicted = {} /\ erased = {} /\ lost = {}

-----------------------------------------------------------------------------
(* The store's helpers, all with Store.mu held *)

\* The prefix of the messageId; what is left of Kind after a restart.
IsReply(e) == e.kind = "reply"

SameMessageID(e, f) == e.kind = f.kind /\ e.id = f.id

MutantContainsNothing(s, e) == FALSE

\* An empty messageId never counts as queued.
inboxContainsLocked(s, e) ==
    e.id \notin Anonymous /\ \E i \in DOMAIN s : SameMessageID(s[i], e)

MutantCapIgnored(s, e) == Append(s, e)

\* The inbox after queueing e: past the soft cap the oldest entries go.
appendInboxLocked(s, e) ==
    LET t == Append(s, e) IN SubSeq(t, 1 + Max({0, Len(t) - SoftCap}), Len(t))

MutantPersistForgotten(s) == UNCHANGED <<disk, faults>>

\* Write a temporary file and rename it; a failure leaves the old snapshot.
persistInboxLocked(s) ==
    \/ disk' = s /\ UNCHANGED faults
    \/ faults < MaxFaults /\ faults' = faults + 1 /\ UNCHANGED disk

\* The entries of s that lie in K, in their order: kept = append(kept, *e).
Filter(s, K) ==
    LET kept[i \in 0..Len(s)] ==
            IF i = 0 THEN <<>>
            ELSE IF s[i] \in K THEN Append(kept[i - 1], s[i]) ELSE kept[i - 1]
    IN  kept[Len(s)]

\* Keep the entries in K; persist if anything is dropped.
KeepOnly(K) ==
    LET kept == Filter(inbox, K) IN
    IF kept = inbox
    THEN UNCHANGED <<inbox, disk, faults, removed>>
    ELSE /\ inbox' = kept
         /\ persistInboxLocked(kept)
         /\ removed' = removed \cup (ToSet(inbox) \ K)

\* Queue a new entry, or drop one whose messageId is already queued.
Enqueue(e) ==
    IF inboxContainsLocked(inbox, e)
    THEN UNCHANGED <<inbox, disk, faults, accepted, evicted>>
    ELSE /\ inbox' = appendInboxLocked(inbox, e)
         /\ persistInboxLocked(inbox')
         /\ accepted' = accepted \cup {e}
         /\ evicted' = evicted \cup ((ToSet(inbox) \cup {e}) \ ToSet(inbox'))

-----------------------------------------------------------------------------
(* The bridge *)

\* A peer's message reaches Execute, possibly again.
deliverIncoming(m) ==
    /\ up
    /\ deliveries < MaxDeliveries
    /\ deliveries' = deliveries + 1
    /\ Enqueue(InboundEntry(m, deliveries + 1))
    /\ UNCHANGED <<up, hook, clock, crashes, handed, removed, erased, lost>>

\* A peer's reply arrives, again for a task that was asked twice; the bound on
\* the clock leaves the reply time to age out.
appendSyntheticReply(t) ==
    /\ up
    /\ clock + ReplyTTL < MaxClock
    /\ deliveries < MaxDeliveries
    /\ deliveries' = deliveries + 1
    /\ Enqueue(ReplyEntry(t, deliveries + 1, clock))
    /\ UNCHANGED <<up, hook, clock, crashes, handed, removed, erased, lost>>

MutantDrainInMemory ==
    /\ up
    /\ inbox' = <<>>
    /\ handed' = handed \cup ToSet(inbox)
    /\ removed' = removed \cup ToSet(inbox)
    /\ UNCHANGED <<up, disk, hook, clock, crashes, faults, deliveries, accepted, evicted, erased, lost>>

\* a2a_inbox
DrainInbox ==
    /\ up
    /\ inbox' = <<>>
    /\ persistInboxLocked(<<>>)
    /\ handed' = handed \cup ToSet(inbox)
    /\ removed' = removed \cup ToSet(inbox)
    /\ UNCHANGED <<up, hook, clock, crashes, deliveries, accepted, evicted, erased, lost>>

\* a2a_inbox with peek: replies are shown once, inbound messages stay.
PeekInbox ==
    /\ up
    /\ KeepOnly({e \in ToSet(inbox) : ~IsReply(e)})
    /\ handed' = handed \cup ToSet(inbox)
    /\ UNCHANGED <<up, hook, clock, crashes, deliveries, accepted, evicted, erased, lost>>

\* a2a_complete_task: the entry of the answered task goes. The host names a
\* task it was told of.
dropTaskEntries(d) ==
    /\ up
    /\ KeepOnly(ToSet(inbox) \ {d})
    /\ UNCHANGED <<up, hook, clock, crashes, deliveries, accepted, handed, evicted, erased, lost>>

MutantNeverExpires(e) == FALSE

\* The delivery timestamp lies before the cutoff.
Expired(e) == IsReply(e) /\ e.ts < clock - ReplyTTL

evictExpiredReplies ==
    /\ up
    /\ \E i \in DOMAIN inbox : Expired(inbox[i])
    /\ KeepOnly({e \in ToSet(inbox) : ~Expired(e)})
    /\ UNCHANGED <<up, hook, clock, crashes, deliveries, accepted, handed, evicted, erased, lost>>

\* The process dies; what is only in memory is gone.
Crash ==
    /\ up
    /\ crashes < MaxCrashes
    /\ crashes' = crashes + 1
    /\ up' = FALSE
    /\ inbox' = <<>>
    /\ lost' = lost \cup (ToSet(inbox) \ ToSet(disk))
    /\ UNCHANGED <<disk, hook, clock, faults, deliveries, accepted, handed, removed, evicted, erased>>

MutantLoadNothing(s) == <<>>

\* LoadInbox appends the snapshot's entries one by one.
Restored(s) ==
    LET loaded[i \in 0..Len(s)] ==
            IF i = 0 THEN <<>>
            ELSE IF inboxContainsLocked(loaded[i - 1], s[i]) THEN loaded[i - 1]
                 ELSE appendInboxLocked(loaded[i - 1], s[i])
    IN  loaded[Len(s)]

\* RunBridge: NewStore, LoadInbox
Start ==
    /\ ~up
    /\ up' = TRUE
    /\ inbox' = Restored(disk)
    /\ UNCHANGED <<disk, hook, bounds, history>>

Tick ==
    /\ clock < MaxClock
    /\ clock' = clock + 1
    /\ UNCHANGED <<up, inbox, disk, hook, crashes, faults, history>>

-----------------------------------------------------------------------------
(* The UserPromptSubmit hook *)

\* Render a non-empty snapshot into the prompt.
HookRender ==
    /\ hook = "idle"
    /\ disk # <<>>
    /\ handed' = handed \cup ToSet(disk)
    /\ hook' = "rendered"
    /\ UNCHANGED <<up, inbox, disk, bounds, deliveries, accepted, removed, evicted, erased, lost>>

\* : > "$INBOX"
HookTruncate ==
    /\ hook = "rendered"
    /\ disk' = <<>>
    /\ hook' = "idle"
    /\ erased' = erased \cup (ToSet(disk) \ handed)
    /\ lost' = IF up THEN lost ELSE lost \cup ToSet(disk)
    /\ UNCHANGED <<up, inbox, bounds, deliveries, accepted, handed, removed, evicted>>

-----------------------------------------------------------------------------

Next ==
    \/ \E m \in Messages : deliverIncoming(m)
    \/ \E t \in Outgoing : appendSyntheticReply(t)
    \/ DrainInbox \/ PeekInbox \/ evictExpiredReplies
    \/ \E d \in handed : dropTaskEntries(d)
    \/ Crash \/ Start \/ Tick
    \/ HookRender \/ HookTruncate

\* The janitor ticks every minute, time passes, and the host starts the bridge
\* again after a crash.
Fairness == WF_vars(evictExpiredReplies) /\ WF_vars(Tick) /\ WF_vars(Start)

Spec == Init /\ [][Next]_vars
FairSpec == Spec /\ Fairness

-----------------------------------------------------------------------------
(* Correctness *)

TypeOK ==
    /\ up \in BOOLEAN
    /\ inbox \in Seq(Entries) /\ Len(inbox) <= SoftCap
    /\ disk \in Seq(Entries) /\ Len(disk) <= SoftCap
    /\ hook \in {"idle", "rendered"}
    /\ clock \in 0..MaxClock /\ crashes \in 0..MaxCrashes /\ faults \in 0..MaxFaults
    /\ deliveries \in 0..MaxDeliveries
    /\ {accepted, handed, removed, evicted, erased, lost} \subseteq SUBSET Entries

\* Neither the inbox nor the snapshot the hook renders lists a messageId
\* twice, also after redeliveries and restarts.
NoDuplicateQueued ==
    \A s \in {inbox, disk} : \A i, j \in DOMAIN s :
        s[i].id \notin Anonymous /\ SameMessageID(s[i], s[j]) => i = j

\* What was delivered and the host has not been given, by whatever way.
Outstanding == accepted \ (handed \cup removed \cup evicted)

\* "A bridge restart restores messages that were not drained yet", as far as the
\* code keeps it: with a working disk a restart loses no unseen message but those
\* that reached the snapshot after the hook had rendered it and before the hook
\* truncated it.
CrashLosesOnlyErased == faults = 0 => lost \cap Outstanding \subseteq erased

\* While the bridge runs, a message the host has not seen is in its inbox,
\* unless an earlier crash took it: no operation loses it, in whatever order
\* the hook, failed writes and restarts come.
LossOnlyByCrash == up => Outstanding \subseteq ToSet(inbox) \cup lost

\* What was drained, answered, aged out or consumed by a peek does not come
\* back, in particular not from the snapshot after a restart, as long as every
\* snapshot could be written.
NoResurrection == faults = 0 => removed \cap ToSet(inbox) = {}

HoldsReply(s, t) == \E i \in DOMAIN s : IsReply(s[i]) /\ s[i].id = t

\* README: "One-shot reply notifications age out two minutes after delivery,
\* also across a restart": from the inbox, and from a snapshot that could be
\* written, although the hook, the host and restarts interfere.
RepliesAgeOut ==
    \A t \in Outgoing :
        HoldsReply(inbox, t)
          ~> ~HoldsReply(inbox, t) /\ (faults = 0 => ~HoldsReply(disk, t))

-----------------------------------------------------------------------------
(* The inductive invariant behind these properties; InboxProofs shows it. *)

\* Entries come from deliveries, and no entry is delivered twice.
FromDeliveries ==
    /\ ToSet(inbox) \cup ToSet(disk) \cup removed \cup lost \subseteq accepted
    /\ \A e \in accepted : e.n <= deliveries

\* Where an entry the host has not seen still is: in the inbox of a bridge that
\* runs, in the snapshot of one that does not.
OutstandingKept ==
    Outstanding \subseteq lost \cup (IF up THEN ToSet(inbox) ELSE ToSet(disk))

\* As long as no snapshot write failed, the snapshot lists nothing that was
\* removed, and lacks no unseen entry of the inbox but what the hook erased.
SnapshotFollows ==
    faults = 0 => /\ removed \cap ToSet(disk) = {}
                  /\ ToSet(inbox) \cap Outstanding \subseteq ToSet(disk) \cup erased

IInv ==
    /\ TypeOK /\ NoDuplicateQueued
    /\ FromDeliveries /\ OutstandingKept /\ SnapshotFollows
    /\ NoResurrection /\ CrashLosesOnlyErased

====
