# A TLA+ model of a2abridge

a2abridge connects coding agents (Claude Code, Codex, ...) over the A2A protocol.
Every agent ("host") runs one *bridge* process: towards its host the bridge is an
MCP server on stdin/stdout, towards other bridges it is an A2A HTTP server and
client. A *directory* daemon tells bridges of each other. This directory holds
TLA+ modules for the parts of that system with state and concurrency of their
own, TLC configurations for small instances, and TLAPS proofs for all instances.

## 1. Inventory

| Component | State | Operations | Talks to |
|---|---|---|---|
| push sender (`internal/agent/push.go`) | worker map, a channel per worker, wait group, closed flag, context | `SendPush`, worker loop `run`/`retire`, `deliverJob`/`deliver`/`postOnce`, `Close` | called by the A2A server for every task event; posts to webhooks |
| inbox (`internal/agent/store.go`, `assets/hook/a2a-inbox-hook.sh`) | queue of entries, JSON snapshot on disk | `deliverIncoming`, `appendSyntheticReply`, `DrainInbox`, `PeekInbox`, `dropTaskEntries`, `evictExpiredReplies`, `LoadInbox`; the hook reads and truncates the snapshot | filled by the executor and by outgoing replies; read by the host |
| outgoing replies (`store.go`, `mcp.go`, `cli/bridge.go`) | `pendingOutgoing` | `TrackOutgoing`, `IngestOutgoingTerminal` after a stream, `PollOutgoing` every 5 s | peers; ends in the inbox |
| executor (`internal/agent/executor.go`) | waiters, a one-slot channel each | `Execute`, `Cancel`, `CompleteTask` | called by the A2A server and by `a2a_complete_task`; fills the inbox |
| task store (`internal/agent/taskstore.go`) | tasks with version and time of update | `Create`, `Get`, `Update`, `List`, `EvictTerminal` | used by the A2A server; deletes push configs |
| directory (`internal/directory/registry.go`) and bridge life cycle (`cli/bridge.go`, `Heartbeat` in `mcp.go`) | URL to last-seen time; process and port | register, heartbeat, unregister, gc; bind, shut down | HTTP between bridge and directory |
| protocol guard (`guard.go`, `server.go`) | none of its own; reads the task store | body limit, version check and pin, subscription check | in front of the A2A server |
| responder (`responder.go`) | none: one goroutine per message, without a limit | run a headless CLI on a message and complete its task | `OnIncoming` of the inbox; `CompleteTask` |
| nudger (`nudger.go`) | time of the last nudge | type a directive into the host's terminal, at most once per window | `OnIncoming` of the inbox |
| self-update (`cli/update.go`) | the binary, `<exe>.new` and backups on disk | compare versions, download, verify, swap, restore | GitHub releases |
| IDE configuration (`internal/ideconfig`, `cli/install.go`, `cli/uninstall.go`) | config files, their backups, skill, hook script | detect, merge, strip, back up, replace | the user and the IDEs, who save the same files |
| secret screen, TLS, peer clients, mDNS, service, doctor, metrics, test kit | | | |

What is hard here: goroutines that retire while work is queued for them; two
paths that deliver the same reply; a critical section that decides and another
that acts; a shell script that shares a file with the bridge and no lock; peers
that redeliver; a bridge that is killed at any moment; timers that race answers.
`PROJECT.json` lists these places one by one under `hazards`.

What makes each part correct:

- push sender: no queued event without a worker, one worker per webhook, events
  posted in order and counted exactly once, `Close` ends and leaves nothing;
- inbox: nothing unseen is lost while the bridge runs, nothing is listed twice,
  nothing comes back, notifications age out;
- outgoing replies: a tracked send causes at most one notice to the host, and no
  record stays for ever;
- executor: as long as a task is open the host can answer it, an accepted answer
  ends it, a cancelation releases the execution;
- task store: no accepted update is lost to one that carries a version, paging
  neither skips nor repeats an unchanged task, push configs go with their task;
- discovery: a running bridge is listed, a dead one is not;
- guard: what it accepts the server accepts, and a subscription to a task that has
  ended gets a plain error;
- responder and nudger: an answer is refused only when it comes too late, nudges
  keep their distance and every message has one;
- self-update: a complete, verified binary is always installed or in a backup, and
  the one that was replaced is kept;
- IDE configuration: what the user saved stays recoverable, uninstall leaves
  nothing of a2abridge behind, a registered hook has its script.

## 2. Modules

| Module | Models |
|---|---|
| `PushDelivery` | abstract: per webhook one ordered list of accepted events, settled from the front |
| `PushSender` | the sender with its goroutines, channels and lock; implements `PushDelivery` |
| `Inbox` | the queue, the snapshot, the janitor, crash and restart, the hook |
| `OutgoingReplies` | the race between streams and the poll loop over `pendingOutgoing` |
| `TaskExchange` | one inbound question between peer, execution and host |
| `TaskStore` | versions, listing and eviction |
| `Discovery` | registry, heartbeat, network and the life of the bridge process |
| `Guard` | what the guard decides about one request, as operators |
| `Inbound` | composition: requests through `Guard` into `TaskExchange`, both extended, and the responder or nudger it wakes |
| `SelfUpdate` | the update command, several at once, over the files of the binary |
| `IdeConfig` | install and uninstall over the configuration files |
| `XProofs` | theorems about module `X`; `InboundProofs` also those about `TaskExchange` |
| `MCX` | instances of module `X` for TLC |

The actions carry the names of the code's functions; `PROJECT.json` maps each
definition to the lines it models. Definitions named `Mutant...` are plausible
bugs: replacing the named definition by one of them makes TLC report a violation
of the property it is listed for, which shows that the property has teeth.

**PushSender.** An action is a critical section under `PushSender.mu` or one step
of a worker between two points where another goroutine can interfere. `workers`
is the map of the code, `pc`/`queue`/`cur`/`attempt` are the local state of a
worker goroutine. The HTTP request is a nondeterministic outcome: accepted,
retryable, permanent, refused before it leaves. Events are numbered in the order
of the `SendPush` calls, and the two metrics counters are sets of these numbers,
so that "counted once" can be said. A goroutine between leaving its loop and
`wg.Done` (`pc = "exit"`) overlaps with its successor.

**Inbox.** `inbox` is the slice, `disk` the snapshot (`<<>>` for a missing or
truncated file). Writing the snapshot may fail and then leaves the old file, as
the write to a temporary file followed by a rename does. The hook is a process
that renders the snapshot in one step and truncates it in the next. An entry is a
delivery: a message delivered again is another entry with the same messageId.
History variables record what was accepted, given to the host, removed, dropped
by the soft cap, truncated without being rendered, and lost in a crash. A task may
be answered more than once (see `OutgoingReplies`), so a reply is a numbered
delivery too, and only the queued entries keep it from being queued again.

**OutgoingReplies.** A goroutine is a call of `a2a_send_message` with its stream,
or the poll loop. `Claim` is the critical section that removes whatever record of
the task the map holds, `appendSyntheticReply` the later one that queues the reply.
The record removed and the question the reply quotes are two things: a stream
quotes what it removed, the poll loop the record of the snapshot it took before its
network calls (`polled`). Hence two counters, `spent` for the record that paid for a
notice and `named` for the question quoted in it. A follow-up is a second call on
the same task and replaces the record; it starts once an earlier call of the task
has been tracked, when the host knows the task's id. Which task a call belongs to is
open in the initial state, so an instance with two calls contains both two questions
and a question with its follow-up.

**TaskExchange.** `Execute` is cut at its calls to `yield`, at the critical
sections of its waiter and at its `select`; `CompleteTask` is two critical
sections. The a2a-go server is external and modelled from its use: one execution
per task (so `errWaiterExists` cannot occur, as its comment says), a yield is
stored until the task has ended and returns false after that, a cancelation ends
the task and then the context. A restart keeps the inbox and forgets everything
else. The inbox is a set here; its order and its snapshot are in `Inbox`.

**TaskStore.** One action per method; writers read, change and update with the
version they read, or with none (`TaskVersionMissing`) over any version; one client
pages through `List`. The contents of a task are the set of writes it contains and
whether it has ended. `EvictTerminal` removes the tasks under the lock and deletes
their push configs afterwards, one by one; a deletion may fail and is then only
logged. The push config store is external: a client may register a config at any
time, also for an id without a task (`SaveConfig`). `overwritten` and `orphaned`
record what an update without a version replaced, and which configs the janitor
failed to delete or were registered after it was through.

**Discovery.** A request is a member of `net` that may be carried out, lost, or
carried out after its sender has given up. Time is explicit and does not pass a
ticker that is due or a call that has timed out.

**Guard and Inbound.** A version is its dot-separated parts and whether blanks
surround it, so that 1.0, a padded 1.0.3 and a malformed one are told apart; the
server behind the guard compares texts (external, from how `pinProtocolVersion`
describes it). `Inbound` extends `Guard` and `TaskExchange` and takes the actions of
the latter, adding to each what the other components see of it: `Submit`
needs a request the guard has passed, `Deliver` starts a handler when a new entry
is queued. `checkSubscribable` reads the task in one step, `Subscribe` is the
server's in another. The responder's `CompleteTask` is the two critical sections
of `TaskExchange`, in competition with the host's calls. `bridge.go` installs the
responder or the nudger, never both, hence `mode`.

**SelfUpdate.** A file is absent or has contents: its tag, whether all of it was
written, whether it has the released bytes. Every file operation of
`downloadAndReplace` is an action and may fail (`GiveUp`, `WriteFails`,
`ActivateFails`; `Restore` ignores its error as the code does) and a process may
be killed before each (`Crash`). Updates share the binary, `<exe>.new` and the
names of backups of one second. The user's rename of a backup
(`ManualRollback`) happens while no update is at work.

**IdeConfig.** A command walks through the files in the order of `AllWriters`,
then skill and script. For each file it tests whether it is there (`fileExists`),
reads and merges (`Load`), backs up what it had found (`backupFile`) and replaces
(`writeFileAtomic`), four steps between which the user may create or save the file
(`Save`), an operation may fail and the command may be killed. A backup that fails
or is killed may have truncated one of the same second. `exposed` records the saves
the code does not protect: between backup and replacement, of a file that was not
there at the test, and backups lost to another one of the same second. Contents are the user's part (which save it is from), comments, whether it
parses, and which entries of a2abridge it holds, current or of an older version.
The two files of Claude Code are written one after the other; Codex, Cursor,
Cline, Gemini and Antigravity each have one file with an MCP section of their own
and are represented by one; Continue's file belongs to a2abridge.

## 3. Runs

| Run | Shows |
|---|---|
| `push_sender` | safety, order, `CloseReturns` and the refinement of `PushDelivery` |
| `inbox` | no duplicates, no loss but by a crash, no resurrection, ageing of replies |
| `outgoing_replies` | at most one notice per tracked send, every question settles |
| `outgoing_follow_up` | violation: a fresh follow-up is expired with its predecessor |
| `task_exchange` | answerable while open, nobody waits unknown, accepted replies and cancelations end the execution |
| `exchange_second_reply` | violation: a second accepted reply is dropped |
| `exchange_retry` | violation: a retry is rejected in favour of a dead task |
| `discovery` | the lease, repair by heartbeats, removal of dead bridges |
| `task_store` | updates lost only to those without a version, stable paging, configs follow tasks |
| `inbound` | accepted versions are served, no stream for an ended task, late answers only are refused, the distance of nudges |
| `self_update` | a good binary is always at hand, the previous one is kept |
| `ide_config` | the last save is recoverable, uninstall undoes, hooks have their script |

**Bounds.** Push sender: a queue of two with four events overflows while a job is
being delivered; two worker slots are a retired goroutine and its successor; two
attempts contain a retry and a last attempt; two `Close` calls race each other.
Inbox: three deliveries, each of one of two messages (one without messageId) or of
a task's reply, against a soft cap of two give redeliveries before and after a drain
and an eviction; one failing write and one crash are enough for memory and disk to
differ and to meet again. Outgoing replies: two calls are a stream against the
poll loop, and a question against its follow-up, which may be tracked before, during
and after the poll's network call; ages 0, 1 and 2 straddle the age limit of 0. Task exchange: two tasks with the same or different messages, a soft
cap of one, two answers to one task. Discovery: a bridge and its successor at one
port; a unit is 30 s, so period and ttl have the code's ratio of 1 to 3 and a call
may take six times its real timeout. Task store: three tasks, pages of one and a
clock with two values make ties, evictions and changes between pages; two writers
and three versions are two updates from one version and one without. Inbound: two
requests in nine forms (the two bindings; good, padded, missing, old and malformed
versions in header and parameter; bodies that are too large or cannot be read)
are two messages that meet at the nudger, or a message and a subscription to its
task; a window of two seconds in a clock that reaches twice that. Self-update: two
updates and three seconds give backups of the same and of different seconds; the
installed version carries build metadata, and a newer release, a prerelease in
two-number form and a tag without numbers are on offer. IDE configuration: two
commands (install twice, install and uninstall in either order), a save of the
user between any two steps, one failure or kill, two seconds; files are absent or hold
comments and an entry of an older version at first.
The systems really may stop (a closed sender, no more calls), so deadlock is not
an error in any run.

**Fairness.** Goroutines that can run do run. Push sender: attempts end by
`pushAttemptTimeout` and delays by their timer; receiving is strongly fair because
after a `retire` that found a job the idle timer has just been re-armed; neither
the idle timer nor the context of `Close` need ever fire. Inbox: the janitor ticks
and the host restarts a bridge that died. Outgoing replies: the poll ticker, time,
and the goroutine that removed a record; peers, streams and host owe nothing.
Task exchange: executions and calls that were started. Discovery: tickers, calls,
gc and time, and the network carries out a registration that is retried for ever.
`Inbound`, `SelfUpdate` and `IdeConfig` state no fairness: a CLI run, a download or
a command may be killed, and nothing in the code starts it again.

## 4. Proofs

TLAPS checks the following for all values of the constants. Every safety property
of a passing run, invariant or action property, is stated by a theorem.

**`PushSenderProofs`.** `IInv` is inductive (`SenderInvariant`). It says that the
worker map and the running goroutines describe each other, that the channels of
running workers are closed exactly when the sender is, that the wait group counts
the goroutines, and what a worker holds at each place. `NoOrphanedJob` alone is not
inductive: that no job is queued for a goroutine that left needs the map, that a
send never meets a closed channel needs the closed flag. From it follow
`NeverOrphaned`, `SingleDeliverer`, `NeverPanics`, `TypeCorrect`. For the events
`HeldInOrder` is added: what a config's registered worker holds is increasing and
not older than what was posted. With it a step that counts an event takes exactly
that event from the worker (`EventsAccounted`), a post never goes back
(`PostsInOrder`), and `Close` returns only when the wait group is at zero, so that
no worker holds anything (`CloseIsComplete`). `DeliveryRefined` maps the worker's
queue to the list of `PushDelivery` and shows, action by action, that the initial
states are abstract ones and each step is an abstract step or a stutter; it is the
safety part (`Delivery!Safety`) of the run's `ImplementsDelivery`.

**`OutgoingRepliesProofs`.** A record is in the map, taken out by exactly one
goroutine, or closed, and only closing it pays for a notice (`RecordsInvariant`).
That bounds what a call pays for. For the question a notice quotes, `IInv` adds that
what the poll loop removed and what it works on are records of one task
(`GoroutineShape`), so they are the same where the task has no other question
(`NoticesCounted`). Hence `NeverNotifiedTwice`; its second half is about questions
without a follow-up because with one it is false, see 5.12.

**`InboxProofs`.** `IInv` adds to the properties that entries come from deliveries
(`FromDeliveries`), where an unseen entry is while the bridge runs and while it
does not (`OutstandingKept`), and what the snapshot may lack or still list as long
as it could be written (`SnapshotFollows`). `CrashLosesOnlyErased` needs the last:
what a crash loses is what the snapshot lacks at that moment. `NoResurrection`
needs its first half, since a restart reads the snapshot. From `InboxInvariant`
follow `InboxTypes`, `QueuedOnce`, `OnlyACrashLoses`, `RestartRestores` and
`RemovedStaysOut`. The loops of the code (`kept = append(kept, *e)` in
`dropTaskEntries` and `PeekInbox`, the loading loop of `LoadInbox`) are recursive
functions `Filter` and `Restored`; lemmas (`FilterSelects`, `RestoredWhole` and
those they rest on) show what they compute, see below.

**`TaskStoreProofs`.** A copy with the stored version has the stored contents
(`StoreInvariant`). Hence `UpdatesAreKept`: an accepted update is missing only where
an update without a version replaced it; and `ConfigsAreEvicted`: a config without
its task is on the janitor's list, also one registered between the eviction and the
deletion, unless the deletion failed or was over. For the listing
`ListingInv` says that an unchanged task has been shown once if it lies before the
page token and not at all if it lies behind (`ListingInvariant`). A page holds
the first tasks behind the token in the order of the listing, so the proof has lemmas
about that order: it is total, a page is not empty while something is left
(`PageNotEmpty`), and the token of its last task separates it from what is left
(`TokenSeparates`). `PagingIsStable` follows, since a listing that is over has
nothing behind its token.

**`DiscoveryProofs`.** The age of an entry is bounded by the lost heartbeats
(`LeaseInvariant`); hence `LeaseHolds`, for every ttl of at least
`Period * (MaxLost + 1) + 1`, a call taking at most one unit. In seconds the code
has 30 * 2 + 5 <= 90.

**`InboundProofs`.** First the exchange alone: the place of an execution determines
its waiter and its task (`ExchangeInvariant`); hence `AlwaysAnswerable`,
`NobodyWaitsUnknown`. Then `InboundInv` for the composition (`InboundInvariant`). A
step of `Inbound` is a step of the exchange, leaves it alone, or is
`Responder.Handle` learning of an entry; that the last keeps the exchange's
invariant needs `WakeShape`, a handler runs only for a message that was queued.
`GuardIsEnough` rests on a lemma about the guard's operators: whatever version was
accepted, what was pinned is what the server compares with (`PinnedIsTaken`).
`EndedGetsNoStream`, an action property, rests on `RequestShape`: a task that had
ended stays ended (`EndedStays`), so a lookup that does not fail finds it so.
`OnlyLateAnswersRefused` needs `CallShape`: a reply that is still in the channel
when the responder's call arrives belongs to another accepted call for that task,
which can only be the host's; and, from the exchange, that a told and open task has
its waiter. `NudgesKeepCadence` needs `NudgeClock`, which ties `lastNudgeAt` to the
nudges; without it the zero time could pass for a nudge.

**`SelfUpdateProofs`.** `IInv` says where an update is in the swap, what it has in
hand there, that at most one is between the two renames, and that every backup is
complete and verified (`UpdateInvariant`). `BinaryAtHand` alone is not inductive:
that what `Activate` installs is complete rests on nobody else writing `<exe>.new`,
which rests on the binary being absent from its path while an update is at work.
Hence `AlwaysABinary` and `SwapIsExclusive`. `PreviousIsKept` adds
`PreviousAside`: the backup of what was replaced is not the one an update at work
would move back. `NoDowngrade` follows from lemmas on the version order
(asymmetric, total on what parses).

**`IdeConfigProofs`.** `IInv` (`IdeConfigInvariant`) says where a command may be
and with what in hand (`CommandShape`), that a file about to be replaced has been
backed up since the user saved it, or was not there at the test and is exposed if
the user saved it since (`BackedUp`), that the files an uninstall has
passed are clean as long as nothing failed (`Stripping`), and when the hook may
stand without its script (`HookStands`). None of the three properties is inductive:
each speaks of the end of a command and is prepared file by file. They are
`SavesSurvive`, `UninstallIsComplete` and `HookIsComplete`.

The invariants that are not properties of a run (`HeldInOrder`, `ListingInv`,
`PreviousAside`, `InboundInv`, the `IInv` of `Inbox` and of `IdeConfig`) hold on the
instances of the runs as well: adding one to the `INVARIANTS` of the run's cfg makes
TLC check it.

Assumptions are the named `ASSUME`s of the modules: bounds are natural numbers,
the queue holds at least one event, sets of goroutine slots are finite, the values
that stand for "none" are not members of the sets they are added to, and in
`Inbound` the responder's calls are named after their tasks.

Induction over data. The library's induction theorems take an operator as a
parameter, which the provers cannot instantiate. What a loop written as a recursive
function computes is shown by the least counterexample instead: if it fails for some
prefix of the sequence there is a shortest one, and the loop's body contradicts it.
That a least one exists and that the recursive function satisfies its equation are
lemmas of their own (`LeastOf`, `CountUp`, `LoopExists` in `InboxProofs`).

Only model-checked: liveness under fairness (`CloseReturns`, `RepliesAgeOut`,
`EveryQuestionSettles`, `AcceptedReplyEndsTask`, `CancelReleasesWaiter`,
`RunningIsListed`, `DeadIsUnlisted`) and the fairness part of the refinement of
`PushDelivery` (`ImplementsDelivery`); the three violations are TLC's.

## 5. Disagreements between code and documentation

Shown by a run:

1. The poll loop is documented as the fallback that catches what the stream
   misses. It expires by task id what it judged by an older record, so a fresh
   follow-up can be dropped (`NoPrematureExpiry`).
2. `a2a_complete_task` promises to attach the reply. A second call between the
   execution taking the first reply and its return succeeds, and its reply is
   dropped (`AcceptedReplyRecorded`).
3. A duplicate is rejected because "the host answers that one". That one may have
   been canceled, or belong to the process before a restart
   (`DuplicateHasLiveOriginal`).

Met while modelling; the runs check what holds instead:

4. The README (465-466) promises that a restart restores what was not drained. The
   hook truncates the snapshot in a step after rendering it; a message that arrived
   in between is in memory only until the next snapshot (`CrashLosesOnlyErased`).
5. The README (466-467) says a redelivered message is queued once. The comparison
   is with the entries still queued (`NoDuplicateQueued`), so a redelivery after a
   drain is queued again.
6. The changelog (237-238) says that graceful unregister works during shutdown.
   `RunBridge` does not wait for the goroutine that makes the call; the entry then
   ages out (`DeadIsUnlisted`).
7. `update` says it replaces the running binary "atomically" (`cli/update.go` 47,
   61). Between its two renames there is no binary at the path, and a kill there
   leaves it so: `BinaryAtHand` says that a backup is there.
8. An update compares its target with the version that runs, not with what is
   installed when it swaps: of two concurrent updates the one that ends last wins,
   also with the older target. No document speaks of concurrent updates.
9. `install` skips IDEs that are not detected so as not to create "stale
   skeletons" (`cli/install.go` 116-118), but its skill and hook create `~/.claude`
   in auto mode, so the next auto install detects Claude Code.
10. `uninstall --purge` says it removes all `.bak` files (`cli/uninstall.go` 32);
    the code removes none. A skill or script that cannot be removed is a warning
    and leaves the exit code 0.
11. The README (431) says the nudger wakes an idle agent on an inbound message. A
    nudge that fails is not repeated, and a message within the window relies on the
    earlier nudge (`NudgeCadence`).
12. `PollOutgoing` checks again under the lock whether the task is still tracked,
    which "prevents a double inbox entry" (`agent/store.go` 343-347), and
    `IngestOutgoingTerminal` says that the poll "won't re-queue" a task that was
    delivered (200-201). The check looks for any record of the task, removes it and
    delivers with the record of the snapshot (354, 358). If the stream told of the
    first question, the host read it and a follow-up was tracked, all during one
    network call of the poll, the first question is told again and the follow-up
    never. `AtMostOneNotice` is what holds: each record pays for one notice, and a
    question without a follow-up is told at most once. Without that condition TLC
    finds the case in 14 states.
13. An update without a version succeeds over any stored version, so what others
    wrote and were told is stored can go. `taskstore_test.go` 89 asserts this, so it
    is meant; `NoLostUpdate` is about the rest.
14. "Push configs of evicted tasks are removed" (`agent/taskstore.go` 58). A
    `DeleteAll` that fails is logged and not tried again, and a config registered
    after the janitor's deletion has no task any more: both stay for ever.
    `ConfigsFollowTasks` names the two cases.
15. "We always create a timestamped .bak before any write" (`ideconfig/jsonmerge.go`
    20, `ideconfig.go` 7). Whether there is something to back up is decided before
    the file is read (jsonmerge.go 221, 236): a file that appears in between is
    merged, loses its comments and has no backup. Backups of one second share a
    name, and one that fails may have truncated the earlier. `SavedIsRecoverable`
    names these cases and the save between backup and replacement.

## 6. Not modelled

- In the modelled parts: texts, metadata and names of messages; the SSRF guard,
  redirects and headers of a webhook request; inbox files of older bridges in
  `LoadInbox`; peers that choose messageIds with the prefix of synthetic replies;
  deep copies, history length and context filters of the task store; a clock that
  is set back (the sort in `List` compares monotonic readings, the page token
  carries wall-clock time, so such a step could skip tasks); URL
  validation of the directory; bind errors other than an address in use.
- In the newer parts: the agent card, health and metrics endpoints; prompts and
  output formats of the responder's CLIs and the keystrokes of the nudger's
  backends (each a success or a failure); formats and sizes of release archives;
  JSON, TOML and YAML syntax (whether a file parses, and what a rewrite keeps);
  stopping the service and `--purge` of the state directory; users who delete config
  files or backups.
- All updates of `SelfUpdate` work on one path. The code asks for it with
  `os.Executable` (`cli/update.go` 134) after the request to GitHub; on Linux that
  may follow the running file, so an update that gets there after another one moved
  the binary aside would work on the backup's path instead.
- User hooks run detached, bounded by a timeout, and nobody reads their result; the
  worker command wires processes together.
- Secret screen (regular expressions over text), TLS, peer clients and mDNS
  (wiring of libraries), service, doctor, completion, version, metrics (I/O) and
  the conformance test kit (a client): no state of their own that steps of two
  actors could disturb.

## 7. Plan

The modules planned at first are written, and every safety property of their runs is
proved. Left for later: action properties that would say more of a single step (a
task that has ended stays ended, a settled question stays settled) where a run and a
theorem can share them; and, should the code of the user hooks or of the worker
command get state of its own, modules for them.
