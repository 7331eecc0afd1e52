---- MODULE TaskStore ----
(***************************************************************************)
(* TTLStore of internal/agent/taskstore.go: the tasks of a bridge in       *)
(* memory, with optimistic concurrency on Update, cursor paging on List,   *)
(* and a janitor that evicts terminal tasks and then, outside the lock,    *)
(* their push configs.                                                     *)
(*                                                                         *)
(* The A2A server uses the store from many goroutines: writers read a      *)
(* task, change the copy and update with the version they read or, an      *)
(* untracked update, without one; clients register webhooks at any time;   *)
(* one client pages through List. Ids are numbers, ordered like the        *)
(* strings. What a task says is the set of writes it contains and whether  *)
(* it has ended.                                                           *)
(***************************************************************************)
EXTENDS Naturals, FiniteSets

CONSTANTS Ids,          \* task ids, a set of numbers
          Writers,      \* goroutines that update tasks
          PageSize,     \* page size of the listing client
          TTL,          \* terminalTaskTTL
          MaxClock,     \* bound on the clock
          MaxVersion    \* bound on the updates of one task

ASSUME StoreAssumption ==
    /\ Ids \subseteq Nat \ {0} /\ IsFiniteSet(Ids)
    /\ PageSize \in Nat \ {0}
    /\ {TTL, MaxClock, MaxVersion} \subseteq Nat

VARIABLES
    tasks,      \* tasks: the stored ids
    entry,      \* entry[t]: the ttlEntry of id t, while stored
    configs,    \* tasks with push configs (push.ConfigStore, external)
    evicting,   \* evicted ids whose configs the janitor has still to delete
    clock,
    copy,       \* copy[w]: the StoredTask a writer got, 0 as id if none
    \* the listing client
    paging,     \* a listing is under way
    wanted,     \* its status filter
    cursor,     \* the decoded page token: [updated, id], or NoCursor
    \* observation
    created,    \* ids ever created: the server never reuses one
    accepted,   \* accepted[t]: the writers whose update of t succeeded
    overwritten,\* overwritten[t]: writes an untracked update of t replaced
    orphaned,   \* ids whose configs the janitor failed to delete, or that got
                \* one after the janitor was through with them
    shown,      \* shown[t]: how often the current listing showed t
    quiet       \* tasks stored and unchanged since the listing began

vars == <<tasks, entry, configs, evicting, clock, copy, paging, wanted, cursor,
          created, accepted, overwritten, orphaned, shown, quiet>>
listVars == <<paging, wanted, cursor, shown>>

\* A token that is older than nothing: the empty page token.
NoCursor == [updated |-> MaxClock + 1, id |-> 0]

Entry == [version : Nat, updated : 0..MaxClock, ended : BOOLEAN, writes : SUBSET Writers]
NoEntry == [version |-> 0, updated |-> 0, ended |-> FALSE, writes |-> {}]
NoCopy == [id |-> 0, version |-> 0, writes |-> {}]

StoreType ==
    /\ tasks \subseteq Ids /\ created \subseteq Ids
    /\ entry \in [Ids -> Entry]
    /\ configs \subseteq Ids /\ evicting \subseteq Ids
    /\ clock \in 0..MaxClock
    /\ copy \in [Writers -> [id : Ids \cup {0}, version : Nat, writes : SUBSET Writers]]
    /\ accepted \in [Ids -> SUBSET Writers] /\ overwritten \in [Ids -> SUBSET Writers]
    /\ orphaned \subseteq Ids

TypeOK ==
    /\ StoreType
    /\ paging \in BOOLEAN
    /\ wanted \in {"any", "open", "ended"}
    /\ cursor \in [updated : 0..MaxClock + 1, id : Ids \cup {0}]
    /\ shown \in [Ids -> Nat]
    /\ quiet \subseteq Ids

Init ==
    /\ tasks = {} /\ created = {} /\ configs = {} /\ evicting = {} /\ orphaned = {}
    /\ entry = [t \in Ids |-> NoEntry]
    /\ clock = 0
    /\ copy = [w \in Writers |-> NoCopy]
    /\ paging = FALSE
    /\ wanted = "any"
    /\ cursor = NoCursor
    /\ accepted = [t \in Ids |-> {}]
    /\ overwritten = [t \in Ids |-> {}]
    /\ shown = [t \in Ids |-> 0]
    /\ quiet = {}

-----------------------------------------------------------------------------
(* Create, Get, Update *)

\* The first event of a new task.
Create(t) ==
    /\ t \notin created
    /\ tasks' = tasks \cup {t}
    /\ created' = created \cup {t}
    /\ entry' = [entry EXCEPT ![t] = [version |-> 1, updated |-> clock,
                                      ended |-> FALSE, writes |-> {}]]
    /\ UNCHANGED <<configs, evicting, clock, copy, listVars, accepted, overwritten, orphaned, quiet>>

\* A deep copy and its version. The server does not change an ended task; each
\* writer has one change to make.
Get(w, t) ==
    /\ t \in tasks
    /\ ~entry[t].ended
    /\ \A u \in Ids : w \notin accepted[u]
    /\ copy' = [copy EXCEPT ![w] = [id |-> t, version |-> entry[t].version,
                                    writes |-> entry[t].writes]]
    /\ UNCHANGED <<tasks, entry, configs, evicting, clock, listVars, created, accepted,
                   overwritten, orphaned, quiet>>

MutantVersionUnchecked(w, tracked) == copy[w].id \in tasks

\* Stored, and nobody has updated it since the copy was made; an untracked
\* update (PrevVersion = TaskVersionMissing) is not held to a version.
UpdateAllowed(w, tracked) ==
    /\ copy[w].id \in tasks
    /\ tracked => entry[copy[w].id].version = copy[w].version

\* The writer's change on top of its copy; ends: it ends the task.
Update(w, tracked, ends) ==
    LET t == copy[w].id
        new == copy[w].writes \cup {w}
    IN  /\ t # 0
        /\ UpdateAllowed(w, tracked)
        /\ entry[t].version < MaxVersion
        /\ entry' = [entry EXCEPT ![t] = [version |-> @.version + 1, updated |-> clock,
                                          ended |-> ends, writes |-> new]]
        /\ accepted' = [accepted EXCEPT ![t] = @ \cup {w}]
        /\ overwritten' = IF tracked THEN overwritten
                          ELSE [overwritten EXCEPT ![t] = @ \cup (entry[t].writes \ new)]
        /\ copy' = [copy EXCEPT ![w] = NoCopy]
        /\ quiet' = quiet \ {t}
        /\ UNCHANGED <<tasks, configs, evicting, clock, listVars, created, orphaned>>

\* ErrTaskNotFound or ErrConcurrentModification: read again.
UpdateRefused(w, tracked) ==
    /\ copy[w].id # 0
    /\ ~UpdateAllowed(w, tracked)
    /\ copy' = [copy EXCEPT ![w] = NoCopy]
    /\ UNCHANGED <<tasks, entry, configs, evicting, clock, listVars, created, accepted,
                   overwritten, orphaned, quiet>>

-----------------------------------------------------------------------------
(* EvictTerminal *)

Expired(t) == entry[t].ended /\ entry[t].updated + TTL < clock

\* The critical section of EvictTerminal.
EvictTerminal ==
    LET gone == {t \in tasks : Expired(t)}
    IN  /\ evicting = {}
        /\ gone # {}
        /\ tasks' = tasks \ gone
        /\ entry' = [t \in Ids |-> IF t \in gone THEN NoEntry ELSE entry[t]]
        /\ evicting' = gone
        /\ quiet' = quiet \ gone
        /\ UNCHANGED <<configs, clock, copy, listVars, created, accepted, overwritten, orphaned>>

MutantKeepConfigs(t) == UNCHANGED configs

\* pushConfigs.DeleteAll
DeleteAll(t) == configs' = configs \ {t}

\* One round of the loop after the critical section: an error is only logged,
\* and the id is off the janitor's list either way.
DeleteConfigs(t, ok) ==
    /\ t \in evicting
    /\ IF ok THEN DeleteAll(t) /\ UNCHANGED orphaned
       ELSE UNCHANGED configs /\ orphaned' = orphaned \cup {t}
    /\ evicting' = evicting \ {t}
    /\ UNCHANGED <<tasks, entry, clock, copy, listVars, created, accepted, overwritten, quiet>>

\* A client registers a webhook (push.ConfigStore.Save): with the message that
\* starts a task or by a call of its own, which may lose the race with the
\* janitor.
SaveConfig(t) ==
    /\ configs' = configs \cup {t}
    /\ orphaned' = IF t \in created \ (tasks \cup evicting) THEN orphaned \cup {t} ELSE orphaned
    /\ UNCHANGED <<tasks, entry, evicting, clock, copy, listVars, created, accepted,
                   overwritten, quiet>>

-----------------------------------------------------------------------------
(* List *)

\* matchesListFilter, for the status
Matches(t, status) ==
    \/ status = "any"
    \/ status = "open" /\ ~entry[t].ended
    \/ status = "ended" /\ entry[t].ended

\* The order of a listing: the youngest update first, then the larger id.
Precedes(t, u) ==
    \/ entry[t].updated > entry[u].updated
    \/ entry[t].updated = entry[u].updated /\ t > u

MutantBehindByTime(t, token) == entry[t].updated < token.updated

\* t lies behind the page token.
Behind(t, token) ==
    \/ entry[t].updated < token.updated
    \/ entry[t].updated = token.updated /\ t < token.id

Rest == {t \in tasks : Matches(t, wanted) /\ Behind(t, cursor)}

Page == {t \in Rest : Cardinality({u \in Rest : Precedes(u, t)}) < PageSize}

\* The last task of a full page.
Last(page) == CHOOSE t \in page : \A u \in page \ {t} : Precedes(u, t)

StartListing(status) ==
    /\ ~paging
    /\ tasks # {}
    /\ paging' = TRUE
    /\ wanted' = status
    /\ cursor' = NoCursor
    /\ shown' = [t \in Ids |-> 0]
    /\ quiet' = tasks
    /\ UNCHANGED <<tasks, entry, configs, evicting, clock, copy, created, accepted,
                   overwritten, orphaned>>

\* One call of List. Without a next page token the listing is complete.
List ==
    /\ paging
    /\ shown' = [t \in Ids |-> IF t \in Page THEN shown[t] + 1 ELSE shown[t]]
    /\ IF Page # Rest
       THEN /\ cursor' = [updated |-> entry[Last(Page)].updated, id |-> Last(Page)]
            /\ UNCHANGED paging
       ELSE paging' = FALSE /\ UNCHANGED cursor
    /\ UNCHANGED <<tasks, entry, configs, evicting, clock, copy, wanted, created, accepted,
                   overwritten, orphaned, quiet>>

-----------------------------------------------------------------------------

Tick ==
    /\ clock < MaxClock
    /\ clock' = clock + 1
    /\ UNCHANGED <<tasks, entry, configs, evicting, copy, listVars, created, accepted,
                   overwritten, orphaned, quiet>>

Next ==
    \/ \E t \in Ids : Create(t) \/ SaveConfig(t) \/ \E ok \in BOOLEAN : DeleteConfigs(t, ok)
    \/ \E w \in Writers :
          \/ \E t \in Ids : Get(w, t)
          \/ \E tracked \in BOOLEAN :
                UpdateRefused(w, tracked) \/ \E ends \in BOOLEAN : Update(w, tracked, ends)
    \/ EvictTerminal \/ List \/ Tick
    \/ \E status \in {"any", "open", "ended"} : StartListing(status)

Spec == Init /\ [][Next]_vars

-----------------------------------------------------------------------------
(* Correctness *)

\* Optimistic concurrency: a stored task contains every update the store
\* accepted, however reads and updates of several goroutines interleave, except
\* what an update that carried no version replaced. An update with a version
\* never discards another one.
NoLostUpdate == \A t \in tasks : accepted[t] \subseteq entry[t].writes \cup overwritten[t]

\* Paging is stable: a listing shows every matching task that was there from
\* its start and did not change exactly once, and no task twice unless it
\* changed, whatever is created, updated and evicted between the pages.
PagingStable ==
    /\ \A t \in quiet : shown[t] <= 1
    /\ ~paging => \A t \in quiet : Matches(t, wanted) => shown[t] = 1

\* "Push configs of evicted tasks are removed": a config whose task is gone is
\* on the janitor's list, unless the janitor failed to delete it or it was
\* registered when the janitor was through; nobody removes those.
ConfigsFollowTasks == configs \cap (created \ tasks) \subseteq evicting \cup orphaned

\* What makes the version check work: ids are not reused, and a copy with the
\* stored version has the stored contents.
CopiesFaithful ==
    /\ tasks \subseteq created
    /\ \A w \in Writers : copy[w].id # 0 =>
          /\ copy[w].id \in created
          /\ copy[w].id \in tasks =>
                /\ copy[w].version <= entry[copy[w].id].version
                /\ copy[w].version = entry[copy[w].id].version =>
                      copy[w].writes = entry[copy[w].id].writes

IInv ==
    /\ StoreType
    /\ CopiesFaithful
    /\ NoLostUpdate
    /\ \A t \in Ids \ created : accepted[t] = {}
    /\ ConfigsFollowTasks

\* Why paging is stable: an unchanged task has been shown once if it lies
\* before the page token and not at all if it lies behind.
ListingInv ==
    /\ TypeOK
    /\ quiet \subseteq tasks
    /\ \A t \in quiet :
          shown[t] = IF Matches(t, wanted) /\ (paging => ~Behind(t, cursor)) THEN 1 ELSE 0

====
