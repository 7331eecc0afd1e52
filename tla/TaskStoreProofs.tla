---- MODULE TaskStoreProofs ----
(***************************************************************************)
(* Proofs about TaskStore. An update that carries a version loses no other *)
(* one because a copy that still has the stored version has the stored     *)
(* contents (CopiesFaithful), which holds because entries are              *)
(* replaced with a larger version and ids are never created twice. Paging  *)
(* is stable because the page token separates what was shown from what was *)
(* not, which needs that a page of a finite set has a last task.           *)
(***************************************************************************)
EXTENDS TaskStore, FiniteSetTheorems, WellFoundedInduction, TLAPS

\* The empty store.
LEMMA InitIInv == Init => IInv
BY StoreAssumption
   DEF Init, IInv, StoreType, CopiesFaithful, NoLostUpdate, ConfigsFollowTasks,
       Entry, NoEntry, NoCopy

\* A new id: no copy refers to it.
LEMMA CreateIInv ==
    ASSUME IInv, NEW t \in Ids, Create(t)
    PROVE  IInv'
<1> USE StoreAssumption
<1>1. StoreType'
  BY DEF IInv, StoreType, Create, Entry, listVars
<1>2. CopiesFaithful'
  BY DEF IInv, StoreType, CopiesFaithful, Create, listVars
<1>3. NoLostUpdate' /\ (\A u \in Ids \ created : accepted[u] = {})'
  BY DEF IInv, StoreType, CopiesFaithful, NoLostUpdate, Create, listVars
<1>4. ConfigsFollowTasks'
  BY DEF IInv, CopiesFaithful, ConfigsFollowTasks, Create
<1> QED
  BY <1>1, <1>2, <1>3, <1>4 DEF IInv

\* Reading, and giving a stale copy up.
LEMMA CopyIInv ==
    ASSUME IInv, NEW w \in Writers,
           (\E tracked \in BOOLEAN : UpdateRefused(w, tracked)) \/ \E t \in Ids : Get(w, t)
    PROVE  IInv'
<1> USE StoreAssumption
<1>1. CASE \E tracked \in BOOLEAN : UpdateRefused(w, tracked)
  BY <1>1 DEF IInv, StoreType, CopiesFaithful, NoLostUpdate, ConfigsFollowTasks,
              UpdateRefused, NoCopy, listVars
<1>2. CASE \E t \in Ids : Get(w, t)
  <2>1. PICK t \in Ids : Get(w, t)
    BY <1>2
  <2>2. entry[t] \in Entry
    BY DEF IInv, StoreType
  <2>3. StoreType'
    BY <2>1, <2>2 DEF IInv, StoreType, Get, Entry, listVars
  <2>4. CopiesFaithful'
    BY <2>1, <2>2 DEF IInv, StoreType, CopiesFaithful, Get, Entry, listVars
  <2>5. NoLostUpdate' /\ ConfigsFollowTasks' /\ (\A u \in Ids \ created : accepted[u] = {})'
    BY <2>1 DEF IInv, NoLostUpdate, ConfigsFollowTasks, Get, listVars
  <2> QED
    BY <2>3, <2>4, <2>5 DEF IInv
<1> QED
  BY <1>1, <1>2

\* A tracked update that is let through was made on the stored contents; what
\* an untracked one replaces is recorded.
LEMMA UpdateIInv ==
    ASSUME IInv, NEW w \in Writers, NEW tracked \in BOOLEAN, NEW ends \in BOOLEAN,
           Update(w, tracked, ends)
    PROVE  IInv'
<1> DEFINE t == copy[w].id
           new == copy[w].writes \cup {w}
<1> USE StoreAssumption
<1>1. /\ t \in tasks /\ t \in Ids /\ t # 0
      /\ entry[t] \in Entry
      /\ new \subseteq Writers
      /\ tracked => copy[w].writes = entry[t].writes
  BY DEF IInv, StoreType, CopiesFaithful, Update, UpdateAllowed
<1>2. /\ entry' = [entry EXCEPT ![t] = [version |-> entry[t].version + 1, updated |-> clock,
                                        ended |-> ends, writes |-> new]]
      /\ accepted' = [accepted EXCEPT ![t] = accepted[t] \cup {w}]
      /\ overwritten' = IF tracked THEN overwritten
                        ELSE [overwritten EXCEPT ![t] = overwritten[t] \cup (entry[t].writes \ new)]
      /\ copy' = [copy EXCEPT ![w] = NoCopy]
      /\ UNCHANGED <<tasks, configs, evicting, clock, created, orphaned>>
  BY <1>1 DEF IInv, StoreType, Update
<1>3. w \in new /\ (tracked => entry[t].writes \subseteq new)
  BY <1>1
<1> HIDE DEF t, new
<1>4. StoreType'
  <2>1. [version |-> entry[t].version + 1, updated |-> clock,
         ended |-> ends, writes |-> new] \in Entry
    BY <1>1 DEF IInv, StoreType, Entry
  <2>2. NoCopy \in [id : Ids \cup {0}, version : Nat, writes : SUBSET Writers]
    BY DEF NoCopy
  <2>3. entry[t].writes \subseteq Writers
    BY <1>1 DEF Entry
  <2>4. overwritten' \in [Ids -> SUBSET Writers] /\ accepted' \in [Ids -> SUBSET Writers]
    BY <1>1, <1>2, <2>3 DEF IInv, StoreType
  <2> QED
    BY <1>1, <1>2, <2>1, <2>2, <2>4 DEF IInv, StoreType
<1>5. CopiesFaithful'
  <2>1. t \in created
    BY <1>1 DEF IInv, CopiesFaithful
  <2>2. entry'[t].version = entry[t].version + 1 /\ entry[t].version \in Nat
    BY <1>1, <1>2 DEF IInv, StoreType, Entry
  <2>3. ASSUME NEW v \in Writers, copy'[v].id # 0, copy'[v].id \in tasks
        PROVE  /\ copy'[v].version <= entry'[copy'[v].id].version
               /\ copy'[v].version = entry'[copy'[v].id].version =>
                     copy'[v].writes = entry'[copy'[v].id].writes
    <3>1. v # w /\ copy'[v] = copy[v] /\ copy[v].version \in Nat
      BY <1>2, <2>3 DEF NoCopy, IInv, StoreType
    <3>2. copy[v].version <= entry[copy[v].id].version
      BY <2>3, <3>1 DEF IInv, CopiesFaithful
    <3>3. CASE copy[v].id = t
      BY <2>2, <3>1, <3>2, <3>3
    <3>4. CASE copy[v].id # t
      BY <1>2, <2>3, <3>1, <3>4 DEF IInv, StoreType, CopiesFaithful
    <3> QED
      BY <3>3, <3>4
  <2>4. \A v \in Writers : copy'[v].id # 0 => copy'[v].id \in created
    BY <1>2 DEF IInv, StoreType, CopiesFaithful, NoCopy
  <2> QED
    BY <1>2, <2>3, <2>4 DEF IInv, CopiesFaithful
<1>6. NoLostUpdate'
  <2> SUFFICES ASSUME NEW u \in tasks
               PROVE  accepted'[u] \subseteq entry'[u].writes \cup overwritten'[u]
    BY <1>2 DEF NoLostUpdate
  <2>1. u \in Ids /\ accepted[u] \subseteq entry[u].writes \cup overwritten[u]
    BY DEF IInv, StoreType, NoLostUpdate
  <2>2. CASE u # t
    BY <1>1, <1>2, <2>1, <2>2 DEF IInv, StoreType
  <2>3. CASE u = t
    <3>1. entry'[u].writes = new /\ accepted'[u] = accepted[u] \cup {w}
      BY <1>1, <1>2, <2>3 DEF IInv, StoreType
    <3>2. overwritten'[u] = IF tracked THEN overwritten[u]
                            ELSE overwritten[u] \cup (entry[u].writes \ new)
      BY <1>1, <1>2, <2>3 DEF IInv, StoreType
    <3> QED
      BY <1>3, <2>1, <2>3, <3>1, <3>2
  <2> QED
    BY <2>2, <2>3
<1>7. (\A u \in Ids \ created : accepted[u] = {})'
  BY <1>1, <1>2 DEF IInv, StoreType, CopiesFaithful
<1>8. ConfigsFollowTasks'
  BY <1>2 DEF IInv, ConfigsFollowTasks
<1> QED
  BY <1>4, <1>5, <1>6, <1>7, <1>8 DEF IInv

\* The janitor and the clients that register webhooks: evicted ids keep their
\* place in created, and a config left behind is recorded.
LEMMA ConfigIInv ==
    ASSUME IInv,
           \/ EvictTerminal
           \/ \E t \in Ids : SaveConfig(t) \/ \E ok \in BOOLEAN : DeleteConfigs(t, ok)
    PROVE  IInv'
<1> USE StoreAssumption
<1>1. CASE EvictTerminal
  <2>1. StoreType'
    <3>1. NoEntry \in Entry
      <4>1. MaxClock \in Nat
        BY StoreAssumption
      <4> QED
        BY <4>1 DEF NoEntry, Entry
    <3> QED
      BY <1>1, <3>1 DEF IInv, StoreType, EvictTerminal
  <2>2. CopiesFaithful' /\ NoLostUpdate'
    BY <1>1 DEF IInv, StoreType, CopiesFaithful, NoLostUpdate, EvictTerminal
  <2>3. ConfigsFollowTasks' /\ (\A u \in Ids \ created : accepted[u] = {})'
    BY <1>1 DEF IInv, ConfigsFollowTasks, EvictTerminal
  <2> QED
    BY <2>1, <2>2, <2>3 DEF IInv
<1>2. CASE \E t \in Ids, ok \in BOOLEAN : DeleteConfigs(t, ok)
  BY <1>2 DEF IInv, StoreType, CopiesFaithful, NoLostUpdate, ConfigsFollowTasks,
              DeleteConfigs, DeleteAll
<1>3. CASE \E t \in Ids : SaveConfig(t)
  BY <1>3 DEF IInv, StoreType, CopiesFaithful, NoLostUpdate, ConfigsFollowTasks, SaveConfig
<1> QED
  BY <1>1, <1>2, <1>3

\* A listing reads only, and time touches nothing stored.
LEMMA ReadIInv ==
    ASSUME IInv,
           \/ List \/ Tick
           \/ \E status \in {"any", "open", "ended"} : StartListing(status)
    PROVE  IInv'
<1>1. CASE List \/ \E status \in {"any", "open", "ended"} : StartListing(status)
  BY <1>1 DEF IInv, StoreType, CopiesFaithful, NoLostUpdate, ConfigsFollowTasks,
              List, StartListing
<1>2. CASE Tick
  <2>1. clock' \in 0..MaxClock
    <3>1. MaxClock \in Nat
      BY StoreAssumption
    <3> QED
      BY <1>2, <3>1 DEF IInv, StoreType, Tick
  <2> QED
    BY <1>2, <2>1 DEF IInv, StoreType, CopiesFaithful, NoLostUpdate, ConfigsFollowTasks,
                      Tick, listVars
<1> QED
  BY <1>1, <1>2

\* Every call of the store and every step of the janitor keeps IInv.
LEMMA NextIInv == IInv /\ [Next]_vars => IInv'
<1> SUFFICES ASSUME IInv, [Next]_vars PROVE IInv'
  OBVIOUS
<1>1. CASE UNCHANGED vars
  BY <1>1 DEF vars, IInv, StoreType, CopiesFaithful, NoLostUpdate, ConfigsFollowTasks
<1>2. CASE Next
  BY <1>2, CreateIInv, CopyIInv, UpdateIInv, ConfigIInv, ReadIInv DEF Next
<1> QED
  BY <1>1, <1>2

\* The invariant of the store, for any ids, writers, clocks and page sizes.
THEOREM StoreInvariant == Spec => []IInv
BY InitIInv, NextIInv, PTL DEF Spec

\* An accepted update is lost to an untracked one only, never to one that
\* carried a version.
THEOREM UpdatesAreKept == Spec => []NoLostUpdate
<1>1. IInv => NoLostUpdate
  BY DEF IInv
<1> QED
  BY <1>1, StoreInvariant, PTL

\* A push config outlives its task only on the janitor's list, after a failed
\* deletion, or when it was registered too late.
THEOREM ConfigsAreEvicted == Spec => []ConfigsFollowTasks
<1>1. IInv => ConfigsFollowTasks
  BY DEF IInv
<1> QED
  BY <1>1, StoreInvariant, PTL

-----------------------------------------------------------------------------
(* Pages *)

\* The order of the natural numbers as a set of pairs.
NatLess == {p \in Nat \X Nat : p[1] < p[2]}

\* A set of numbers that is not empty has a least one.
LEMMA LeastNumber ==
    ASSUME NEW S \in SUBSET Nat, S # {}
    PROVE  \E x \in S : \A y \in S : x <= y
<1>1. IsWellFoundedOn(NatLess, Nat)
  BY NatLessThanWellFounded DEF OpToRel, NatLess
<1>2. PICK x \in S : \A y \in S : <<y, x>> \notin NatLess
  BY <1>1, WFMin
<1>3. ASSUME NEW y \in S
      PROVE  x <= y
  <2>1. <<y, x>> \notin NatLess
    BY <1>2
  <2>2. ~(y < x)
    BY <2>1 DEF NatLess
  <2> QED
    BY <2>2
<1> QED
  BY <1>3

\* Entries have times, so Precedes is a total order on ids.
LEMMA PrecedesIsOrder ==
    ASSUME StoreType, NEW t \in Ids, NEW u \in Ids
    PROVE  /\ t \in Nat /\ entry[t].updated \in Nat
           /\ ~Precedes(t, t)
           /\ t # u => Precedes(t, u) \/ Precedes(u, t)
           /\ Precedes(t, u) => ~Precedes(u, t)
           /\ \A v \in Ids : Precedes(t, u) /\ Precedes(u, v) => Precedes(t, v)
<1>1. \A v \in Ids : v \in Nat /\ entry[v].updated \in Nat
  <2>1. \A v \in Ids : entry[v] \in Entry /\ v \in Nat
    BY StoreAssumption DEF StoreType
  <2>2. MaxClock \in Nat
    BY StoreAssumption
  <2> QED
    BY <2>1, <2>2 DEF Entry
<1> QED
  BY <1>1 DEF Precedes

\* The tasks of a set that a listing shows before t.
Before(S, t) == {u \in S : Precedes(u, t)}

\* How many there are grows along the order.
LEMMA BeforeGrows ==
    ASSUME StoreType, NEW S \in SUBSET Ids, NEW t \in S, NEW u \in S
    PROVE  /\ Cardinality(Before(S, t)) \in Nat
           /\ Precedes(t, u) => Cardinality(Before(S, t)) < Cardinality(Before(S, u))
<1>1. IsFiniteSet(S) /\ IsFiniteSet(Before(S, t)) /\ IsFiniteSet(Before(S, u))
  BY StoreAssumption, FS_Subset DEF Before
<1>2. Cardinality(Before(S, t)) \in Nat
  BY <1>1, FS_CardinalityType
<1>3. ASSUME Precedes(t, u)
      PROVE  Cardinality(Before(S, t)) < Cardinality(Before(S, u))
  <2>1. Before(S, t) \subseteq Before(S, u)
    BY <1>3, PrecedesIsOrder DEF Before
  <2>2. t \in Before(S, u) /\ t \notin Before(S, t)
    BY <1>3, PrecedesIsOrder DEF Before
  <2>3. /\ Cardinality(Before(S, t)) <= Cardinality(Before(S, u))
        /\ Cardinality(Before(S, t)) # Cardinality(Before(S, u))
    BY <1>1, <2>1, <2>2, FS_Subset
  <2>4. Cardinality(Before(S, u)) \in Nat
    BY <1>1, FS_CardinalityType
  <2> QED
    BY <1>2, <2>3, <2>4
<1> QED
  BY <1>2, <1>3

\* What is left of a listing is a set of ids, and a page is a part of it.
LEMMA PageInRest ==
    ASSUME StoreType
    PROVE  Rest \in SUBSET Ids /\ Page \subseteq Rest
BY DEF StoreType, Rest, Page

\* While something is left the next page is not empty.
LEMMA PageNotEmpty ==
    ASSUME StoreType, Rest # {}
    PROVE  Page # {}
<1> DEFINE counts == {Cardinality(Before(Rest, t)) : t \in Rest}
<1>1. counts \in SUBSET Nat /\ counts # {}
  BY PageInRest, BeforeGrows
<1>2. PICK n \in counts : \A m \in counts : n <= m
  BY <1>1, LeastNumber
<1>3. PICK t \in Rest : n = Cardinality(Before(Rest, t))
  BY <1>2
<1>4. Before(Rest, t) = {}
  <2> SUFFICES ASSUME NEW u \in Before(Rest, t)
               PROVE  FALSE
    OBVIOUS
  <2>1. u \in Rest /\ Precedes(u, t)
    BY DEF Before
  <2>2. /\ Cardinality(Before(Rest, u)) \in Nat /\ Cardinality(Before(Rest, t)) \in Nat
        /\ Cardinality(Before(Rest, u)) < Cardinality(Before(Rest, t))
    BY <2>1, PageInRest, BeforeGrows
  <2>3. Cardinality(Before(Rest, t)) <= Cardinality(Before(Rest, u))
    BY <1>2, <1>3, <2>1
  <2> QED
    BY <2>2, <2>3
<1>5. Cardinality(Before(Rest, t)) = 0
  BY <1>4, FS_EmptySet
<1>6. t \in Page
  BY <1>5, StoreAssumption DEF Page, Before
<1> QED
  BY <1>6

\* A page that is not empty has a last task, and Last is it.
LEMMA LastOfPage ==
    ASSUME StoreType, Page # {}
    PROVE  Last(Page) \in Page /\ \A u \in Page \ {Last(Page)} : Precedes(u, Last(Page))
<1> DEFINE room == {PageSize - Cardinality(Before(Rest, t)) : t \in Page}
<1>0. PageSize \in Nat
  BY StoreAssumption
<1>1. ASSUME NEW t \in Page
      PROVE  /\ t \in Rest /\ Cardinality(Before(Rest, t)) \in Nat
             /\ Cardinality(Before(Rest, t)) < PageSize
  BY PageInRest, BeforeGrows DEF Page, Before
<1>2. room \in SUBSET Nat /\ room # {}
  BY <1>0, <1>1
<1>3. PICK n \in room : \A m \in room : n <= m
  BY <1>2, LeastNumber
<1>4. PICK t \in Page : n = PageSize - Cardinality(Before(Rest, t))
  BY <1>3
<1>5. ASSUME NEW u \in Page \ {t}
      PROVE  Precedes(u, t)
  <2>1. PageSize - Cardinality(Before(Rest, t)) <= PageSize - Cardinality(Before(Rest, u))
    BY <1>3, <1>4
  <2>2. ~(Cardinality(Before(Rest, t)) < Cardinality(Before(Rest, u)))
    BY <1>0, <1>1, <2>1
  <2>3. ~Precedes(t, u)
    BY <1>1, <2>2, PageInRest, BeforeGrows
  <2> QED
    BY <1>1, <2>3, PageInRest, PrecedesIsOrder
<1>6. \E x \in Page : \A u \in Page \ {x} : Precedes(u, x)
  BY <1>5
<1> QED
  BY <1>6 DEF Last

-----------------------------------------------------------------------------
(* Listings *)

\* Behind a token for a task means after the task in the order.
LEMMA BehindToken ==
    ASSUME NEW t \in Ids, NEW u \in Ids, StoreType
    PROVE  Behind(t, [updated |-> entry[u].updated, id |-> u]) <=> Precedes(u, t)
BY PrecedesIsOrder DEF Behind, Precedes

\* What lies behind a task that lies behind the token lies behind the token.
LEMMA BehindBehind ==
    ASSUME TypeOK, NEW t \in Ids, NEW u \in Ids, Behind(u, cursor), Precedes(u, t)
    PROVE  Behind(t, cursor)
<1>1. /\ t \in Nat /\ entry[t].updated \in Nat
      /\ u \in Nat /\ entry[u].updated \in Nat
  BY PrecedesIsOrder DEF TypeOK
<1>2. cursor.updated \in Nat /\ cursor.id \in Nat
  <2>1. cursor \in [updated : 0..MaxClock + 1, id : Ids \cup {0}]
    BY DEF TypeOK
  <2>2. MaxClock \in Nat /\ Ids \subseteq Nat
    BY StoreAssumption
  <2> DEFINE upd == cursor.updated
             id == cursor.id
  <2>3. upd \in 0..MaxClock + 1 /\ id \in Ids \cup {0}
    BY <2>1
  <2> HIDE DEF upd, id
  <2>4. upd \in Nat
    BY <2>2, <2>3
  <2>5. id \in Nat
    BY <2>2, <2>3
  <2> QED
    BY <2>4, <2>5 DEF upd, id
<1> QED
  BY <1>1, <1>2 DEF Behind, Precedes

\* A new token separates the page from what is left.
LEMMA TokenSeparates ==
    ASSUME TypeOK, Page # Rest, NEW t \in tasks
    PROVE  LET token == [updated |-> entry[Last(Page)].updated, id |-> Last(Page)]
           IN  /\ Last(Page) \in Rest
               /\ t \in Page => ~Behind(t, token)
               /\ t \in Rest \ Page => Behind(t, token)
               /\ ~Behind(t, cursor) => ~Behind(t, token)
<1> DEFINE last == Last(Page)
           token == [updated |-> entry[last].updated, id |-> last]
<1>1. StoreType /\ t \in Ids /\ Rest \in SUBSET Ids /\ Page \subseteq Rest
  BY PageInRest DEF TypeOK, StoreType
<1>2. last \in Page /\ \A u \in Page \ {last} : Precedes(u, last)
  BY <1>1, PageNotEmpty, LastOfPage
<1>3. last \in Rest /\ last \in Ids
  BY <1>1, <1>2
<1>4. Behind(last, cursor)
  BY <1>3 DEF Rest
<1> HIDE DEF last
<1>5. Behind(t, token) <=> Precedes(last, t)
  BY <1>1, <1>3, BehindToken
<1> HIDE DEF token
<1>6. ASSUME t \in Page
      PROVE  ~Behind(t, token)
  <2>1. CASE t = last
    BY <1>1, <1>5, <2>1, PrecedesIsOrder
  <2>2. CASE t # last
    BY <1>1, <1>2, <1>3, <1>5, <1>6, <2>2, PrecedesIsOrder
  <2> QED
    BY <2>1, <2>2
<1>7. ASSUME t \in Rest, t \notin Page
      PROVE  Behind(t, token)
  <2>1. /\ Cardinality(Before(Rest, last)) \in Nat /\ Cardinality(Before(Rest, t)) \in Nat
        /\ Precedes(t, last) => Cardinality(Before(Rest, t)) < Cardinality(Before(Rest, last))
    BY <1>1, <1>3, <1>7, BeforeGrows
  <2>2. Cardinality(Before(Rest, last)) < PageSize /\ ~(Cardinality(Before(Rest, t)) < PageSize)
    BY <1>2, <1>7 DEF Page, Before
  <2>3. ~Precedes(t, last)
    BY <2>1, <2>2, StoreAssumption
  <2>4. t # last
    BY <1>2, <1>7
  <2> QED
    BY <1>1, <1>3, <1>5, <2>3, <2>4, PrecedesIsOrder
<1>8. Behind(t, token) => Behind(t, cursor)
  BY <1>1, <1>3, <1>4, <1>5, BehindBehind
<1> QED
  BY <1>3, <1>6, <1>7, <1>8 DEF last, token

\* A page shows each unchanged task at most once, the matching ones behind the
\* old token and not behind the new one.
LEMMA ListKeepsListing ==
    ASSUME ListingInv, List
    PROVE  ListingInv'
<1>1. /\ paging /\ UNCHANGED <<tasks, entry, wanted, quiet>>
      /\ shown' = [t \in Ids |-> IF t \in Page THEN shown[t] + 1 ELSE shown[t]]
  BY DEF List
<1>2. TypeOK /\ StoreType /\ quiet \subseteq tasks /\ tasks \subseteq Ids
  BY DEF ListingInv, TypeOK, StoreType
<1>3. \A t \in Ids : shown'[t] = IF t \in Page THEN shown[t] + 1 ELSE shown[t]
  BY <1>1
<1>4. \A t \in quiet : shown[t] = IF Matches(t, wanted) /\ ~Behind(t, cursor) THEN 1 ELSE 0
  BY <1>1 DEF ListingInv
<1>5. \A t \in tasks : t \in Rest <=> Matches(t, wanted) /\ Behind(t, cursor)
  BY DEF Rest
<1>6. \A t \in tasks : Matches(t, wanted)' <=> Matches(t, wanted)
  BY <1>1 DEF Matches
<1>7. Page \subseteq Rest
  BY <1>2, PageInRest
<1>8. shown' \in [Ids -> Nat]
  BY <1>1, <1>2 DEF TypeOK
<1>9. StoreType'
  BY <1>2 DEF StoreType, List
<1>10. CASE Page # Rest
  <2> DEFINE token == [updated |-> entry[Last(Page)].updated, id |-> Last(Page)]
  <2>1. cursor' = token /\ paging'
    BY <1>1, <1>10 DEF List
  <2>2. tasks # {}
    BY <1>7, <1>10 DEF Rest
  <2>3. Last(Page) \in Ids
    BY <1>2, <1>10, <2>2, TokenSeparates DEF Rest
  <2>4. entry[Last(Page)].updated \in 0..(MaxClock + 1)
    <3>1. entry[Last(Page)].updated \in 0..MaxClock
      BY <1>2, <2>3 DEF StoreType, Entry
    <3>2. MaxClock \in Nat
      BY StoreAssumption
    <3> QED
      BY <3>1, <3>2
  <2>5. TypeOK'
    BY <1>1, <1>2, <1>8, <1>9, <2>1, <2>3, <2>4 DEF TypeOK, List
  <2>6. \A t \in tasks : Behind(t, cursor)' <=> Behind(t, token)
    BY <1>1, <2>1 DEF Behind
  <2> HIDE DEF token
  <2>7. ASSUME NEW t \in quiet
        PROVE  shown'[t] = IF Matches(t, wanted) /\ ~Behind(t, token) THEN 1 ELSE 0
    <3>1. /\ t \in Page => ~Behind(t, token)
          /\ t \in Rest \ Page => Behind(t, token)
          /\ ~Behind(t, cursor) => ~Behind(t, token)
      BY <1>2, <1>10, TokenSeparates DEF token
    <3> QED
      BY <1>2, <1>3, <1>4, <1>5, <1>7, <3>1
  <2>8. \A t \in quiet' :
           shown'[t] = IF Matches(t, wanted)' /\ (paging' => ~Behind(t, cursor)') THEN 1 ELSE 0
    BY <1>1, <1>2, <1>6, <2>1, <2>6, <2>7
  <2> QED
    BY <1>1, <1>2, <2>5, <2>8 DEF ListingInv
<1>11. CASE Page = Rest
  <2>1. ~paging' /\ UNCHANGED cursor /\ paging' = FALSE
    BY <1>11 DEF List
  <2>2. TypeOK'
    BY <1>1, <1>2, <1>8, <1>9, <2>1 DEF TypeOK, List
  <2>3. \A t \in quiet : shown'[t] = IF Matches(t, wanted) THEN 1 ELSE 0
    BY <1>2, <1>3, <1>4, <1>5, <1>11
  <2>4. \A t \in quiet' :
           shown'[t] = IF Matches(t, wanted)' /\ (paging' => ~Behind(t, cursor)') THEN 1 ELSE 0
    BY <1>1, <1>2, <1>6, <2>1, <2>3
  <2> QED
    BY <1>1, <1>2, <2>2, <2>4 DEF ListingInv
<1> QED
  BY <1>10, <1>11

\* A listing begins with everything behind the empty token.
LEMMA StartKeepsListing ==
    ASSUME ListingInv, NEW status \in {"any", "open", "ended"}, StartListing(status)
    PROVE  ListingInv'
<1>1. /\ paging' = TRUE /\ wanted' = status /\ cursor' = NoCursor /\ quiet' = tasks
      /\ shown' = [t \in Ids |-> 0] /\ UNCHANGED <<tasks, entry>>
  BY DEF StartListing
<1>2. TypeOK /\ StoreType /\ tasks \subseteq Ids /\ MaxClock \in Nat
  BY StoreAssumption DEF ListingInv, TypeOK, StoreType
<1>3. NoCursor \in [updated : 0..(MaxClock + 1), id : Ids \cup {0}]
  BY <1>2 DEF NoCursor
<1>4. StoreType'
  BY <1>2 DEF StoreType, StartListing
<1>5. TypeOK'
  BY <1>1, <1>2, <1>3, <1>4 DEF TypeOK
<1>6. \A t \in tasks : Behind(t, cursor)'
  <2>1. \A t \in tasks : entry[t].updated \in 0..MaxClock
    BY <1>2 DEF StoreType, Entry
  <2>2. \A t \in tasks : entry[t].updated < MaxClock + 1
    BY <1>2, <2>1
  <2> QED
    BY <1>1, <2>2 DEF Behind, NoCursor
<1> QED
  BY <1>1, <1>2, <1>5, <1>6 DEF ListingInv

\* A step that leaves the listing and the unchanged tasks alone.
LEMMA OthersKeepListing ==
    ASSUME ListingInv, StoreType', UNCHANGED listVars, quiet' \subseteq quiet \cap tasks',
           \A t \in quiet' : entry'[t] = entry[t]
    PROVE  ListingInv'
<1>1. UNCHANGED <<paging, wanted, cursor, shown>>
  BY DEF listVars
<1>2. TypeOK'
  BY <1>1 DEF ListingInv, TypeOK
<1>3. \A t \in quiet' : (Matches(t, wanted)' <=> Matches(t, wanted))
                       /\ (Behind(t, cursor)' <=> Behind(t, cursor))
  BY <1>1 DEF Matches, Behind
<1> QED
  BY <1>1, <1>2, <1>3 DEF ListingInv

\* Whatever else happens to the store, unchanged tasks stay unchanged.
LEMMA NextKeepsListing ==
    ASSUME IInv, IInv', ListingInv, [Next]_vars
    PROVE  ListingInv'
<1>1. StoreType' /\ quiet \subseteq tasks /\ tasks \subseteq created /\ tasks \subseteq Ids /\ StoreType
  BY DEF IInv, CopiesFaithful, ListingInv, StoreType
<1>2. ASSUME NEW t \in Ids, Create(t)
      PROVE  ListingInv'
  <2>1. \A u \in quiet : entry'[u] = entry[u] /\ u \in tasks'
    BY <1>1, <1>2 DEF Create, StoreType
  <2> QED
    BY <1>1, <1>2, <2>1, OthersKeepListing DEF Create
<1>3. ASSUME NEW w \in Writers, NEW tracked \in BOOLEAN, NEW ends \in BOOLEAN,
             Update(w, tracked, ends)
      PROVE  ListingInv'
  <2>1. \A u \in quiet' : entry'[u] = entry[u]
    BY <1>1, <1>3 DEF Update, StoreType
  <2> QED
    BY <1>1, <1>3, <2>1, OthersKeepListing DEF Update
<1>4. CASE EvictTerminal
  <2>1. \A u \in quiet' : entry'[u] = entry[u]
    BY <1>1, <1>4 DEF EvictTerminal
  <2> QED
    BY <1>1, <1>4, <2>1, OthersKeepListing DEF EvictTerminal
<1>5. CASE UNCHANGED <<tasks, entry, quiet, listVars>>
  BY <1>1, <1>5, OthersKeepListing
<1>6. ASSUME NEW status \in {"any", "open", "ended"}, StartListing(status)
      PROVE  ListingInv'
  BY <1>6, StartKeepsListing
<1>7. CASE List
  BY <1>7, ListKeepsListing
<1> QED
  BY <1>2, <1>3, <1>4, <1>5, <1>6, <1>7
  DEF Next, SaveConfig, DeleteConfigs, UpdateRefused, Get, Tick, vars, listVars

\* The state of a listing, for any page size.
THEOREM ListingInvariant == Spec => []ListingInv
<1>1. Init => ListingInv
  <2> SUFFICES ASSUME Init PROVE ListingInv
    OBVIOUS
  <2>1. StoreType
    BY InitIInv DEF IInv
  <2>2. cursor \in [updated : 0..(MaxClock + 1), id : Ids \cup {0}]
    BY StoreAssumption DEF Init, NoCursor
  <2>3. shown \in [Ids -> Nat] /\ paging \in BOOLEAN /\ wanted \in {"any", "open", "ended"} /\ quiet = {}
    BY DEF Init
  <2> QED
    BY <2>1, <2>2, <2>3 DEF ListingInv, TypeOK
<1>2. IInv /\ IInv' /\ ListingInv /\ [Next]_vars => ListingInv'
  BY NextKeepsListing
<1> QED
  BY <1>1, <1>2, StoreInvariant, PTL DEF Spec

\* Paging is stable for any number of tasks, writers and any page size: what
\* does not change is shown once, whatever happens between two pages.
THEOREM PagingIsStable == Spec => []PagingStable
<1>1. ListingInv => PagingStable
  BY DEF ListingInv, PagingStable
<1> QED
  BY <1>1, ListingInvariant, PTL
====
