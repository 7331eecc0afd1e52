---- MODULE DiscoveryProofs ----
(***************************************************************************)
(* Proofs about Discovery: the lease arithmetic. IInv bounds the age of a  *)
(* running bridge's entry by the heartbeats lost in a row; if the ttl is   *)
(* longer than MaxLost + 1 periods and one call, the registry's gc never   *)
(* takes the entry of a running bridge.                                    *)
(***************************************************************************)
EXTENDS Discovery, TLAPS

\* Products with the period, for the provers' linear arithmetic.
LEMMA PeriodTimes ==
    ASSUME NEW n \in Nat
    PROVE  /\ Period * n \in Nat
           /\ Period * (n + 1) \in Nat
           /\ Period * (n + 1) = Period * n + Period
           /\ Period * 0 = 0
BY DiscoveryAssumption

\* More heartbeats take more time.
LEMMA PeriodMonotone ==
    ASSUME NEW n \in Nat, NEW m \in Nat, n <= m
    PROVE  Period * n <= Period * m
BY DiscoveryAssumption

\* Nothing runs and nothing is listed at the start.
LEMMA InitIInv == Init => IInv
BY DiscoveryAssumption DEF Init, IInv, TypeOK, HeartbeatShape, Lease, Absent, Posting, Requests

\* Every step keeps the types.
LEMMA TypeStep == TypeOK /\ [Next]_vars => TypeOK'
<1> SUFFICES ASSUME TypeOK, [Next]_vars PROVE TypeOK'
  OBVIOUS
<1> USE DiscoveryAssumption DEF TypeOK, Posting, Absent, Requests, procVars
<1>1. CASE UNCHANGED vars
  BY <1>1 DEF vars
<1>2. ASSUME NEW b \in Bridges, Bind(b) \/ BindInUse(b) \/ CloseListener(b) PROVE TypeOK'
  <2>1. UrlOf[b] \in Urls
    OBVIOUS
  <2>2. CASE Bind(b)
    BY <2>1, <2>2 DEF Bind
  <2>3. CASE BindInUse(b)
    BY <2>3 DEF BindInUse
  <2>4. CASE CloseListener(b)
    BY <2>1, <2>4 DEF CloseListener
  <2> QED
    BY <1>2, <2>2, <2>3, <2>4
<1>3. ASSUME NEW b \in Bridges, Stop(b) \/ Exit(b) PROVE TypeOK'
  <2>1. CASE Stop(b)
    BY <2>1 DEF Stop, Forget
  <2>2. CASE Exit(b)
    BY <2>2 DEF Exit, Forget
  <2> QED
    BY <1>3, <2>1, <2>2
<1>4. ASSUME NEW b \in Bridges, Crash(b) PROVE TypeOK'
  BY <1>4 DEF Crash, Forget
<1>5. ASSUME NEW b \in Bridges, FirstRegister(b) \/ Beat(b) \/ SeesCancel(b) \/ Leave(b)
      PROVE  TypeOK'
  BY <1>5 DEF FirstRegister, Beat, SeesCancel, Leave, Post
<1>6. ASSUME NEW b \in Bridges, AfterCall(b)
      PROVE  /\ hb' \in [Bridges -> {"start", "wait", "leave", "done"} \cup Posting]
             /\ timer' \in [Bridges -> 0..Period]
  BY <1>6 DEF AfterCall
<1>7. ASSUME NEW b \in Bridges, GiveUp(b) PROVE TypeOK'
  <2>1. known' \in [Bridges -> BOOLEAN]
    BY <1>7 DEF GiveUp
  <2>2. lost' \in [Bridges -> 0..MaxLost + 1]
    BY <1>7 DEF GiveUp
  <2> QED
    BY <1>6, <1>7, <2>1, <2>2 DEF GiveUp
<1>8. ASSUME NEW r \in net, Answer(r)
      PROVE  /\ hb' \in [Bridges -> {"start", "wait", "leave", "done"} \cup Posting]
             /\ timer' \in [Bridges -> 0..Period]
  <2>1. r.from \in Bridges
    BY <1>8
  <2>2. AfterCall(r.from) \/ UNCHANGED <<hb, timer>>
    BY <1>8 DEF Answer
  <2> QED
    BY <1>6, <2>1, <2>2
<1>9. ASSUME NEW r \in net, Lose(r) PROVE TypeOK'
  BY <1>9 DEF Lose
<1>10. ASSUME NEW r \in net, Register(r) PROVE TypeOK'
  <2>1. Answer(r) /\ r.from \in Bridges /\ UrlOf[r.from] \in Urls
    BY <1>10 DEF Register
  <2>2. known' \in [Bridges -> BOOLEAN]
    BY <1>10 DEF Register
  <2> QED
    BY <1>8, <1>10, <2>1, <2>2 DEF Register
<1>11. ASSUME NEW r \in net, Unregister(r) PROVE TypeOK'
  <2>1. Answer(r) /\ r.from \in Bridges /\ UrlOf[r.from] \in Urls
    BY <1>11 DEF Unregister
  <2>2. known' \in [Bridges -> BOOLEAN]
    BY <1>11 DEF Unregister
  <2> QED
    BY <1>8, <1>11, <2>1, <2>2 DEF Unregister
<1>12. CASE gc \/ DirectoryRestart
  <2>1. CASE gc
    BY <2>1 DEF gc
  <2>2. CASE DirectoryRestart
    BY <2>2 DEF DirectoryRestart
  <2> QED
    BY <1>12, <2>1, <2>2
<1>13. CASE Tick
  BY <1>13 DEF Tick, Listed
<1> QED
  BY <1>1, <1>2, <1>3, <1>4, <1>5, <1>7, <1>9, <1>10, <1>11, <1>12, <1>13 DEF Next

\* The heartbeats that may be lost, plus the one on its way, fit into the ttl.
LeaseFits == Period * (MaxLost + 1) + 1 <= TTL

\* While the lease holds, the entry is not stale.
LEMMA LeaseNotStale ==
    ASSUME LeaseFits, IInv, NEW b \in Bridges, known[b]
    PROVE  ~Stale(UrlOf[b])
<1> DEFINE n == IF hb[b] = "beating" THEN lost[b] + 1 ELSE lost[b]
<1>1. /\ lost[b] \in 0..MaxLost /\ timer[b] \in 0..Period /\ MaxLost \in Nat
      /\ Period \in Nat /\ TTL \in Nat /\ age[UrlOf[b]] \in Absent..TTL + 1
      /\ hb[b] \in {"wait", "beating"} /\ (hb[b] = "beating" => timer[b] <= 1)
      /\ age[UrlOf[b]] <= timer[b] + Period * n
  BY DiscoveryAssumption DEF IInv, TypeOK, Lease, LeaseOf, LeaseAge
<1>2. Period * (MaxLost + 1) = Period * MaxLost + Period
  BY <1>1, PeriodTimes
<1>3. CASE hb[b] = "beating"
  <2>1. Period * (lost[b] + 1) = Period * lost[b] + Period /\ Period * lost[b] \in Nat
        /\ Period * lost[b] <= Period * MaxLost
    BY <1>1, PeriodTimes, PeriodMonotone
  <2>2. Period * MaxLost \in Nat
    BY <1>1, PeriodTimes
  <2> HIDE DEF n
  <2>3. n = lost[b] + 1
    BY <1>3 DEF n
  <2> QED
    BY <1>1, <1>2, <1>3, <2>1, <2>2, <2>3 DEF Stale, LeaseFits, Absent
<1>4. CASE hb[b] = "wait"
  <2>1. Period * lost[b] \in Nat /\ Period * lost[b] <= Period * MaxLost /\ Period * MaxLost \in Nat
    BY <1>1, PeriodTimes, PeriodMonotone
  <2> HIDE DEF n
  <2>3. n = lost[b]
    BY <1>4 DEF n
  <2> QED
    BY <1>1, <1>2, <1>4, <2>1, <2>3 DEF Stale, LeaseFits, Absent
<1> QED
  BY <1>1, <1>3, <1>4

\* Every step keeps the shape of the Heartbeat goroutines.
LEMMA ShapeStep == IInv /\ [Next]_vars => HeartbeatShape'
<1> SUFFICES ASSUME TypeOK, HeartbeatShape, [Next]_vars PROVE HeartbeatShape'
  BY DEF IInv
<1> USE DEF TypeOK, HeartbeatShape
<1>1. CASE UNCHANGED vars
  BY <1>1 DEF vars, procVars
<1>2. ASSUME NEW b \in Bridges,
             Bind(b) \/ BindInUse(b) \/ Stop(b) \/ CloseListener(b) \/ Exit(b) \/ Crash(b)
      PROVE  HeartbeatShape'
  BY <1>2 DEF Bind, BindInUse, Stop, CloseListener, Exit, Crash
<1>3. ASSUME NEW b \in Bridges, FirstRegister(b) \/ Beat(b) \/ Leave(b)
      PROVE  HeartbeatShape'
  BY <1>3 DEF FirstRegister, Beat, Leave, Post, Alive, Cancelled, procVars
<1>4. ASSUME NEW b \in Bridges, SeesCancel(b) \/ GiveUp(b) PROVE HeartbeatShape'
  BY <1>4 DEF SeesCancel, GiveUp, AfterCall, Alive, Cancelled, Posting, procVars
<1>5. ASSUME NEW r \in net, Lose(r) \/ Register(r) \/ Unregister(r) PROVE HeartbeatShape'
  <2>1. net' \subseteq net /\ proc' = proc /\ r.from \in Bridges
    BY <1>5 DEF Lose, Register, Unregister, procVars, Requests
  <2>2. \/ hb' = hb
        \/ /\ Alive(r.from) /\ hb[r.from] \in Posting
           /\ hb' = [hb EXCEPT ![r.from] = IF @ = "unregistering" THEN "done" ELSE "wait"]
    BY <1>5 DEF Lose, Register, Unregister, Answer, AfterCall, Posting
  <2> QED
    BY <2>1, <2>2 DEF Alive, Cancelled, Posting
<1>6. CASE gc \/ DirectoryRestart \/ Tick
  BY <1>6 DEF gc, DirectoryRestart, Tick, procVars
<1> QED
  BY <1>1, <1>2, <1>3, <1>4, <1>5, <1>6 DEF Next

\* A step that leaves a bridge, its goroutine and its entry alone keeps its lease.
LEMMA LeaseUntouched ==
    ASSUME NEW x \in Bridges, LeaseOf(x),
           proc'[x] = proc[x], hb'[x] = hb[x], timer'[x] = timer[x], lost'[x] = lost[x],
           age'[UrlOf[x]] = age[UrlOf[x]]
    PROVE  LeaseOf(x)'
BY DEF LeaseOf, LeaseAge, Listed

\* The bridge process comes and goes.
LEMMA ProcessLease ==
    ASSUME IInv, NEW b \in Bridges,
           Bind(b) \/ BindInUse(b) \/ Stop(b) \/ CloseListener(b) \/ Exit(b) \/ Crash(b)
    PROVE  Lease'
<1> SUFFICES ASSUME NEW x \in Bridges, known'[x] PROVE LeaseOf(x)'
  BY DEF Lease
<1>1. known[x] /\ x # b
  BY DEF IInv, TypeOK, Lease, LeaseOf, Bind, BindInUse, Stop, CloseListener, Exit, Crash, Forget
<1>2. LeaseOf(x)
  BY <1>1 DEF IInv, Lease
<1>3. /\ proc'[x] = proc[x] /\ hb'[x] = hb[x] /\ timer'[x] = timer[x] /\ lost'[x] = lost[x]
      /\ age' = age
  BY <1>1 DEF IInv, TypeOK, Bind, BindInUse, Stop, CloseListener, Exit, Crash, Forget
<1> QED
  BY <1>2, <1>3, LeaseUntouched

\* A heartbeat leaves: a period has passed since the one before.
LEMMA HeartbeatLease ==
    ASSUME IInv, NEW b \in Bridges, FirstRegister(b) \/ Beat(b) \/ SeesCancel(b) \/ Leave(b)
    PROVE  Lease'
<1> SUFFICES ASSUME NEW x \in Bridges, known'[x] PROVE LeaseOf(x)'
  BY DEF Lease
<1>1. /\ UNCHANGED <<proc, age, lost, known>>
      /\ x # b => hb'[x] = hb[x] /\ timer'[x] = timer[x]
  BY DEF FirstRegister, Beat, SeesCancel, Leave, Post, procVars, IInv, TypeOK
<1>2. known[x] /\ LeaseOf(x)
  BY <1>1 DEF IInv, Lease
<1>3. CASE x # b
  BY <1>1, <1>2, <1>3, LeaseUntouched
<1>4. CASE x = b
  <2>1. Beat(x)
    BY <1>2, <1>4 DEF LeaseOf, FirstRegister, SeesCancel, Leave, Cancelled
  <2>2. hb[x] = "wait" /\ timer[x] = Period /\ hb'[x] = "beating" /\ timer'[x] = 0
    BY <2>1 DEF Beat, Post, IInv, TypeOK
  <2>3. lost[x] \in Nat /\ Period \in Nat /\ age[UrlOf[x]] \in Int
    BY DiscoveryAssumption DEF IInv, TypeOK, Absent
  <2>4. Period * (lost[x] + 1) = Period * lost[x] + Period /\ Period * lost[x] \in Nat
    BY <2>3, PeriodTimes
  <2>5. age[UrlOf[x]] <= Period + Period * lost[x]
    BY <1>2, <2>2 DEF LeaseOf, LeaseAge
  <2>6. LeaseAge(x)' = 0 + Period * (lost[x] + 1)
    BY <1>1, <2>2 DEF LeaseAge
  <2>7. age[UrlOf[x]] <= LeaseAge(x)'
    BY <2>3, <2>4, <2>5, <2>6
  <2> QED
    BY <1>1, <1>2, <2>2, <2>7 DEF LeaseOf, Listed
<1> QED
  BY <1>3, <1>4

\* A heartbeat is given up on: one more is lost, and its time is accounted for.
LEMMA GiveUpLease ==
    ASSUME IInv, NEW b \in Bridges, GiveUp(b)
    PROVE  Lease'
<1> SUFFICES ASSUME NEW x \in Bridges, known'[x] PROVE LeaseOf(x)'
  BY DEF Lease
<1>1. /\ UNCHANGED <<proc, age>> /\ known[x]
      /\ x # b => hb'[x] = hb[x] /\ timer'[x] = timer[x] /\ lost'[x] = lost[x]
  BY DEF GiveUp, AfterCall, procVars, IInv, TypeOK
<1>2. LeaseOf(x)
  BY <1>1 DEF IInv, Lease
<1>3. CASE x # b
  BY <1>1, <1>2, <1>3, LeaseUntouched
<1>4. CASE x = b
  <2>1. hb[x] = "beating"
    BY <1>2, <1>4 DEF LeaseOf, GiveUp, Posting
  <2>2. lost[x] \in Nat /\ lost[x] < MaxLost /\ MaxLost \in Nat
    <3>1. known \in [Bridges -> BOOLEAN] /\ lost[b] \in Nat /\ MaxLost \in Nat
      BY DiscoveryAssumption DEF IInv, TypeOK
    <3>2. known' = [known EXCEPT ![b] = @ /\ lost[b] < MaxLost]
      BY DEF GiveUp
    <3>3. known'[b] = (known[b] /\ lost[b] < MaxLost)
      BY <3>1, <3>2, Zenon
    <3> QED
      BY <1>4, <3>1, <3>3
  <2>3. hb'[x] = "wait" /\ timer'[x] = timer[x] /\ lost'[x] = lost[x] + 1
    BY <1>4, <2>1, <2>2 DEF GiveUp, AfterCall, IInv, TypeOK
  <2>4. LeaseAge(x)' = LeaseAge(x)
    BY <2>1, <2>3 DEF LeaseAge
  <2> QED
    BY <1>1, <1>2, <2>2, <2>3, <2>4 DEF LeaseOf, Listed
<1> QED
  BY <1>3, <1>4

\* A registration, on time or late, renews the entry of its URL.
LEMMA RegisterLease ==
    ASSUME IInv, NEW r \in net, Register(r)
    PROVE  Lease'
<1> SUFFICES ASSUME NEW x \in Bridges, known'[x] PROVE LeaseOf(x)'
  BY DEF Lease
<1>1. r.from \in Bridges /\ r.op = "register" /\ proc' = proc
  BY DEF IInv, TypeOK, Requests, Register, procVars
<1>2. age'[UrlOf[r.from]] = 0 /\ UrlOf[r.from] \in Urls
  BY <1>1, DiscoveryAssumption DEF Register, IInv, TypeOK
<1>3. timer'[x] \in Nat /\ lost'[x] \in Nat /\ Period \in Nat /\ MaxLost \in Nat
  BY TypeStep, DiscoveryAssumption DEF IInv, TypeOK, Next
<1>4. CASE x = r.from
  <2>1. proc[x] = "running" /\ lost'[x] = 0
    BY <1>1, <1>4 DEF Register, IInv, TypeOK
  <2>2. hb[x] \in {"wait", "registering", "beating"}
    BY <1>4, <2>1 DEF IInv, HeartbeatShape
  <2>3. hb'[x] = "wait"
    BY <1>1, <1>4, <2>1, <2>2 DEF Register, Answer, AfterCall, Alive, IInv, TypeOK
  <2>4. LeaseAge(x)' = timer'[x] + Period * 0 /\ Period * 0 = 0
    BY <1>3, <2>1, <2>3, PeriodTimes DEF LeaseAge
  <2> QED
    BY <1>1, <1>2, <1>3, <1>4, <2>1, <2>3, <2>4 DEF LeaseOf, Listed, Absent
<1>5. CASE x # r.from
  <2>1. /\ hb'[x] = hb[x] /\ timer'[x] = timer[x] /\ lost'[x] = lost[x] /\ known[x]
        /\ age' = [age EXCEPT ![UrlOf[r.from]] = 0]
    BY <1>1, <1>5 DEF Register, Answer, AfterCall, IInv, TypeOK
  <2>2. LeaseOf(x)
    BY <2>1 DEF IInv, Lease
  <2>3. CASE UrlOf[x] # UrlOf[r.from]
    <3>1. age'[UrlOf[x]] = age[UrlOf[x]]
      BY <2>1, <2>3, DiscoveryAssumption DEF IInv, TypeOK
    <3> QED
      BY <1>1, <2>1, <2>2, <3>1, LeaseUntouched
  <2>4. CASE UrlOf[x] = UrlOf[r.from]
    <3>1. Period * lost[x] \in Nat /\ Period * (lost[x] + 1) \in Nat
      BY <1>3, <2>1, PeriodTimes
    <3>2. 0 <= LeaseAge(x)'
      BY <1>3, <2>1, <3>1 DEF LeaseAge
    <3> QED
      BY <1>1, <1>2, <2>1, <2>2, <2>4, <3>2 DEF LeaseOf, Listed, Absent
  <2> QED
    BY <2>3, <2>4
<1> QED
  BY <1>4, <1>5

\* An unregister ends the lease of every bridge at its URL and of no other.
LEMMA UnregisterLease ==
    ASSUME IInv, NEW r \in net, Unregister(r)
    PROVE  Lease'
<1> SUFFICES ASSUME NEW x \in Bridges, known'[x] PROVE LeaseOf(x)'
  BY DEF Lease
<1>1. r.from \in Bridges /\ proc' = proc /\ lost' = lost
  BY DEF IInv, TypeOK, Requests, Unregister, procVars
<1>2. known[x] /\ UrlOf[x] # UrlOf[r.from]
  BY DEF Unregister, IInv, TypeOK
<1>3. hb'[x] = hb[x] /\ timer'[x] = timer[x]
  BY <1>1, <1>2 DEF Unregister, Answer, AfterCall, IInv, TypeOK
<1>4. age'[UrlOf[x]] = age[UrlOf[x]]
  BY <1>1, <1>2, DiscoveryAssumption DEF Unregister, IInv, TypeOK
<1> QED
  BY <1>1, <1>2, <1>3, <1>4, LeaseUntouched DEF IInv, Lease

\* The gc passes by entries that are not stale; a restarted directory knows
\* nobody; a lost request changes nothing.
LEMMA DirectoryLease ==
    ASSUME LeaseFits, IInv, gc \/ DirectoryRestart \/ \E r \in net : Lose(r)
    PROVE  Lease'
<1> SUFFICES ASSUME NEW x \in Bridges, known'[x] PROVE LeaseOf(x)'
  BY DEF Lease
<1>1. ~DirectoryRestart
  BY DEF DirectoryRestart
<1>2. known[x] /\ UNCHANGED <<proc, hb, timer, lost>>
  BY <1>1 DEF gc, Lose, procVars
<1>3. ~Stale(UrlOf[x])
  BY <1>2, LeaseNotStale
<1>4. age'[UrlOf[x]] = age[UrlOf[x]]
  BY <1>1, <1>3, DiscoveryAssumption DEF gc, Lose, IInv, TypeOK
<1> QED
  BY <1>2, <1>4, LeaseUntouched DEF IInv, Lease

\* Time passes for the timer and the entry alike.
LEMMA TickLease ==
    ASSUME IInv, Tick
    PROVE  Lease'
<1> SUFFICES ASSUME NEW x \in Bridges, known'[x] PROVE LeaseOf(x)'
  BY DEF Lease
<1>1. known[x] /\ UNCHANGED <<proc, hb, lost>>
  BY DEF Tick, procVars
<1>2. LeaseOf(x)
  BY <1>1 DEF IInv, Lease
<1>3. Alive(x) /\ ~Cancelled(x)
  BY <1>2 DEF LeaseOf, Alive, Cancelled
<1>4. /\ timer[x] \in 0..Period /\ Period \in Nat \ {0} /\ UrlOf[x] \in Urls
      /\ age[UrlOf[x]] \in -1..TTL + 1 /\ lost[x] \in Nat
  BY DiscoveryAssumption DEF IInv, TypeOK, Absent
<1>5. timer[x] < Period /\ (hb[x] = "beating" => timer[x] < 1)
  BY <1>2, <1>3, <1>4 DEF Tick, LeaseOf, Posting
<1>6. timer'[x] = timer[x] + 1
  BY <1>3, <1>5 DEF Tick
<1>7. age'[UrlOf[x]] \in {age[UrlOf[x]], age[UrlOf[x]] + 1}
  BY <1>4 DEF Tick
<1>8. age[UrlOf[x]] # -1
  BY <1>2 DEF LeaseOf, Listed, Absent
<1>9. Period * lost[x] \in Nat /\ Period * (lost[x] + 1) \in Nat
  BY <1>4, PeriodTimes
<1>10. LeaseAge(x)' = LeaseAge(x) + 1 /\ LeaseAge(x) \in Nat
  BY <1>1, <1>4, <1>6, <1>9 DEF LeaseAge
<1>11. age'[UrlOf[x]] <= LeaseAge(x)' /\ age'[UrlOf[x]] # -1
  BY <1>2, <1>4, <1>7, <1>8, <1>10 DEF LeaseOf
<1> QED
  BY <1>1, <1>2, <1>4, <1>5, <1>6, <1>11 DEF LeaseOf, Listed, Absent

\* Every step keeps the lease of every running bridge.
LEMMA NextIInv == LeaseFits /\ IInv /\ [Next]_vars => IInv'
<1> SUFFICES ASSUME LeaseFits, IInv, [Next]_vars PROVE IInv'
  OBVIOUS
<1>1. TypeOK' /\ HeartbeatShape'
  BY TypeStep, ShapeStep DEF IInv
<1>2. CASE UNCHANGED vars
  <2>1. Lease'
    BY <1>2 DEF vars, procVars, IInv, Lease, LeaseOf, LeaseAge, Listed
  <2> QED
    BY <1>1, <2>1 DEF IInv
<1>3. CASE Next
  <2>1. Lease'
    BY <1>3, ProcessLease, HeartbeatLease, GiveUpLease, RegisterLease, UnregisterLease,
       DirectoryLease, TickLease DEF Next
  <2> QED
    BY <1>1, <2>1 DEF IInv
<1> QED
  BY <1>2, <1>3

\* The age of a running bridge's entry is bounded in every reachable state.
THEOREM LeaseInvariant ==
    ASSUME LeaseFits
    PROVE  Spec => []IInv
<1>1. IInv /\ [Next]_vars => IInv'
  BY NextIInv
<1> QED
  BY <1>1, InitIInv, PTL DEF Spec

\* With a ttl of more than MaxLost + 1 heartbeat periods and a call, a running
\* bridge that registered stays listed through MaxLost lost heartbeats in a row,
\* for any number of bridges and URLs (the code: 90 s, 30 s and 5 s, MaxLost 1).
THEOREM LeaseHolds ==
    ASSUME LeaseFits
    PROVE  Spec => []StaysListed
<1>1. IInv => StaysListed
  BY DEF IInv, Lease, LeaseOf, StaysListed
<1> QED
  BY <1>1, LeaseInvariant, PTL

====
