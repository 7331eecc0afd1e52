---- MODULE SelfUpdateProofs ----
(***************************************************************************)
(* Theorems about module SelfUpdate, for every set of updates, of tags and *)
(* every bound on the clock: whatever fails, is killed or runs at the same *)
(* time, a complete and verified binary is installed or one rename away.   *)
(***************************************************************************)
EXTENDS SelfUpdate, TLAPS

-----------------------------------------------------------------------------
(* Versions *)

\* A version parseVersion accepts.
Versions == [ok : BOOLEAN, nums : [1..3 -> Nat], pre : Nat]

\* What parseVersion returns has three numbers and a rank.
LEMMA ParsedIsVersion ==
    ASSUME NEW t \in Tag
    PROVE  parseVersion(t) \in Versions
<1>1. t.core \in Seq(Nat) /\ t.pre \in Nat
  BY DEF Tag
<1>2. \A i \in 1..3 : i <= Len(t.core) => t.core[i] \in Nat
  BY <1>1
<1>3. [i \in 1..3 |-> IF i <= Len(t.core) THEN t.core[i] ELSE 0] \in [1..3 -> Nat]
  BY <1>2
<1> QED
  BY <1>1, <1>3 DEF parseVersion, Versions

\* The order of compareVersions says "older" of at most one of two versions.
LEMMA OlderAsymmetric ==
    ASSUME NEW a \in Versions, NEW b \in Versions, Older(a, b)
    PROVE  ~Older(b, a)
<1>1. a.nums \in [1..3 -> Nat] /\ b.nums \in [1..3 -> Nat] /\ a.pre \in Nat /\ b.pre \in Nat
  BY DEF Versions
<1>2. CASE \E i \in 1..3 : a.nums[i] < b.nums[i] /\ \A j \in 1..i-1 : a.nums[j] = b.nums[j]
  <2>1. PICK i \in 1..3 : a.nums[i] < b.nums[i] /\ \A j \in 1..i-1 : a.nums[j] = b.nums[j]
    BY <1>2
  <2>2. SUFFICES ASSUME NEW k \in 1..3, b.nums[k] < a.nums[k],
                        \A j \in 1..k-1 : b.nums[j] = a.nums[j]
                 PROVE  FALSE
    BY <1>1, <2>1 DEF Older
  <2>3. CASE k < i
    BY <1>1, <2>1, <2>2, <2>3
  <2>4. CASE i < k
    BY <1>1, <2>1, <2>2, <2>4
  <2>5. CASE i = k
    BY <1>1, <2>1, <2>2, <2>5
  <2> QED
    BY <2>3, <2>4, <2>5
<1>3. CASE a.nums = b.nums /\ a.pre # b.pre /\ (b.pre = 0 \/ (a.pre # 0 /\ a.pre < b.pre))
  BY <1>1, <1>3 DEF Older
<1> QED
  BY <1>2, <1>3 DEF Older

\* Any two versions are ordered or have the same numbers and prerelease: "already
\* up to date" is said of no other pair.
LEMMA OlderTotal ==
    ASSUME NEW a \in Versions, NEW b \in Versions, ~Older(a, b), ~Older(b, a)
    PROVE  a.nums = b.nums /\ a.pre = b.pre
<1>1. a.nums \in [1..3 -> Nat] /\ b.nums \in [1..3 -> Nat] /\ a.pre \in Nat /\ b.pre \in Nat
  BY DEF Versions
<1>2. a.nums[1] = b.nums[1]
  BY <1>1 DEF Older
<1>3. a.nums[2] = b.nums[2]
  BY <1>1, <1>2 DEF Older
<1>4. a.nums[3] = b.nums[3]
  BY <1>1, <1>2, <1>3 DEF Older
<1>5. a.nums = b.nums
  BY <1>1, <1>2, <1>3, <1>4
<1> QED
  BY <1>1, <1>5 DEF Older

\* RunUpdate never replaces a version by an older one, and never by itself: what
\* the update is wanted for is newer, or one of the two has no order.
THEOREM NoDowngrade ==
    ASSUME NEW own \in Tag, NEW tag \in Tag,
           Wanted(own, tag), parseVersion(own).ok, parseVersion(tag).ok
    PROVE  /\ Older(parseVersion(own), parseVersion(tag))
           /\ ~Older(parseVersion(tag), parseVersion(own))
<1>1. parseVersion(own) \in Versions /\ parseVersion(tag) \in Versions
  BY ParsedIsVersion
<1>2. Older(parseVersion(own), parseVersion(tag))
  <2> DEFINE a == parseVersion(own)
             b == parseVersion(tag)
  <2> HIDE DEF a, b
  <2>1. a.ok /\ b.ok
    BY DEF a, b
  <2>2. compareVersions(own, tag) =
           IF ~a.ok \/ ~b.ok THEN "unordered"
           ELSE IF Older(a, b) THEN "older" ELSE IF Older(b, a) THEN "newer" ELSE "same"
    BY DEF compareVersions, a, b
  <2>3. Older(a, b)
    BY <2>1, <2>2 DEF Wanted
  <2> QED
    BY <2>3 DEF a, b
<1>3. ~Older(parseVersion(tag), parseVersion(own))
  BY <1>1, <1>2, OlderAsymmetric
<1> QED
  BY <1>2, <1>3

-----------------------------------------------------------------------------
(* The swap *)

\* A process that leaves forgets what it had; the others are as before.
LEMMA LeaveShape ==
    ASSUME IInv, NEW u \in Updaters, Leave(u)
    PROVE  /\ pc' \in [Updaters -> {"idle", "fetch", "backup"} \cup Swapping]
           /\ target' \in [Updaters -> Tag \cup {None}]
           /\ fresh' \in [Updaters -> File]
           /\ stamp' \in [Updaters -> (0..MaxClock) \cup {None}]
           /\ pc'[u] = "idle"
           /\ \A v \in Updaters \ {u} :
                 pc'[v] = pc[v] /\ target'[v] = target[v] /\ fresh'[v] = fresh[v] /\ stamp'[v] = stamp[v]
  BY DEF IInv, TypeOK, Leave, Goto, File

\* A file that is good is there.
LEMMA GoodIsThere ==
    /\ \A f : Good(f) => f \in Contents /\ f # None
    /\ \A f \in File : f # None => f \in Contents
  BY UpdateAssumption DEF Good, Contents, File

\* While u is at work on the swap nobody else is.
LEMMA Alone ==
    ASSUME IInv, NEW u \in Updaters, pc[u] \in Swapping, NEW v \in Updaters \ {u}
    PROVE  pc[v] \notin Swapping
  BY DEF IInv, OneSwapper

\* While a binary is installed nobody is at work on the swap.
LEMMA NobodySwaps ==
    ASSUME IInv, exe # None, NEW v \in Updaters
    PROVE  pc[v] \notin Swapping
  BY DEF IInv, SwapShape

LEMMA InitIInv ==
    ASSUME Init
    PROVE  IInv
<1>1. exe \in Contents /\ Good(exe) /\ exe # None
  <2>1. exe = [tag |-> Installed, whole |-> TRUE, sound |-> TRUE] /\ Installed \in Tag
    BY UpdateAssumption DEF Init
  <2>2. exe \in Contents /\ exe.whole /\ exe.sound
    BY <2>1 DEF Contents
  <2> QED
    BY <2>2, GoodIsThere DEF Good
<1>2. TypeOK
  <2>1. exe \in File /\ tmp \in File /\ prev \in File /\ None \in File
    BY <1>1 DEF Init, File
  <2>2. bak \in [0..MaxClock -> File]
    BY <2>1 DEF Init
  <2>3. clock \in 0..MaxClock
    BY UpdateAssumption DEF Init
  <2> QED
    BY <2>1, <2>2, <2>3 DEF Init, TypeOK
<1>3. SwapShape
  BY DEF Init, SwapShape, Swapping
<1>4. OneSwapper
  BY DEF Init, OneSwapper, Swapping
<1>5. BinaryAtHand
  BY <1>1 DEF BinaryAtHand
<1> QED
  BY <1>2, <1>3, <1>4, <1>5 DEF IInv

LEMMA RunUpdateIInv ==
    ASSUME IInv, NEW u \in Updaters, NEW want \in Tags \cup {None}, NEW latest \in Tags \cup {None},
           NEW check \in BOOLEAN, RunUpdate(u, want, latest, check)
    PROVE  IInv'
<1>1. TargetTag(want, latest) \in Tag /\ TargetTag(want, latest) # None
  BY UpdateAssumption DEF RunUpdate, TargetTag
<1>2. /\ pc[u] = "idle" /\ pc' = [pc EXCEPT ![u] = "fetch"]
      /\ target' = [target EXCEPT ![u] = TargetTag(want, latest)]
      /\ UNCHANGED <<exe, tmp, bak, clock, fresh, stamp, prev, clobbered>>
  BY DEF RunUpdate, Goto, files
<1>3. TypeOK'
  BY <1>1, <1>2 DEF IInv, TypeOK
<1>4. SwapShape'
  BY <1>1, <1>2 DEF IInv, TypeOK, SwapShape, Swapping
<1>5. OneSwapper'
  BY <1>2 DEF IInv, TypeOK, OneSwapper, Swapping
<1>6. BinaryAtHand'
  BY <1>2 DEF IInv, BinaryAtHand
<1> QED
  BY <1>3, <1>4, <1>5, <1>6 DEF IInv

\* Giving up and being killed leave the files alone.
LEMMA LeaveIInv ==
    ASSUME IInv, NEW u \in Updaters, Leave(u), UNCHANGED <<files, clock, prev, clobbered>>
    PROVE  IInv'
<1>1. UNCHANGED <<exe, tmp, bak, clock, prev, clobbered>>
  BY DEF files
<1>2. TypeOK'
  BY <1>1, LeaveShape DEF IInv, TypeOK
<1>3. SwapShape'
  BY <1>1, LeaveShape DEF IInv, SwapShape, Swapping
<1>4. OneSwapper'
  BY LeaveShape DEF IInv, OneSwapper, Swapping
<1>5. BinaryAtHand'
  BY <1>1 DEF IInv, BinaryAtHand
<1> QED
  BY <1>2, <1>3, <1>4, <1>5 DEF IInv

\* What passes the checksum is the released archive.
LEMMA FetchIInv ==
    ASSUME IInv, NEW u \in Updaters, NEW archive \in Archives, NEW listed \in {"released", None},
           Fetch(u, archive, listed)
    PROVE  IInv'
<1> DEFINE new == [tag |-> target[u], whole |-> TRUE, sound |-> archive.bytes = "released"]
<1>1. archive.bytes = "released"
  BY DEF Fetch, verifyChecksum
<1>2. target[u] \in Tag
  BY DEF Fetch, IInv, SwapShape, TypeOK
<1>3. new \in Contents /\ Good(new)
  BY <1>1, <1>2 DEF Contents, Good
<1> HIDE DEF new
<1>4. /\ pc[u] = "fetch" /\ pc' = [pc EXCEPT ![u] = "backup"]
      /\ fresh' = [fresh EXCEPT ![u] = new]
      /\ UNCHANGED <<exe, tmp, bak, clock, target, stamp, prev, clobbered>>
  BY DEF Fetch, Goto, files, new
<1>5. TypeOK'
  BY <1>3, <1>4 DEF IInv, TypeOK, File
<1>6. SwapShape'
  BY <1>3, <1>4 DEF IInv, TypeOK, SwapShape, Swapping
<1>7. OneSwapper'
  BY <1>4 DEF IInv, TypeOK, OneSwapper, Swapping
<1>8. BinaryAtHand'
  BY <1>4 DEF IInv, BinaryAtHand
<1> QED
  BY <1>5, <1>6, <1>7, <1>8 DEF IInv

\* The first rename takes the binary, so no other update has it.
LEMMA BackupIInv ==
    ASSUME IInv, NEW u \in Updaters, Backup(u)
    PROVE  IInv'
<1>1. exe # None /\ Good(exe) /\ clock \in 0..MaxClock
  BY DEF Backup, IInv, BinaryAtHand, TypeOK
<1>2. /\ pc[u] = "backup" /\ pc' = [pc EXCEPT ![u] = "write"]
      /\ bak' = [bak EXCEPT ![clock] = exe]
      /\ exe' = None
      /\ stamp' = [stamp EXCEPT ![u] = clock]
      /\ clobbered' = (clobbered \/ bak[clock] # None)
      /\ UNCHANGED <<tmp, clock, target, fresh, prev>>
  BY DEF Backup, Goto, Stamp
<1>3. \A v \in Updaters : pc[v] \notin Swapping
  BY <1>1, NobodySwaps
<1>4. bak'[clock] = exe /\ \A s \in 0..MaxClock : bak'[s] = IF s = clock THEN exe ELSE bak[s]
  BY <1>1, <1>2 DEF IInv, TypeOK
<1>5. TypeOK'
  BY <1>1, <1>2 DEF IInv, TypeOK, File, Swapping
<1>6. SwapShape'
  <2>1. \A s \in 0..MaxClock : bak'[s] # None => Good(bak'[s])
    BY <1>1, <1>4 DEF IInv, SwapShape
  <2>2. ASSUME NEW v \in Updaters, v # u
        PROVE  pc'[v] = pc[v] /\ stamp'[v] = stamp[v] /\ pc'[v] \notin Swapping
    BY <1>2, <1>3, <2>2 DEF IInv, TypeOK
  <2>3. pc'[u] = "write" /\ stamp'[u] = clock /\ clock # None
    BY <1>1, <1>2, UpdateAssumption DEF IInv, TypeOK
  <2> QED
    BY <1>1, <1>2, <1>4, <2>1, <2>2, <2>3 DEF IInv, SwapShape, Swapping
<1>7. OneSwapper'
  BY <1>2, <1>3 DEF IInv, TypeOK, OneSwapper
<1>8. BinaryAtHand'
  BY <1>1, <1>2, <1>4 DEF BinaryAtHand
<1> QED
  BY <1>5, <1>6, <1>7, <1>8 DEF IInv

LEMMA BeginWriteIInv ==
    ASSUME IInv, NEW u \in Updaters, BeginWrite(u)
    PROVE  IInv'
<1> DEFINE half == [fresh[u] EXCEPT !.whole = FALSE]
<1>1. pc[u] = "write" /\ pc[u] \in Swapping /\ fresh[u] \in Contents
  BY DEF BeginWrite, Swapping, IInv, SwapShape, Good
<1>2. half \in Contents
  BY <1>1 DEF Contents
<1> HIDE DEF half
<1>3. /\ pc' = [pc EXCEPT ![u] = "writing"]
      /\ tmp' = half
      /\ UNCHANGED <<exe, bak, clock, target, fresh, stamp, prev, clobbered>>
  BY DEF BeginWrite, Goto, local, half
<1>4. \A v \in Updaters \ {u} : pc[v] \notin Swapping
  BY <1>1, Alone
<1>5. TypeOK'
  BY <1>2, <1>3 DEF IInv, TypeOK, File, Swapping
<1>6. SwapShape'
  BY <1>1, <1>3, <1>4 DEF IInv, TypeOK, SwapShape, Swapping
<1>7. OneSwapper'
  BY <1>3, <1>4 DEF IInv, TypeOK, OneSwapper
<1>8. BinaryAtHand'
  BY <1>3 DEF IInv, BinaryAtHand
<1> QED
  BY <1>5, <1>6, <1>7, <1>8 DEF IInv

LEMMA EndWriteIInv ==
    ASSUME IInv, NEW u \in Updaters, EndWrite(u)
    PROVE  IInv'
<1>1. pc[u] = "writing" /\ pc[u] \in Swapping
  BY DEF EndWrite, Swapping
<1>2. /\ pc' = [pc EXCEPT ![u] = "activate"]
      /\ tmp' = fresh[u]
      /\ UNCHANGED <<exe, bak, clock, target, fresh, stamp, prev, clobbered>>
  BY DEF EndWrite, Goto, local
<1>3. \A v \in Updaters \ {u} : pc[v] \notin Swapping
  BY <1>1, Alone
<1>4. TypeOK'
  BY <1>2 DEF IInv, TypeOK, Swapping
<1>5. SwapShape'
  BY <1>1, <1>2, <1>3 DEF IInv, TypeOK, SwapShape, Swapping
<1>6. OneSwapper'
  BY <1>2, <1>3 DEF IInv, TypeOK, OneSwapper
<1>7. BinaryAtHand'
  BY <1>2 DEF IInv, BinaryAtHand
<1> QED
  BY <1>4, <1>5, <1>6, <1>7 DEF IInv

\* The restore puts a good backup back, or leaves it where it is.
LEMMA RestoreIInv ==
    ASSUME IInv, NEW u \in Updaters, pc[u] \in Swapping, Restore(u), Leave(u),
           tmp' \in {tmp, None}, UNCHANGED <<clock, prev, clobbered>>
    PROVE  IInv'
<1>1. stamp[u] \in 0..MaxClock /\ Good(bak[stamp[u]]) /\ exe = None
  BY DEF IInv, TypeOK, SwapShape
<1>2. \A v \in Updaters : pc'[v] \notin Swapping
  BY Alone, LeaveShape DEF Swapping
<1>3. \/ /\ exe' = bak[stamp[u]]
         /\ bak' = [bak EXCEPT ![stamp[u]] = None]
      \/ UNCHANGED <<exe, bak>>
  BY DEF Restore
<1>4. TypeOK'
  BY <1>1, <1>3, LeaveShape DEF IInv, TypeOK, File
<1>5. \A s \in 0..MaxClock : bak'[s] # None => Good(bak'[s])
  BY <1>1, <1>3 DEF IInv, TypeOK, SwapShape
<1>6. SwapShape'
  BY <1>2, <1>5, LeaveShape DEF IInv, SwapShape, Swapping
<1>7. OneSwapper'
  BY <1>2 DEF OneSwapper
<1>8. BinaryAtHand'
  BY <1>1, <1>3, GoodIsThere DEF BinaryAtHand
<1> QED
  BY <1>4, <1>6, <1>7, <1>8 DEF IInv

\* The second rename installs what this update has written, nobody else's.
LEMMA ActivateIInv ==
    ASSUME IInv, NEW u \in Updaters, Activate(u)
    PROVE  IInv'
<1>1. /\ pc[u] = "activate" /\ pc[u] \in Swapping
      /\ Leave(u) /\ exe' = tmp /\ tmp' = None /\ prev' = bak[stamp[u]]
      /\ UNCHANGED <<bak, clock, clobbered>>
  BY DEF Activate, Swapping
<1>2. tmp = fresh[u] /\ Good(tmp) /\ tmp # None
  BY <1>1, GoodIsThere DEF IInv, SwapShape
<1>3. stamp[u] \in 0..MaxClock
  BY <1>1 DEF IInv, TypeOK, SwapShape
<1>4. \A v \in Updaters : pc'[v] \notin Swapping
  BY <1>1, Alone, LeaveShape DEF Swapping
<1>5. TypeOK'
  BY <1>1, <1>3, LeaveShape DEF IInv, TypeOK, File
<1>6. SwapShape'
  BY <1>1, <1>4, LeaveShape DEF IInv, SwapShape, Swapping
<1>7. OneSwapper'
  BY <1>4 DEF OneSwapper
<1>8. BinaryAtHand'
  BY <1>1, <1>2 DEF BinaryAtHand
<1> QED
  BY <1>5, <1>6, <1>7, <1>8 DEF IInv

LEMMA ManualRollbackIInv ==
    ASSUME IInv, NEW s \in 0..MaxClock, ManualRollback(s)
    PROVE  IInv'
<1>1. /\ bak[s] # None /\ exe' = bak[s] /\ bak' = [bak EXCEPT ![s] = None] /\ prev' = None
      /\ \A u \in Updaters : pc[u] \notin Swapping
      /\ UNCHANGED <<tmp, clock, pc, target, fresh, stamp, clobbered>>
  BY DEF ManualRollback, local
<1>2. Good(bak[s])
  BY <1>1 DEF IInv, SwapShape
<1>3. TypeOK'
  BY <1>1 DEF IInv, TypeOK, File
<1>4. \A r \in 0..MaxClock : bak'[r] # None => Good(bak'[r])
  BY <1>1 DEF IInv, TypeOK, SwapShape
<1>5. SwapShape'
  BY <1>1, <1>4 DEF IInv, SwapShape, Swapping
<1>6. OneSwapper'
  BY <1>1 DEF OneSwapper
<1>7. BinaryAtHand'
  BY <1>1, <1>2 DEF BinaryAtHand
<1> QED
  BY <1>3, <1>5, <1>6, <1>7 DEF IInv

\* Every step keeps the invariant, failures and kills included.
LEMMA NextIInv ==
    ASSUME IInv, [Next]_vars
    PROVE  IInv'
<1>1. CASE UNCHANGED vars
  BY <1>1 DEF vars, files, local, IInv, TypeOK, SwapShape, OneSwapper, BinaryAtHand
<1>2. ASSUME NEW u \in Updaters, NEW want \in Tags \cup {None}, NEW latest \in Tags \cup {None},
             NEW check \in BOOLEAN, RunUpdate(u, want, latest, check)
      PROVE  IInv'
  BY <1>2, RunUpdateIInv
<1>3. ASSUME NEW u \in Updaters, GiveUp(u) \/ Crash(u)
      PROVE  IInv'
  BY <1>3, LeaveIInv DEF GiveUp, Crash
<1>4. ASSUME NEW u \in Updaters, NEW archive \in Archives, NEW listed \in {"released", None},
             Fetch(u, archive, listed)
      PROVE  IInv'
  BY <1>4, FetchIInv
<1>5. ASSUME NEW u \in Updaters, Backup(u) \/ BeginWrite(u) \/ EndWrite(u) \/ Activate(u)
      PROVE  IInv'
  BY <1>5, BackupIInv, BeginWriteIInv, EndWriteIInv, ActivateIInv
<1>6. ASSUME NEW u \in Updaters, WriteFails(u)
      PROVE  IInv'
  BY <1>6, RestoreIInv DEF WriteFails, Swapping
<1>7. ASSUME NEW u \in Updaters, ActivateFails(u)
      PROVE  IInv'
  BY <1>7, RestoreIInv DEF ActivateFails, Swapping
<1>8. ASSUME NEW s \in 0..MaxClock, ManualRollback(s)
      PROVE  IInv'
  BY <1>8, ManualRollbackIInv
<1>9. CASE Tick
  BY <1>9, UpdateAssumption DEF Tick, files, local, IInv, TypeOK, SwapShape, OneSwapper, BinaryAtHand
<1> QED
  BY <1>1, <1>2, <1>3, <1>4, <1>5, <1>6, <1>7, <1>8, <1>9 DEF Next

\* The inductive invariant: who is where in the swap, what he has in hand, and
\* that every backup is a complete and verified binary.
THEOREM UpdateInvariant == Spec => []IInv
<1>1. Init => IInv
  BY InitIInv
<1>2. IInv /\ [Next]_vars => IInv'
  BY NextIInv
<1> QED
  BY <1>1, <1>2, PTL DEF Spec

\* downloadAndReplace never leaves the user without a complete, verified binary.
THEOREM AlwaysABinary == Spec => []BinaryAtHand
<1>1. IInv => BinaryAtHand
  BY DEF IInv
<1> QED
  BY <1>1, UpdateInvariant, PTL

\* The rename of the binary excludes a second update from the swap.
THEOREM SwapIsExclusive == Spec => []OneSwapper
<1>1. IInv => OneSwapper
  BY DEF IInv
<1> QED
  BY <1>1, UpdateInvariant, PTL

-----------------------------------------------------------------------------
(* The previous binary *)

\* A step that leaves backups and prev alone and lets nobody into the swap.
LEMMA AsideStays ==
    ASSUME PreviousAside, UNCHANGED <<bak, prev, clobbered>>,
           \A u \in Updaters : pc'[u] \in Swapping => pc[u] \in Swapping /\ stamp'[u] = stamp[u]
    PROVE  PreviousAside'
<1> SUFFICES ASSUME prev # None, ~clobbered
             PROVE  \E s \in 0..MaxClock :
                       bak[s] = prev /\ \A u \in Updaters : pc'[u] \in Swapping => stamp'[u] # s
  BY DEF PreviousAside
<1>1. PICK s \in 0..MaxClock :
         bak[s] = prev /\ \A u \in Updaters : pc[u] \in Swapping => stamp[u] # s
  BY DEF PreviousAside
<1> QED
  BY <1>1

\* A backup under a name of its own leaves the earlier one alone.
LEMMA BackupAside ==
    ASSUME IInv, PreviousAside, NEW u \in Updaters, Backup(u)
    PROVE  PreviousAside'
<1>1. exe # None /\ clock \in 0..MaxClock
  BY DEF Backup, IInv, TypeOK
<1>2. /\ pc' = [pc EXCEPT ![u] = "write"]
      /\ bak' = [bak EXCEPT ![clock] = exe]
      /\ stamp' = [stamp EXCEPT ![u] = clock]
      /\ clobbered' = (clobbered \/ bak[clock] # None)
      /\ UNCHANGED prev
  BY DEF Backup, Goto, Stamp
<1>3. \A v \in Updaters : pc[v] \notin Swapping
  BY <1>1, NobodySwaps
<1> SUFFICES ASSUME prev # None, ~clobbered, bak[clock] = None
             PROVE  PreviousAside'
  BY <1>2 DEF PreviousAside
<1>4. PICK s \in 0..MaxClock : bak[s] = prev
  BY DEF PreviousAside
<1>5. s # clock /\ bak'[s] = prev'
  BY <1>1, <1>2, <1>4 DEF IInv, TypeOK
<1>6. ASSUME NEW v \in Updaters, pc'[v] \in Swapping
      PROVE  stamp'[v] # s
  <2>1. v = u
    BY <1>2, <1>3, <1>6 DEF IInv, TypeOK
  <2> QED
    BY <1>2, <1>5, <2>1 DEF IInv, TypeOK
<1> QED
  BY <1>5, <1>6 DEF PreviousAside

\* A restore takes the backup of the update that fails, never the earlier one.
LEMMA RestoreAside ==
    ASSUME IInv, PreviousAside, NEW u \in Updaters, pc[u] \in Swapping, Restore(u), Leave(u),
           UNCHANGED <<prev, clobbered>>
    PROVE  PreviousAside'
<1>1. \A v \in Updaters : pc'[v] \notin Swapping
  BY Alone, LeaveShape DEF Swapping
<1> SUFFICES ASSUME prev # None, ~clobbered
             PROVE  PreviousAside'
  BY DEF PreviousAside
<1>2. PICK s \in 0..MaxClock : bak[s] = prev /\ stamp[u] # s
  BY DEF PreviousAside
<1>3. bak'[s] = prev
  BY <1>2 DEF Restore, IInv, TypeOK
<1> QED
  BY <1>1, <1>2, <1>3 DEF PreviousAside

\* A completed update leaves its own backup, and nobody at work on the swap.
LEMMA ActivateAside ==
    ASSUME IInv, NEW u \in Updaters, Activate(u)
    PROVE  PreviousAside'
<1>1. pc[u] \in Swapping /\ Leave(u) /\ prev' = bak[stamp[u]] /\ UNCHANGED bak
  BY DEF Activate, Swapping
<1>2. stamp[u] \in 0..MaxClock
  BY <1>1 DEF IInv, TypeOK, SwapShape
<1>3. \A v \in Updaters : pc'[v] \notin Swapping
  BY <1>1, Alone, LeaveShape DEF Swapping
<1> QED
  BY <1>1, <1>2, <1>3 DEF PreviousAside

LEMMA NextAside ==
    ASSUME IInv, PreviousAside, [Next]_vars
    PROVE  PreviousAside'
<1>1. CASE UNCHANGED vars
  BY <1>1, AsideStays DEF vars, files, local
<1>2. ASSUME NEW u \in Updaters, NEW want \in Tags \cup {None}, NEW latest \in Tags \cup {None},
             NEW check \in BOOLEAN, RunUpdate(u, want, latest, check)
      PROVE  PreviousAside'
  BY <1>2, AsideStays DEF RunUpdate, Goto, files, IInv, TypeOK, Swapping
<1>3. ASSUME NEW u \in Updaters, GiveUp(u) \/ Crash(u)
      PROVE  PreviousAside'
  BY <1>3, AsideStays, LeaveShape DEF GiveUp, Crash, files, Swapping
<1>4. ASSUME NEW u \in Updaters, NEW archive \in Archives, NEW listed \in {"released", None},
             Fetch(u, archive, listed)
      PROVE  PreviousAside'
  BY <1>4, AsideStays DEF Fetch, Goto, files, IInv, TypeOK, Swapping
<1>5. ASSUME NEW u \in Updaters, BeginWrite(u) \/ EndWrite(u)
      PROVE  PreviousAside'
  BY <1>5, AsideStays DEF BeginWrite, EndWrite, Goto, local, IInv, TypeOK, Swapping
<1>6. ASSUME NEW u \in Updaters, Backup(u) \/ Activate(u)
      PROVE  PreviousAside'
  BY <1>6, BackupAside, ActivateAside
<1>7. ASSUME NEW u \in Updaters, WriteFails(u) \/ ActivateFails(u)
      PROVE  PreviousAside'
  BY <1>7, RestoreAside DEF WriteFails, ActivateFails, Swapping
<1>8. ASSUME NEW s \in 0..MaxClock, ManualRollback(s)
      PROVE  PreviousAside'
  BY <1>8 DEF ManualRollback, PreviousAside
<1>9. CASE Tick
  BY <1>9, AsideStays DEF Tick, files, local
<1> QED
  BY <1>1, <1>2, <1>3, <1>4, <1>5, <1>6, <1>7, <1>8, <1>9 DEF Next

\* "The previous binary is kept as <exe>.bak.<ts>": later updates that fail or
\* are killed do not use it up, unless two backups fell into the same second.
THEOREM PreviousIsKept == Spec => []PreviousKept
<1>1. Init => PreviousAside
  BY DEF Init, PreviousAside
<1>2. IInv /\ PreviousAside /\ [Next]_vars => PreviousAside'
  BY NextAside
<1>3. PreviousAside => PreviousKept
  BY DEF PreviousAside, PreviousKept
<1> QED
  BY <1>1, <1>2, <1>3, UpdateInvariant, PTL DEF Spec
====
