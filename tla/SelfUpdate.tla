---- MODULE SelfUpdate ----
(***************************************************************************)
(* a2abridge update (internal/cli/update.go): find the release, compare    *)
(* versions, download and verify the archive, and swap the binary by two   *)
(* renames with a backup in between. Several updates may run at once, each *)
(* may be killed between two file operations, and file operations fail.    *)
(*                                                                         *)
(* A file is absent (None) or has contents: the tag of the release it was  *)
(* built from, whether all of it was written, and whether its bytes are    *)
(* the released ones. The clock counts the seconds of the backup's name.   *)
(***************************************************************************)
EXTENDS Naturals, Sequences

CONSTANTS Updaters,   \* processes that run the command
          Tags,       \* release tags, see Tag
          Installed,  \* the tag of the binary that is there at first
          None,       \* an absent file, or no --version flag
          MaxClock    \* bound on the clock

\* A tag as the code reads it: the dotted numbers, empty if there are none or
\* if a part is not a number or nothing follows a dash; the rank of the
\* prerelease text in lexical order, 0 for a release; build metadata after a plus sign.
Tag == [core : Seq(Nat), pre : Nat, meta : BOOLEAN]

ASSUME UpdateAssumption ==
    /\ Tags \subseteq Tag
    /\ Installed \in Tag
    /\ MaxClock \in Nat
    /\ None \notin Tag /\ None \notin 0..MaxClock
    /\ None \notin [tag : Tag, whole : BOOLEAN, sound : BOOLEAN]

-----------------------------------------------------------------------------
(* Versions *)

\* One to three numbers; missing ones are 0, metadata is dropped.
parseVersion(t) ==
    [ok   |-> Len(t.core) \in 1..3,
     nums |-> [i \in 1..3 |-> IF i <= Len(t.core) THEN t.core[i] ELSE 0],
     pre  |-> t.pre]

\* The order of two parsed versions: the numbers decide from the left, a
\* prerelease comes before its release, prereleases are in lexical order.
Older(a, b) ==
    \/ \E i \in 1..3 : a.nums[i] < b.nums[i] /\ \A j \in 1..i-1 : a.nums[j] = b.nums[j]
    \/ a.nums = b.nums /\ a.pre # b.pre /\ (b.pre = 0 \/ (a.pre # 0 /\ a.pre < b.pre))

\* -1, 0, 1 become names; without a numeric core there is no order.
compareVersions(s, t) ==
    LET a == parseVersion(s)
        b == parseVersion(t)
    IN  IF ~a.ok \/ ~b.ok THEN "unordered"
        ELSE IF Older(a, b) THEN "older" ELSE IF Older(b, a) THEN "newer" ELSE "same"

-----------------------------------------------------------------------------
(* State *)

VARIABLES
    exe,        \* the file at the path of the binary
    tmp,        \* the file at <exe>.new
    bak,        \* bak[s]: the file at <exe>.bak.<s>
    clock,
    pc,         \* pc[u]: where an update is
    target,     \* target[u]: the tag to install, None for an idle u
    fresh,      \* fresh[u]: the extracted binary, None until it is there
    stamp,      \* stamp[u]: the time in the name of u's backup, None before
    \* observation
    prev,       \* the binary the last completed update replaced, or None
    clobbered   \* a backup was overwritten by another of the same second

files == <<exe, tmp, bak>>
local == <<target, fresh, stamp>>
vars == <<files, clock, pc, local, prev, clobbered>>

Contents == [tag : Tag, whole : BOOLEAN, sound : BOOLEAN]
File == Contents \cup {None}
Good(f) == f \in Contents /\ f.whole /\ f.sound

\* Places between the two renames: the binary is not at its path.
Swapping == {"write", "writing", "activate"}

TypeOK ==
    /\ exe \in File /\ tmp \in File /\ prev \in File
    /\ bak \in [0..MaxClock -> File]
    /\ clock \in 0..MaxClock
    /\ pc \in [Updaters -> {"idle", "fetch", "backup"} \cup Swapping]
    /\ target \in [Updaters -> Tag \cup {None}]
    /\ fresh \in [Updaters -> File]
    /\ stamp \in [Updaters -> (0..MaxClock) \cup {None}]
    /\ clobbered \in BOOLEAN

Init ==
    /\ exe = [tag |-> Installed, whole |-> TRUE, sound |-> TRUE]
    /\ tmp = None /\ prev = None
    /\ bak = [s \in 0..MaxClock |-> None]
    /\ clock = 0
    /\ pc = [u \in Updaters |-> "idle"]
    /\ target = [u \in Updaters |-> None]
    /\ fresh = [u \in Updaters |-> None]
    /\ stamp = [u \in Updaters |-> None]
    /\ clobbered = FALSE

Goto(u, place) == pc' = [pc EXCEPT ![u] = place]

\* The command returns or its process ends: what it had in memory is gone.
Leave(u) ==
    /\ Goto(u, "idle")
    /\ target' = [target EXCEPT ![u] = None]
    /\ fresh' = [fresh EXCEPT ![u] = None]
    /\ stamp' = [stamp EXCEPT ![u] = None]

-----------------------------------------------------------------------------
(* RunUpdate up to the download *)

\* Whether own, the version that runs, is to be replaced by tag: not by itself
\* or by an older one; without an order it counts as older than every release.
Wanted(own, tag) == compareVersions(own, tag) \in {"older", "unordered"}

\* The --version flag, or what resolveLatestTag reports (None: the request
\* failed or named none).
TargetTag(want, latest) == IF want # None THEN want ELSE latest

\* The user starts the installed binary.
\* Every other outcome, --check among them, ends the command with no change.
RunUpdate(u, want, latest, check) ==
    LET tag == TargetTag(want, latest)
    IN  /\ pc[u] = "idle"
        /\ Good(exe)
        /\ tag # None
        /\ Wanted(exe.tag, tag)
        /\ ~check
        /\ target' = [target EXCEPT ![u] = tag]
        /\ Goto(u, "fetch")
        /\ UNCHANGED <<files, clock, fresh, stamp, prev, clobbered>>

\* A failed download, verification, extraction or first rename: the command
\* ends with an error, no file touched.
GiveUp(u) ==
    /\ pc[u] \in {"fetch", "backup"}
    /\ Leave(u)
    /\ UNCHANGED <<files, clock, prev, clobbered>>

\* verifyChecksum: checksums.txt lists a digest for the asset (None: no file,
\* or no line for it) and it is the archive's.
verifyChecksum(archive, listed) == listed # None /\ archive.bytes = listed

\* An archive: the bytes that arrived, and whether the executable is in it
\* (extractTarGzMember, extractZipMember) and within the size limits.
Archives == [bytes : {"released", "other"}, member : BOOLEAN]

\* Download, verification and extraction. What arrives is what the release
\* holds, or something else; the digest listed is that of the released archive.
Fetch(u, archive, listed) ==
    /\ pc[u] = "fetch"
    /\ verifyChecksum(archive, listed)
    /\ archive.member
    /\ fresh' = [fresh EXCEPT ![u] = [tag |-> target[u], whole |-> TRUE,
                                      sound |-> archive.bytes = "released"]]
    /\ Goto(u, "backup")
    /\ UNCHANGED <<files, clock, target, stamp, prev, clobbered>>

-----------------------------------------------------------------------------
(* The swap in downloadAndReplace *)

MutantFixedName(u) == 0

\* The time in the name of the backup.
Stamp(u) == clock

MutantCopyBackup(u) ==
    /\ pc[u] = "backup"
    /\ exe # None
    /\ bak' = [bak EXCEPT ![Stamp(u)] = exe]
    /\ stamp' = [stamp EXCEPT ![u] = Stamp(u)]
    /\ clobbered' = (clobbered \/ bak[clock] # None)
    /\ Goto(u, "write")
    /\ UNCHANGED <<exe, tmp, clock, target, fresh, prev>>

\* Rename(dst, bak): fails (GiveUp) when the binary is not there.
Backup(u) ==
    /\ pc[u] = "backup"
    /\ exe # None
    /\ bak' = [bak EXCEPT ![Stamp(u)] = exe]
    /\ exe' = None
    /\ stamp' = [stamp EXCEPT ![u] = Stamp(u)]
    /\ clobbered' = (clobbered \/ bak[clock] # None)
    /\ Goto(u, "write")
    /\ UNCHANGED <<tmp, clock, target, fresh, prev>>

\* WriteFile creates or truncates the file and then fills it.
BeginWrite(u) ==
    /\ pc[u] = "write"
    /\ tmp' = [fresh[u] EXCEPT !.whole = FALSE]
    /\ Goto(u, "writing")
    /\ UNCHANGED <<exe, bak, clock, local, prev, clobbered>>

EndWrite(u) ==
    /\ pc[u] = "writing"
    /\ tmp' = fresh[u]
    /\ Goto(u, "activate")
    /\ UNCHANGED <<exe, bak, clock, local, prev, clobbered>>

\* Rename(bak, dst), its error ignored: it takes place or it does not.
Restore(u) ==
    \/ /\ exe' = bak[stamp[u]]
       /\ bak' = [bak EXCEPT ![stamp[u]] = None]
    \/ UNCHANGED <<exe, bak>>

\* A failed write leaves what it wrote and restores the backup.
WriteFails(u) ==
    /\ pc[u] \in {"write", "writing"}
    /\ Restore(u)
    /\ Leave(u)
    /\ UNCHANGED <<tmp, clock, prev, clobbered>>

\* Rename(tmp, dst)
Activate(u) ==
    /\ pc[u] = "activate"
    /\ exe' = tmp
    /\ tmp' = None
    /\ prev' = bak[stamp[u]]
    /\ Leave(u)
    /\ UNCHANGED <<bak, clock, clobbered>>

\* A failed rename removes the new file and restores the backup.
ActivateFails(u) ==
    /\ pc[u] = "activate"
    /\ tmp' = None
    /\ Restore(u)
    /\ Leave(u)
    /\ UNCHANGED <<clock, prev, clobbered>>

-----------------------------------------------------------------------------
(* The surroundings *)

\* The process is killed, its files stay as they are.
Crash(u) ==
    /\ pc[u] # "idle"
    /\ Leave(u)
    /\ UNCHANGED <<files, clock, prev, clobbered>>

\* "A manual rollback is one rename away": the user renames a backup when the
\* binary is gone and no update is at work on it.
ManualRollback(s) ==
    /\ exe = None
    /\ \A u \in Updaters : pc[u] \notin Swapping
    /\ bak[s] # None
    /\ exe' = bak[s]
    /\ bak' = [bak EXCEPT ![s] = None]
    /\ prev' = None
    /\ UNCHANGED <<tmp, clock, pc, local, clobbered>>

Tick ==
    /\ clock < MaxClock
    /\ clock' = clock + 1
    /\ UNCHANGED <<files, pc, local, prev, clobbered>>

Next ==
    \/ \E u \in Updaters :
          \/ \E want, latest \in Tags \cup {None}, check \in BOOLEAN :
                RunUpdate(u, want, latest, check)
          \/ GiveUp(u)
          \/ \E archive \in Archives, listed \in {"released", None} : Fetch(u, archive, listed)
          \/ Backup(u) \/ BeginWrite(u) \/ EndWrite(u) \/ WriteFails(u)
          \/ Activate(u) \/ ActivateFails(u)
          \/ Crash(u)
    \/ \E s \in 0..MaxClock : ManualRollback(s)
    \/ Tick

Spec == Init /\ [][Next]_vars

-----------------------------------------------------------------------------
(* Correctness *)

\* Moving the binary away is the lock of the swap: while an update is between
\* its two renames no other one is, so nobody else writes <exe>.new.
OneSwapper ==
    \A u, v \in Updaters : pc[u] \in Swapping /\ pc[v] \in Swapping => u = v

\* "So the user is not left without any binary at all": what is installed is a
\* complete binary with the released bytes, and while nothing is, such a binary
\* lies in a backup, wherever updates failed, were killed or met each other.
BinaryAtHand ==
    IF exe = None THEN \E s \in 0..MaxClock : Good(bak[s]) ELSE Good(exe)

\* "The previous binary is kept as <exe>.bak.<ts>": what the last update
\* replaced is in a backup, failed later updates included, unless another
\* update of the same second used the same name.
PreviousKept ==
    prev # None /\ exe # None => clobbered \/ \E s \in 0..MaxClock : bak[s] = prev

\* What an update has in hand at each place.
SwapShape ==
    /\ \A u \in Updaters :
          /\ pc[u] = "fetch" => target[u] # None
          /\ pc[u] \in {"backup"} \cup Swapping => Good(fresh[u])
          /\ pc[u] \in Swapping => exe = None /\ stamp[u] # None /\ Good(bak[stamp[u]])
          /\ pc[u] = "activate" => tmp = fresh[u]
    /\ \A s \in 0..MaxClock : bak[s] # None => Good(bak[s])

IInv == TypeOK /\ SwapShape /\ OneSwapper /\ BinaryAtHand

\* Why PreviousKept holds: the backup of what the last update replaced has a
\* name that no update at work on the swap may restore from.
PreviousAside ==
    prev # None =>
      \/ clobbered
      \/ \E s \in 0..MaxClock :
            bak[s] = prev /\ \A u \in Updaters : pc[u] \in Swapping => stamp[u] # s

====
