---- MODULE OutgoingRepliesProofs ----
(***************************************************************************)
(* Proofs about OutgoingReplies. The invariant IInv says who may still     *)
(* answer a question: its record is in the map, or exactly one goroutine   *)
(* has claimed it, or it is closed for good; and it counts the notices     *)
(* against the records removed for them. One lemma per group of actions    *)
(* shows that a step keeps it; AtMostOneNotice is a part of it.            *)
(***************************************************************************)
EXTENDS OutgoingReplies, TLAPS

\* Nothing is tracked, claimed or notified at the start.
LEMMA InitIInv == Init => IInv
BY OutgoingAssumption
   DEF Init, IInv, TypeOK, RecordsOwned, GoroutineShape, NoticesCounted,
       OnlyQuestion, AtMostOneNotice, Goroutines

\* The peer, the host and the clock touch none of what IInv is about.
LEMMA EnvironmentIInv ==
    ASSUME IInv,
           \/ \E t \in Tasks : ReplyTaken(t)
           \/ \E t \in Tasks, how \in {"answered", "blank"} : PeerFinishes(t, how)
           \/ Tick
    PROVE  IInv'
BY DEF IInv, TypeOK, RecordsOwned, GoroutineShape, NoticesCounted,
       OnlyQuestion, AtMostOneNotice, Goroutines,
       ReplyTaken, PeerFinishes, Tick

\* Sending a message and following its stream leave the records alone.
LEMMA SendIInv ==
    ASSUME IInv, NEW s \in Sends,
           SendMessage(s) \/ SendUntracked(s) \/ \E ok \in BOOLEAN : StreamEnds(s, ok)
    PROVE  IInv'
BY OutgoingAssumption
   DEF IInv, TypeOK, RecordsOwned, GoroutineShape, NoticesCounted,
       OnlyQuestion, AtMostOneNotice, Goroutines,
       SendMessage, SendUntracked, StreamEnds

\* A new record closes the one it replaces, which nobody had claimed.
LEMMA TrackIInv ==
    ASSUME IInv, NEW s \in Sends, NEW ended \in BOOLEAN, TrackOutgoing(s, ended)
    PROVE  IInv'
<1> USE OutgoingAssumption DEF Goroutines
<1>1. /\ pc[s] = "sending" /\ fate[s] = "untracked" /\ spent[s] = 0 /\ named[s] = 0
      /\ \A g \in Goroutines : claim[g] # s
  BY DEF IInv, TypeOK, RecordsOwned, GoroutineShape, NoticesCounted, TrackOutgoing
<1>2. TypeOK'
  BY DEF IInv, TypeOK, TrackOutgoing
<1>3. RecordsOwned'
  <2> DEFINE p == pending[taskOf[s]]
  <2>1. p # NoSend => p \in Sends /\ taskOf[p] = taskOf[s] /\ \A g \in Goroutines : claim[g] # p
    BY DEF IInv, TypeOK, RecordsOwned
  <2>2. /\ pending' = [pending EXCEPT ![taskOf[s]] = s]
        /\ \A r \in Sends : fate'[r] = IF r = s THEN "live"
                                       ELSE IF r = p THEN "superseded" ELSE fate[r]
        /\ claim' = claim /\ taskOf' = taskOf /\ taskOf \in [Sends -> Tasks]
    BY DEF TrackOutgoing, IInv, TypeOK
  <2>3. \A g \in Goroutines : claim[g] \in Sends \cup {NoSend}
    BY DEF IInv, TypeOK
  <2>4. \A g \in Goroutines : claim[g] # NoSend => fate'[claim[g]] = "live"
    <3> TAKE g \in Goroutines
    <3> HAVE claim[g] # NoSend
    <3>1. claim[g] \in Sends /\ claim[g] # s /\ claim[g] # p /\ fate[claim[g]] = "live"
      BY <1>1, <2>1, <2>3 DEF IInv, RecordsOwned
    <3> QED
      BY <2>2, <3>1
  <2>5. ASSUME NEW r \in Sends, pending'[taskOf[r]] = r
        PROVE  fate'[r] = "live" /\ \A g \in Goroutines : claim[g] # r
    <3>1. CASE r = s
      BY <1>1, <2>2, <3>1
    <3>2. CASE r # s
      <4>1. taskOf[r] # taskOf[s] /\ pending[taskOf[r]] = r
        BY <2>2, <2>5, <3>2 DEF IInv, TypeOK
      <4>2. r # p
        BY <2>1, <4>1
      <4> QED
        BY <2>2, <3>2, <4>1, <4>2 DEF IInv, RecordsOwned
    <3> QED
      BY <3>1, <3>2
  <2>6. \A t \in Tasks : pending'[t] # NoSend => taskOf[pending'[t]] = t
    BY <2>2 DEF IInv, TypeOK, RecordsOwned
  <2> QED
    BY <2>2, <2>4, <2>5, <2>6 DEF IInv, RecordsOwned
<1>4. \A r \in Sends : /\ fate'[r] = "untracked" => fate[r] = "untracked"
                       /\ fate'[r] \in {"untracked", "live"} /\ r # s => fate'[r] = fate[r]
                       /\ fate[r] # "untracked" => fate'[r] # "untracked"
  BY DEF IInv, TypeOK, TrackOutgoing
<1>5. GoroutineShape'
  <2>1. \A r \in Sends : r = pending[taskOf[s]] => fate[r] = "live"
    BY DEF IInv, TypeOK, RecordsOwned
  <2> QED
    BY <1>1, <1>4, <2>1 DEF IInv, TypeOK, GoroutineShape, TrackOutgoing
<1>6. NoticesCounted'
  <2>1. spent' = spent /\ named' = named /\ taskOf' = taskOf
    BY DEF TrackOutgoing
  <2>2. ASSUME NEW r \in Sends, OnlyQuestion(r)' PROVE named'[r] = spent'[r]
    <3>1. \A q \in Sends \ {r} : taskOf[q] = taskOf[r] => fate'[q] = "untracked"
      BY <2>1, <2>2 DEF OnlyQuestion
    <3>2. OnlyQuestion(r)
      BY <1>4, <3>1 DEF OnlyQuestion
    <3> QED
      BY <2>1, <3>2 DEF IInv, NoticesCounted
  <2> QED
    BY <1>1, <1>4, <2>1, <2>2 DEF IInv, NoticesCounted
<1>7. AtMostOneNotice'
  <2>1. spent' = spent /\ named' = named
    BY DEF TrackOutgoing
  <2> QED
    BY <1>6, <2>1 DEF IInv, AtMostOneNotice, NoticesCounted
<1> QED
  BY <1>2, <1>3, <1>5, <1>6, <1>7 DEF IInv

\* Whoever takes the record out of the map is the only one to hold it; the
\* poll loop takes one of the task it fetched.
LEMMA ClaimIInv ==
    ASSUME IInv, NEW g \in Goroutines, NEW s \in Sends,
           NEW otherwise \in {"done", "loop"},
           pc[g] \in {"resolved", "fetched"},
           g \in Sends => otherwise = "done",
           g = Poll => s = polled /\ pc[g] = "fetched",
           Claim(g, taskOf[s], otherwise),
           UNCHANGED <<taskOf, peer, sentAt, todo, polled, inbox, clock, restarts, spent, named, fate>>
    PROVE  IInv'
<1> USE OutgoingAssumption DEF Goroutines
<1>1. TypeOK' /\ RecordsOwned'
  BY DEF IInv, TypeOK, RecordsOwned, Claim
<1>2. GoroutineShape'
  BY DEF IInv, TypeOK, RecordsOwned, GoroutineShape, Claim
<1>3. NoticesCounted' /\ AtMostOneNotice'
  BY DEF IInv, NoticesCounted, AtMostOneNotice, OnlyQuestion
<1> QED
  BY <1>1, <1>2, <1>3 DEF IInv

\* The holder pays with a record that never paid, and closes it. A question
\* alone in its task is the one quoted exactly when its own record pays.
LEMMA AppendIInv ==
    ASSUME IInv, NEW g \in Goroutines, NEW p, NEW next \in {"done", "loop"},
           \/ g \in Sends /\ p = claim[g]
           \/ g = Poll /\ p = polled,
           appendSyntheticReply(g, p, next)
    PROVE  IInv'
<1> DEFINE s == claim[g]
<1> USE OutgoingAssumption DEF Goroutines
<1>1. s \in Sends /\ fate[s] = "live" /\ spent[s] = 0
  BY DEF IInv, TypeOK, RecordsOwned, GoroutineShape, NoticesCounted, appendSyntheticReply
<1>2. p \in Sends /\ fate[p] # "untracked" /\ taskOf[p] = taskOf[s]
  BY <1>1 DEF IInv, GoroutineShape, appendSyntheticReply
<1>3. /\ claim' = [claim EXCEPT ![g] = NoSend]
      /\ fate' = [fate EXCEPT ![s] = IF p = s THEN "answered" ELSE "displaced"]
      /\ pc' = [pc EXCEPT ![g] = next]
      /\ \/ spent' = spent /\ named' = named
         \/ spent' = [spent EXCEPT ![s] = 1] /\ named' = [named EXCEPT ![p] = @ + 1]
      /\ inbox' \in {inbox, inbox \cup {taskOf[s]}}
      /\ UNCHANGED <<taskOf, peer, pending, sentAt, todo, polled, clock, restarts>>
  BY <1>1, <1>2 DEF appendSyntheticReply, IInv, TypeOK
<1> HIDE DEF s
<1>4. TypeOK'
  BY <1>1, <1>2, <1>3 DEF IInv, TypeOK
<1>5. RecordsOwned'
  <2>1. pending[taskOf[s]] # s /\ \A h \in Goroutines \ {g} : claim[h] # s
    BY <1>1 DEF s, IInv, RecordsOwned
  <2> QED
    BY <1>1, <1>3, <2>1 DEF IInv, TypeOK, RecordsOwned
<1>6. /\ fate'[s] \in {"answered", "displaced"}
      /\ \A r \in Sends : r # s => fate'[r] = fate[r]
  BY <1>1, <1>3 DEF IInv, TypeOK
<1>7. GoroutineShape'
  <2>1. pc[s] \notin {"idle", "sending"}
    BY <1>1 DEF IInv, GoroutineShape
  <2>2. todo \subseteq Sends
    BY DEF IInv, TypeOK
  <2> QED
    BY <1>1, <1>3, <1>6, <2>1, <2>2 DEF IInv, TypeOK, GoroutineShape, appendSyntheticReply
<1>8. NoticesCounted'
  <2>1. ASSUME NEW r \in Sends, fate'[r] \in {"untracked", "live"} PROVE spent'[r] = 0
    BY <1>3, <1>6, <2>1 DEF IInv, NoticesCounted, TypeOK
  <2>2. ASSUME NEW r \in Sends, fate'[r] = "untracked" PROVE named'[r] = 0
    BY <1>2, <1>3, <1>6, <2>2 DEF IInv, NoticesCounted, TypeOK
  <2>3. ASSUME NEW r \in Sends, OnlyQuestion(r)' PROVE named'[r] = spent'[r]
    <3>1. OnlyQuestion(r)
      BY <1>1, <1>3, <1>6, <2>3 DEF OnlyQuestion
    <3>2. r = s <=> r = p
      BY <1>1, <1>2, <3>1 DEF OnlyQuestion
    <3>3. named[r] = spent[r] /\ spent[r] \in Nat
      BY <3>1 DEF IInv, NoticesCounted, TypeOK
    <3>4. spent \in [Sends -> Nat] /\ named \in [Sends -> Nat]
      BY DEF IInv, TypeOK
    <3> QED
      BY <1>1, <1>2, <1>3, <3>2, <3>3, <3>4
  <2> QED
    BY <2>1, <2>2, <2>3 DEF NoticesCounted
<1>9. AtMostOneNotice'
  <2>1. \A r \in Sends : spent'[r] <= 1
    BY <1>1, <1>3 DEF IInv, TypeOK, AtMostOneNotice
  <2> QED
    BY <1>8, <2>1 DEF AtMostOneNotice, NoticesCounted
<1> QED
  BY <1>4, <1>5, <1>7, <1>8, <1>9 DEF IInv

\* The poll loop closes what it expires and only reads what it fetches.
LEMMA PollIInv ==
    ASSUME IInv,
           \/ PollBegin \/ PollEnds
           \/ \E s \in Sends : PollExpires(s)
           \/ \E s \in Sends, ok \in BOOLEAN : PollFetches(s, ok)
    PROVE  IInv'
<1>1. CASE PollBegin \/ PollEnds
  BY <1>1, OutgoingAssumption
     DEF IInv, TypeOK, RecordsOwned, GoroutineShape, NoticesCounted,
       OnlyQuestion, AtMostOneNotice, Goroutines,
         PollBegin, PollEnds
<1>2. CASE \E s \in Sends : PollExpires(s)
  BY <1>2, OutgoingAssumption
     DEF IInv, TypeOK, RecordsOwned, GoroutineShape, NoticesCounted,
       OnlyQuestion, AtMostOneNotice, Goroutines,
         PollExpires
<1>3. CASE \E s \in Sends, ok \in BOOLEAN : PollFetches(s, ok)
  BY <1>3, OutgoingAssumption
     DEF IInv, TypeOK, RecordsOwned, GoroutineShape, NoticesCounted,
       OnlyQuestion, AtMostOneNotice, Goroutines,
         PollFetches
<1> QED
  BY <1>1, <1>2, <1>3

\* A restart closes every open record.
LEMMA RestartIInv ==
    ASSUME IInv, Restart
    PROVE  IInv'
BY OutgoingAssumption
   DEF IInv, TypeOK, RecordsOwned, GoroutineShape, NoticesCounted,
       OnlyQuestion, AtMostOneNotice, Goroutines, Restart

\* Every step of any goroutine, peer, host or restart keeps the ownership of records.
LEMMA NextIInv == IInv /\ [Next]_vars => IInv'
<1> SUFFICES ASSUME IInv, [Next]_vars PROVE IInv'
  OBVIOUS
<1>1. CASE UNCHANGED vars
  BY <1>1 DEF vars, IInv, TypeOK, RecordsOwned, GoroutineShape, NoticesCounted,
       OnlyQuestion, AtMostOneNotice, Goroutines
<1>2. ASSUME NEW s \in Sends, IngestOutgoingTerminal(s) PROVE IInv'
  BY <1>2, ClaimIInv, OutgoingAssumption DEF IngestOutgoingTerminal, Goroutines
<1>3. ASSUME PollRechecks PROVE IInv'
  <2>1. polled \in Sends
    BY <1>3 DEF PollRechecks, IInv, TypeOK, GoroutineShape
  <2> QED
    BY <1>3, <2>1, ClaimIInv, OutgoingAssumption DEF PollRechecks, Goroutines
<1>4. ASSUME NEW s \in Sends, SendStep(s) PROVE IInv'
  BY <1>2, <1>4, SendIInv, TrackIInv, AppendIInv DEF SendStep, Goroutines
<1>5. ASSUME PollStep PROVE IInv'
  BY <1>3, <1>5, PollIInv, AppendIInv DEF PollStep, Goroutines
<1> QED
  BY <1>1, <1>4, <1>5, EnvironmentIInv, RestartIInv DEF Next

\* The ownership of the records, in every reachable state.
THEOREM RecordsInvariant == Spec => []IInv
BY InitIInv, NextIInv, PTL DEF Spec

\* No call pays for two notices and no question without a follow-up is told as
\* answered twice, for any number of tasks and sends, any age limit and any
\* restarts.
THEOREM NeverNotifiedTwice == Spec => []AtMostOneNotice
<1>1. IInv => AtMostOneNotice
  BY DEF IInv
<1> QED
  BY <1>1, RecordsInvariant, PTL

====
