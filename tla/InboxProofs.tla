---- MODULE InboxProofs ----
(***************************************************************************)
(* Proofs about Inbox, for any messages, soft cap, reply TTL and any       *)
(* number of deliveries, crashes and failed snapshot writes.               *)
(*                                                                         *)
(* The first part shows what the loops over the inbox compute: recursive   *)
(* functions, unfolded and reasoned about by least counterexample. The     *)
(* second shows that IInv is inductive, the third concludes.               *)
(***************************************************************************)
EXTENDS Inbox, SequenceTheorems, WellFoundedInduction, TLAPS

-----------------------------------------------------------------------------
(* Counting *)

NatLess == {p \in Nat \X Nat : p[1] < p[2]}

\* A nonempty set of naturals has a least element.
LEMMA LeastOf ==
    ASSUME NEW T, T \subseteq Nat, T # {}
    PROVE  \E x \in T : \A y \in T : x <= y
<1>1. IsWellFoundedOn(NatLess, Nat)
  BY NatLessThanWellFounded DEF OpToRel, NatLess
<1>2. PICK x \in T : \A y \in T : <<y, x>> \notin NatLess
  BY <1>1, WFMin
<1>3. ASSUME NEW y \in T PROVE x <= y
  <2>1. ~(y < x)
    BY <1>2 DEF NatLess
  <2> QED
    BY <2>1
<1> QED
  BY <1>3

\* What holds at 0 and is passed on by every step up to n holds up to n.
LEMMA CountUp ==
    ASSUME NEW n \in Nat, NEW P, 0 \in P,
           \A i \in 1..n : i - 1 \in P => i \in P
    PROVE  \A i \in 0..n : i \in P
<1> DEFINE Bad == {i \in 0..n : i \notin P}
<1> SUFFICES ASSUME Bad # {} PROVE FALSE
  OBVIOUS
<1>1. Bad \subseteq Nat
  OBVIOUS
<1>2. PICK x \in Bad : \A y \in Bad : x <= y
  BY <1>1, LeastOf
<1>3. x \in 1..n
  BY <1>2
<1>4. x - 1 \notin Bad /\ x - 1 \in 0..n
  BY <1>2, <1>3
<1> QED
  BY <1>2, <1>3, <1>4

\* The values F a loop over 1..n carries, from v on and with f as its body.
Carries(F, n, v, f) == F[0] = v /\ \A i \in 1..n : F[i] = f[<<i, F[i - 1]>>]

\* A loop over 1..n that carries a value of V: the recursive function it is.
LEMMA LoopExists ==
    ASSUME NEW n \in Nat, NEW V, NEW v \in V, NEW f \in [(1..n) \X V -> V]
    PROVE  \E F \in [0..n -> V] : Carries(F, n, v, f)
<1> DEFINE Is(F, m) == /\ F \in [0..m -> V]
                       /\ F[0] = v
                       /\ \A i \in 1..m : F[i] = f[<<i, F[i - 1]>>]
           P == {m \in 0..n : \E F : Is(F, m)}
<1>1. 0 \in P
  <2>1. Is([i \in 0..0 |-> v], 0)
    OBVIOUS
  <2> HIDE DEF Is
  <2> QED
    BY <2>1
<1>2. ASSUME NEW m \in 1..n, m - 1 \in P
      PROVE  m \in P
  <2>1. PICK F : Is(F, m - 1)
    BY <1>2
  <2> DEFINE G == [i \in 0..m |-> IF i = m THEN f[<<m, F[m - 1]>>] ELSE F[i]]
  <2>2. F[m - 1] \in V
    BY <2>1
  <2>3. f[<<m, F[m - 1]>>] \in V
    BY <2>2
  <2>4. G \in [0..m -> V]
    <3>1. ASSUME NEW i \in 0..m PROVE G[i] \in V
      BY <2>1, <2>3
    <3> QED
      BY <3>1
  <2>5. G[0] = v
    BY <2>1
  <2>6. ASSUME NEW i \in 1..m PROVE G[i] = f[<<i, G[i - 1]>>]
    <3>1. i - 1 \in 0..m /\ i - 1 # m
      OBVIOUS
    <3>2. G[i - 1] = F[i - 1]
      BY <3>1
    <3>3. CASE i = m
      <4>1. G[i] = f[<<m, F[m - 1]>>]
        BY <3>3
      <4> HIDE DEF G
      <4> QED
        BY <3>2, <3>3, <4>1
    <3>4. CASE i # m
      <4>1. i \in 1..(m - 1)
        BY <3>4
      <4>2. F[i] = f[<<i, F[i - 1]>>]
        BY <2>1, <4>1
      <4>3. G[i] = F[i]
        BY <3>4
      <4> HIDE DEF G
      <4> QED
        BY <3>2, <4>2, <4>3
    <3> QED
      BY <3>3, <3>4
  <2>7. Is(G, m)
    BY <2>4, <2>5, <2>6
  <2> HIDE DEF Is, G
  <2> QED
    BY <2>7
<1> HIDE DEF P
<1>3. n \in P
  <2>1. \A i \in 0..n : i \in P
    BY <1>1, <1>2, CountUp
  <2> QED
    BY <2>1
<1>4. PICK F : Is(F, n)
  BY <1>3 DEF P
<1> QED
  BY <1>4 DEF Carries

-----------------------------------------------------------------------------
(* Filter *)

\* kept after every pass of the loop of Filter.
FilterPasses(F, s, K) ==
    /\ F[0] = <<>>
    /\ \A i \in 1..Len(s) :
          F[i] = IF s[i] \in K THEN Append(F[i - 1], s[i]) ELSE F[i - 1]
    /\ Filter(s, K) = F[Len(s)]

\* Filter is such a loop.
LEMMA FilterLoop ==
    ASSUME NEW S, NEW s \in Seq(S), NEW K
    PROVE  \E F \in [0..Len(s) -> Seq(S)] : FilterPasses(F, s, K)
<1> DEFINE n == Len(s)
           V == Seq(S)
           Step(i, a) == IF s[i] \in K THEN Append(a, s[i]) ELSE a
           f == [p \in (1..n) \X V |-> Step(p[1], p[2])]
           Body(F, i) == IF i = 0 THEN <<>> ELSE Step(i, F[i - 1])
           IsLoop(F) == F = [i \in 0..n |-> Body(F, i)]
<1>1. n \in Nat /\ <<>> \in V
  OBVIOUS
<1>2. ASSUME NEW i \in 1..n, NEW a \in V PROVE Step(i, a) \in V
  <2>1. s[i] \in S
    OBVIOUS
  <2> QED
    BY <2>1
<1> HIDE DEF Step, n, V
<1>3. f \in [(1..n) \X V -> V]
  BY <1>2
<1>4. \A i \in 1..n, a \in V : f[<<i, a>>] = Step(i, a)
  OBVIOUS
<1> HIDE DEF f
<1>5. PICK G \in [0..n -> V] :
          G[0] = <<>> /\ \A i \in 1..n : G[i] = f[<<i, G[i - 1]>>]
  <2> DEFINE nil == <<>>
  <2>1. nil \in V /\ n \in Nat
    BY <1>1
  <2> HIDE DEF nil
  <2>2. \E G \in [0..n -> V] : Carries(G, n, nil, f)
    BY <1>3, <2>1, LoopExists
  <2> QED
    BY <2>2 DEF nil, Carries
<1>6. IsLoop(G)
  <2>1. ASSUME NEW i \in 0..n PROVE G[i] = Body(G, i)
    <3>1. CASE i = 0
      BY <1>5, <3>1
    <3>2. CASE i # 0
      <4>1. i \in 1..n /\ i - 1 \in 0..n
        BY <1>1, <3>2
      <4>2. G[i - 1] \in V
        BY <1>5, <4>1
      <4> QED
        BY <1>5, <3>2, <4>1, <4>2, <1>4
    <3> QED
      BY <3>1, <3>2
  <2> QED
    BY <2>1, <1>5
<1> DEFINE F == CHOOSE H : IsLoop(H)
<1>7. IsLoop(F)
  BY <1>6
<1>8. Filter(s, K) = F[n]
  BY DEF Filter, Step, n
<1> HIDE DEF F
<1>9. F[0] = <<>> /\ \A i \in 1..n : F[i] = Step(i, F[i - 1])
  <2>1. \A i \in 0..n : F[i] = Body(F, i)
    BY <1>7
  <2>2. 0 \in 0..n /\ \A i \in 1..n : i \in 0..n /\ i # 0
    BY <1>1
  <2> QED
    BY <2>1, <2>2
<1>10. F \in [0..n -> V]
  <2> DEFINE P == {i \in 0..n : F[i] \in V}
  <2>1. 0 \in P
    BY <1>1, <1>9
  <2>2. ASSUME NEW i \in 1..n, i - 1 \in P PROVE i \in P
    <3>1. i \in 0..n
      BY <1>1
    <3> QED
      BY <1>2, <1>9, <2>2, <3>1
  <2> HIDE DEF P
  <2>3. \A i \in 0..n : i \in P
    BY <1>1, <2>1, <2>2, CountUp
  <2>4. \A i \in 0..n : F[i] \in V
    BY <2>3 DEF P
  <2> QED
    BY <1>7, <2>4
<1> QED
  BY <1>8, <1>9, <1>10 DEF FilterPasses, Step, n, V

\* t holds the first i entries of s that lie in K, in their order.
Selects(t, s, i, K) ==
    /\ Len(t) <= i
    /\ \A k \in 1..Len(t) : t[k] \in K /\ \E a \in 1..i : t[k] = s[a]
    /\ \A a \in 1..i : s[a] \in K => \E k \in 1..Len(t) : t[k] = s[a]
    /\ \A k, l \in 1..Len(t) :
          k < l => \E a, b \in 1..i : a < b /\ t[k] = s[a] /\ t[l] = s[b]

\* One pass of the loop that keeps the entry.
LEMMA SelectsAppend ==
    ASSUME NEW S, NEW s \in Seq(S), NEW K, NEW i \in 1..Len(s), NEW t \in Seq(S),
           Selects(t, s, i - 1, K), s[i] \in K
    PROVE  Selects(Append(t, s[i]), s, i, K)
<1> DEFINE u == Append(t, s[i])
           m == Len(t)
<1>1. m \in Nat /\ i \in Nat \ {0} /\ s[i] \in S
  OBVIOUS
<1>2. /\ u \in Seq(S) /\ Len(u) = m + 1 /\ u[m + 1] = s[i]
      /\ \A k \in 1..m : u[k] = t[k]
  BY <1>1, AppendProperties
<1> HIDE DEF u, m
<1>3. /\ m <= i - 1
      /\ \A k \in 1..m : t[k] \in K /\ \E a \in 1..(i - 1) : t[k] = s[a]
      /\ \A a \in 1..(i - 1) : s[a] \in K => \E k \in 1..m : t[k] = s[a]
      /\ \A k, l \in 1..m :
            k < l => \E a, b \in 1..(i - 1) : a < b /\ t[k] = s[a] /\ t[l] = s[b]
  BY DEF Selects, m
<1>4. \A x : x \in 1..i <=> x \in 1..(i - 1) \/ x = i
  BY <1>1
<1>5. \A x : x \in 1..(m + 1) <=> x \in 1..m \/ x = m + 1
  BY <1>1
<1>6. ASSUME NEW k \in 1..(m + 1)
      PROVE  u[k] \in K /\ \E a \in 1..i : u[k] = s[a]
  <2>1. CASE k \in 1..m
    BY <1>2, <1>3, <1>4, <2>1
  <2>2. CASE k = m + 1
    BY <1>2, <1>4, <2>2
  <2> QED
    BY <1>5, <2>1, <2>2
<1>7. ASSUME NEW a \in 1..i, s[a] \in K
      PROVE  \E k \in 1..(m + 1) : u[k] = s[a]
  <2>1. CASE a \in 1..(i - 1)
    <3>1. PICK k \in 1..m : t[k] = s[a]
      BY <1>3, <1>7, <2>1
    <3> QED
      BY <1>2, <1>5, <3>1
  <2>2. CASE a = i
    BY <1>2, <1>5, <2>2
  <2> QED
    BY <1>4, <2>1, <2>2
<1>8. ASSUME NEW k \in 1..(m + 1), NEW l \in 1..(m + 1), k < l
      PROVE  \E a, b \in 1..i : a < b /\ u[k] = s[a] /\ u[l] = s[b]
  <2>1. k \in 1..m /\ u[k] = t[k]
    BY <1>1, <1>2, <1>8
  <2>2. CASE l \in 1..m
    <3>1. PICK a \in 1..(i - 1), b \in 1..(i - 1) : a < b /\ t[k] = s[a] /\ t[l] = s[b]
      BY <1>3, <1>8, <2>1, <2>2
    <3> QED
      BY <1>2, <1>4, <2>1, <2>2, <3>1
  <2>3. CASE l = m + 1
    <3>1. PICK a \in 1..(i - 1) : t[k] = s[a]
      BY <1>3, <2>1
    <3>2. a < i /\ a \in 1..i /\ i \in 1..i
      BY <1>1, <3>1
    <3> QED
      BY <1>2, <2>1, <2>3, <3>1, <3>2
  <2> QED
    BY <1>5, <2>2, <2>3
<1>9. m + 1 <= i
  BY <1>1, <1>3
<1>10. Selects(u, s, i, K)
  BY <1>2, <1>6, <1>7, <1>8, <1>9 DEF Selects
<1> QED
  BY <1>10 DEF u

\* One pass of the loop that skips the entry.
LEMMA SelectsSkip ==
    ASSUME NEW S, NEW s \in Seq(S), NEW K, NEW i \in 1..Len(s), NEW t \in Seq(S),
           Selects(t, s, i - 1, K), s[i] \notin K
    PROVE  Selects(t, s, i, K)
<1> DEFINE m == Len(t)
<1>1. i \in Nat \ {0} /\ m \in Nat
  OBVIOUS
<1>2. \A x : x \in 1..i <=> x \in 1..(i - 1) \/ x = i
  BY <1>1
<1>3. /\ m <= i - 1
      /\ \A k \in 1..m : t[k] \in K /\ \E a \in 1..(i - 1) : t[k] = s[a]
      /\ \A a \in 1..(i - 1) : s[a] \in K => \E k \in 1..m : t[k] = s[a]
      /\ \A k, l \in 1..m :
            k < l => \E a, b \in 1..(i - 1) : a < b /\ t[k] = s[a] /\ t[l] = s[b]
  BY DEF Selects
<1> HIDE DEF m
<1>4. m <= i
  BY <1>1, <1>3
<1>5. ASSUME NEW k \in 1..m
      PROVE  t[k] \in K /\ \E a \in 1..i : t[k] = s[a]
  BY <1>2, <1>3
<1>6. ASSUME NEW a \in 1..i, s[a] \in K
      PROVE  \E k \in 1..m : t[k] = s[a]
  BY <1>2, <1>3, <1>6
<1>7. ASSUME NEW k \in 1..m, NEW l \in 1..m, k < l
      PROVE  \E a, b \in 1..i : a < b /\ t[k] = s[a] /\ t[l] = s[b]
  <2>1. PICK a \in 1..(i - 1), b \in 1..(i - 1) : a < b /\ t[k] = s[a] /\ t[l] = s[b]
    BY <1>3, <1>7
  <2> QED
    BY <1>2, <2>1
<1> QED
  BY <1>4, <1>5, <1>6, <1>7 DEF Selects, m

\* The loops of PeekInbox, dropTaskEntries and evictExpiredReplies keep exactly
\* the entries they mean to keep, each as often as it was there and in its place.
LEMMA FilterSelects ==
    ASSUME NEW S, NEW s \in Seq(S), NEW K
    PROVE  Filter(s, K) \in Seq(S) /\ Selects(Filter(s, K), s, Len(s), K)
<1>0. PICK F \in [0..Len(s) -> Seq(S)] : FilterPasses(F, s, K)
  BY FilterLoop
<1>1. /\ F[0] = <<>>
      /\ \A i \in 1..Len(s) :
            F[i] = IF s[i] \in K THEN Append(F[i - 1], s[i]) ELSE F[i - 1]
      /\ Filter(s, K) = F[Len(s)]
  BY <1>0 DEF FilterPasses
<1> DEFINE n == Len(s)
           P == {i \in 0..n : Selects(F[i], s, i, K)}
<1>2. n \in Nat
  OBVIOUS
<1>3. 0 \in P
  <2>1. Len(F[0]) = 0 /\ 1..0 = {}
    BY <1>1
  <2>2. Selects(F[0], s, 0, K)
    BY <2>1 DEF Selects
  <2> QED
    BY <1>2, <2>2
<1>4. ASSUME NEW i \in 1..n, i - 1 \in P PROVE i \in P
  <2>1. i \in 0..n /\ i - 1 \in 0..n
    BY <1>2
  <2>2. F[i - 1] \in Seq(S) /\ Selects(F[i - 1], s, i - 1, K)
    BY <1>1, <1>4, <2>1
  <2>3. Selects(F[i], s, i, K)
    BY <1>1, <2>2, SelectsAppend, SelectsSkip
  <2> QED
    BY <2>1, <2>3
<1> HIDE DEF P
<1>5. \A i \in 0..n : i \in P
  BY <1>2, <1>3, <1>4, CountUp
<1>6. n \in P /\ n \in 0..n
  BY <1>2, <1>5
<1> QED
  BY <1>1, <1>6 DEF P

-----------------------------------------------------------------------------
(* appendInboxLocked and LoadInbox *)

\* Inboxes within the soft cap.
Bounded(S) == {s \in Seq(S) : Len(s) <= SoftCap}

\* No messageId is listed twice.
Unique(s) ==
    \A i, j \in DOMAIN s : s[i].id \notin Anonymous /\ SameMessageID(s[i], s[j]) => i = j

\* By how much a queue is past its cap.
LEMMA MaxOfZero ==
    ASSUME NEW z \in Int
    PROVE  Max({0, z}) = IF z > 0 THEN z ELSE 0
<1> DEFINE m == IF z > 0 THEN z ELSE 0
           Is(x) == x \in {0, z} /\ \A y \in {0, z} : x >= y
<1>1. Is(m) /\ \A x : Is(x) => x = m
  OBVIOUS
<1>2. Max({0, z}) = CHOOSE x : Is(x)
  BY DEF Max
<1> QED
  BY <1>1, <1>2

\* r is s with e behind it, without the oldest d entries.
Queued(r, s, e, d) ==
    /\ Len(r) = Len(s) + 1 - d
    /\ \A i \in 1..Len(r) : r[i] = Append(s, e)[i + d]

\* appendInboxLocked drops the oldest entry of a full inbox and none otherwise.
LEMMA AppendInbox ==
    ASSUME NEW S, NEW s \in Bounded(S), NEW e \in S
    PROVE  /\ appendInboxLocked(s, e) \in Bounded(S)
           /\ Queued(appendInboxLocked(s, e), s, e, IF Len(s) = SoftCap THEN 1 ELSE 0)
<1> DEFINE t == Append(s, e)
           d == IF Len(s) = SoftCap THEN 1 ELSE 0
           r == SubSeq(t, 1 + d, Len(t))
<1>1. SoftCap \in Nat /\ SoftCap # 0
  BY InboxAssumption
<1>2. s \in Seq(S) /\ Len(s) \in Nat /\ Len(s) <= SoftCap
  BY DEF Bounded
<1>3. t \in Seq(S) /\ Len(t) = Len(s) + 1
  BY <1>2, AppendProperties
<1>4. d = Max({0, Len(t) - SoftCap})
  BY <1>1, <1>2, <1>3, MaxOfZero
<1>5. r = appendInboxLocked(s, e)
  BY <1>4 DEF appendInboxLocked
<1>6. d \in {0, 1} /\ Len(s) + 1 - d \in Nat /\ Len(s) + 1 - d <= SoftCap
  BY <1>1, <1>2
<1> HIDE DEF t, d
<1>7. \A i \in (1 + d)..Len(t) : t[i] \in S
  <2>1. ASSUME NEW i \in (1 + d)..Len(t) PROVE i \in 1..Len(t)
    BY <1>2, <1>3, <1>6
  <2> QED
    BY <1>3, <2>1, ElementOfSeq
<1>8. /\ r \in Seq(S)
      /\ Len(r) = IF 1 + d <= Len(t) THEN Len(t) - (1 + d) + 1 ELSE 0
      /\ \A i \in 1..(Len(t) - (1 + d) + 1) : r[i] = t[(1 + d) + i - 1]
  <2>1. 1 + d \in Int /\ Len(t) \in Int
    BY <1>2, <1>3, <1>6
  <2> QED
    BY <1>7, <2>1, SubSeqProperties
<1> HIDE DEF r
<1>9. Len(r) = Len(s) + 1 - d
  BY <1>2, <1>3, <1>6, <1>8
<1>10. ASSUME NEW i \in 1..Len(r) PROVE r[i] = t[i + d]
  <2>1. i \in 1..(Len(t) - (1 + d) + 1) /\ (1 + d) + i - 1 = i + d
    BY <1>2, <1>3, <1>6, <1>9
  <2> QED
    BY <1>8, <2>1
<1>11. r \in Bounded(S)
  BY <1>6, <1>8, <1>9 DEF Bounded
<1>12. Queued(r, s, e, d)
  BY <1>9, <1>10 DEF Queued, t
<1> QED
  BY <1>5, <1>11, <1>12 DEF d

\* What queueing leaves in the inbox: e, and of the others no more than there was.
LEMMA AppendInboxSet ==
    ASSUME NEW S, NEW s \in Bounded(S), NEW e \in S
    PROVE  ToSet(appendInboxLocked(s, e)) \subseteq ToSet(s) \cup {e}
<1> DEFINE r == appendInboxLocked(s, e)
           d == IF Len(s) = SoftCap THEN 1 ELSE 0
<1>1. r \in Seq(S) /\ Queued(r, s, e, d)
  BY AppendInbox DEF Bounded
<1>2. s \in Seq(S) /\ Len(s) \in Nat /\ d \in {0, 1}
  BY DEF Bounded
<1> HIDE DEF r, d
<1>3. ASSUME NEW i \in 1..Len(r) PROVE r[i] \in ToSet(s) \cup {e}
  <2>1. r[i] = Append(s, e)[i + d] /\ i + d \in 1..(Len(s) + 1)
    BY <1>1, <1>2 DEF Queued
  <2>2. CASE i + d = Len(s) + 1
    BY <1>2, <2>1, <2>2, AppendProperties
  <2>3. CASE i + d # Len(s) + 1
    <3>1. i + d \in 1..Len(s)
      BY <1>2, <2>1, <2>3
    <3>2. r[i] = s[i + d]
      BY <1>2, <2>1, <3>1, AppendProperties
    <3> QED
      BY <1>2, <3>1, <3>2 DEF ToSet
  <2> QED
    BY <2>2, <2>3
<1>4. DOMAIN r = 1..Len(r)
  BY <1>1
<1> QED
  BY <1>3, <1>4 DEF ToSet, r

\* Queueing what is not queued lists no messageId twice.
LEMMA AppendInboxUnique ==
    ASSUME NEW S, NEW s \in Bounded(S), NEW e \in S,
           Unique(s), ~inboxContainsLocked(s, e)
    PROVE  Unique(appendInboxLocked(s, e))
<1> DEFINE r == appendInboxLocked(s, e)
           d == IF Len(s) = SoftCap THEN 1 ELSE 0
           t == Append(s, e)
           m == Len(s)
<1>1. r \in Seq(S) /\ Queued(r, s, e, d)
  BY AppendInbox DEF Bounded
<1>2. s \in Seq(S) /\ m \in Nat /\ d \in {0, 1} /\ DOMAIN s = 1..m
  BY DEF Bounded
<1>3. t[m + 1] = e /\ \A i \in 1..m : t[i] = s[i]
  BY <1>2, AppendProperties
<1>4. \A i \in 1..m : t[i].id \in Anonymous \/ ~SameMessageID(t[i], e)
  BY <1>2, <1>3 DEF inboxContainsLocked, SameMessageID
<1>5. \A i, j \in 1..m : t[i].id \notin Anonymous /\ SameMessageID(t[i], t[j]) => i = j
  BY <1>2, <1>3 DEF Unique
<1>6. /\ DOMAIN r = 1..Len(r) /\ Len(r) \in Nat
      /\ Len(r) = m + 1 - d /\ \A i \in 1..Len(r) : r[i] = t[i + d]
  BY <1>1 DEF Queued
<1> HIDE DEF r, d, t, m
<1>7. ASSUME NEW i \in 1..(m + 1), NEW j \in 1..(m + 1),
             t[i].id \notin Anonymous, SameMessageID(t[i], t[j])
      PROVE  i = j
  <2>1. \A x \in 1..(m + 1) : x \in 1..m \/ x = m + 1
    BY <1>2
  <2>2. t[j].id \notin Anonymous /\ SameMessageID(t[j], t[i])
    BY <1>7 DEF SameMessageID
  <2>3. CASE i \in 1..m /\ j \in 1..m
    BY <1>5, <1>7, <2>3
  <2>4. CASE i \in 1..m /\ j = m + 1
    BY <1>3, <1>4, <1>7, <2>4
  <2>5. CASE i = m + 1 /\ j \in 1..m
    BY <1>3, <1>4, <2>2, <2>5
  <2> QED
    BY <2>1, <2>3, <2>4, <2>5
<1>8. ASSUME NEW i \in 1..Len(r), NEW j \in 1..Len(r),
             r[i].id \notin Anonymous, SameMessageID(r[i], r[j])
      PROVE  i = j
  <2>1. i + d \in 1..(m + 1) /\ j + d \in 1..(m + 1)
    BY <1>2, <1>6
  <2>2. r[i] = t[i + d] /\ r[j] = t[j + d]
    BY <1>6
  <2>3. i + d = j + d
    BY <1>7, <1>8, <2>1, <2>2
  <2> QED
    BY <1>2, <2>3
<1>9. Unique(r)
  BY <1>6, <1>8 DEF Unique
<1> QED
  BY <1>9 DEF r

\* The inbox after every pass of the loop of LoadInbox.
LoadPasses(F, s) ==
    /\ F[0] = <<>>
    /\ \A i \in 1..Len(s) :
          F[i] = IF inboxContainsLocked(F[i - 1], s[i]) THEN F[i - 1]
                 ELSE appendInboxLocked(F[i - 1], s[i])
    /\ Restored(s) = F[Len(s)]

\* LoadInbox is such a loop.
LEMMA LoadLoop ==
    ASSUME NEW S, NEW s \in Seq(S)
    PROVE  \E F : LoadPasses(F, s)
<1> DEFINE n == Len(s)
           V == Bounded(S)
           Step(i, a) == IF inboxContainsLocked(a, s[i]) THEN a ELSE appendInboxLocked(a, s[i])
           f == [p \in (1..n) \X V |-> Step(p[1], p[2])]
           Body(F, i) == IF i = 0 THEN <<>> ELSE Step(i, F[i - 1])
           IsLoop(F) == F = [i \in 0..n |-> Body(F, i)]
<1>1. n \in Nat /\ <<>> \in V
  BY InboxAssumption DEF Bounded
<1>2. ASSUME NEW i \in 1..n, NEW a \in V PROVE Step(i, a) \in V
  <2>1. s[i] \in S
    OBVIOUS
  <2> QED
    BY <2>1, AppendInbox
<1> HIDE DEF Step, n, V
<1>3. f \in [(1..n) \X V -> V]
  BY <1>2
<1>4. \A i \in 1..n, a \in V : f[<<i, a>>] = Step(i, a)
  OBVIOUS
<1> HIDE DEF f
<1>5. PICK G \in [0..n -> V] :
          G[0] = <<>> /\ \A i \in 1..n : G[i] = f[<<i, G[i - 1]>>]
  <2> DEFINE nil == <<>>
  <2>1. nil \in V /\ n \in Nat
    BY <1>1
  <2> HIDE DEF nil
  <2>2. \E G \in [0..n -> V] : Carries(G, n, nil, f)
    BY <1>3, <2>1, LoopExists
  <2> QED
    BY <2>2 DEF nil, Carries
<1>6. IsLoop(G)
  <2>1. ASSUME NEW i \in 0..n PROVE G[i] = Body(G, i)
    <3>1. CASE i = 0
      BY <1>5, <3>1
    <3>2. CASE i # 0
      <4>1. i \in 1..n /\ i - 1 \in 0..n
        BY <1>1, <3>2
      <4>2. G[i - 1] \in V
        BY <1>5, <4>1
      <4> QED
        BY <1>5, <3>2, <4>1, <4>2, <1>4
    <3> QED
      BY <3>1, <3>2
  <2> QED
    BY <2>1, <1>5
<1> DEFINE F == CHOOSE H : IsLoop(H)
<1>7. IsLoop(F)
  BY <1>6
<1>8. Restored(s) = F[n]
  BY DEF Restored, Step, n
<1> HIDE DEF F
<1>9. F[0] = <<>> /\ \A i \in 1..n : F[i] = Step(i, F[i - 1])
  <2>1. \A i \in 0..n : F[i] = Body(F, i)
    BY <1>7
  <2>2. 0 \in 0..n /\ \A i \in 1..n : i \in 0..n /\ i # 0
    BY <1>1
  <2> QED
    BY <2>1, <2>2
<1> QED
  BY <1>8, <1>9 DEF LoadPasses, Step, n

\* A snapshot within the cap that lists no messageId twice is restored whole,
\* and in its order: LoadInbox takes none of it for a redelivery.
LEMMA RestoredWhole ==
    ASSUME NEW S, NEW s \in Bounded(S), Unique(s)
    PROVE  Restored(s) = s
<1> DEFINE n == Len(s)
<1>1. n \in Nat /\ s \in Seq(S) /\ n <= SoftCap /\ SoftCap \in Nat /\ DOMAIN s = 1..n
  BY InboxAssumption DEF Bounded
<1>2. PICK F : LoadPasses(F, s)
  BY <1>1, LoadLoop
<1>3. /\ F[0] = <<>>
      /\ \A i \in 1..n :
            F[i] = IF inboxContainsLocked(F[i - 1], s[i]) THEN F[i - 1]
                   ELSE appendInboxLocked(F[i - 1], s[i])
      /\ Restored(s) = F[n]
  BY <1>2 DEF LoadPasses
<1> DEFINE Prefix(t, i) == /\ t \in Bounded(S) /\ Len(t) = i
                           /\ \A k \in 1..i : t[k] = s[k]
           P == {i \in 0..n : Prefix(F[i], i)}
<1>4. 0 \in P
  <2>1. F[0] \in Bounded(S) /\ Len(F[0]) = 0
    BY <1>1, <1>3 DEF Bounded
  <2> QED
    BY <1>1, <2>1
<1>5. ASSUME NEW i \in 1..n, i - 1 \in P PROVE i \in P
  <2> DEFINE t == F[i - 1]
             r == appendInboxLocked(t, s[i])
             u == Append(t, s[i])
  <2>1. /\ t \in Bounded(S) /\ t \in Seq(S) /\ Len(t) = i - 1 /\ DOMAIN t = 1..(i - 1)
        /\ \A k \in 1..(i - 1) : t[k] = s[k]
    BY <1>5 DEF Bounded
  <2>2. i \in Nat /\ s[i] \in S /\ i - 1 < SoftCap
    BY <1>1
  <2> HIDE DEF t
  <2>3. ~inboxContainsLocked(t, s[i])
    <3>1. ASSUME NEW k \in 1..(i - 1), SameMessageID(t[k], s[i]), s[i].id \notin Anonymous
          PROVE  FALSE
      <4>1. k \in 1..n /\ k # i /\ i \in 1..n /\ t[k] = s[k]
        BY <1>1, <2>1, <2>2
      <4>2. s[k].id \notin Anonymous /\ SameMessageID(s[k], s[i])
        BY <3>1, <4>1 DEF SameMessageID
      <4> QED
        BY <1>1, <4>1, <4>2 DEF Unique
    <3> QED
      BY <2>1, <3>1 DEF inboxContainsLocked
  <2>4. F[i] = r
    BY <1>3, <2>3 DEF t
  <2>5. r \in Bounded(S) /\ Queued(r, t, s[i], 0)
    <3>1. Len(t) # SoftCap
      BY <1>1, <2>1, <2>2
    <3> QED
      BY <2>1, <2>2, <3>1, AppendInbox
  <2>6. u[i] = s[i] /\ \A k \in 1..(i - 1) : u[k] = t[k]
    BY <2>1, <2>2, AppendProperties
  <2> HIDE DEF r
  <2>7. Len(r) = i /\ \A k \in 1..i : r[k] = u[k + 0]
    BY <2>1, <2>2, <2>5 DEF Queued
  <2> HIDE DEF u
  <2>8. ASSUME NEW k \in 1..i PROVE r[k] = s[k]
    <3>1. r[k] = u[k] /\ (k = i \/ k \in 1..(i - 1))
      BY <2>2, <2>7
    <3> QED
      BY <2>1, <2>6, <3>1
  <2>9. Prefix(r, i)
    BY <2>5, <2>7, <2>8
  <2> QED
    BY <1>1, <2>4, <2>9
<1> HIDE DEF P
<1>6. n \in P
  <2>1. \A i \in 0..n : i \in P
    BY <1>1, <1>4, <1>5, CountUp
  <2> QED
    BY <1>1, <2>1
<1>7. Prefix(F[n], n)
  BY <1>6 DEF P
<1>8. F[n] = s
  BY <1>1, <1>7, SeqEqual DEF Bounded
<1> QED
  BY <1>3, <1>8

-----------------------------------------------------------------------------
(* The parts of IInv *)

\* The types of the queue and of its snapshot, and their messageIds.
LEMMA QueueFacts ==
    ASSUME TypeOK, NoDuplicateQueued
    PROVE  /\ inbox \in Bounded(Entries) /\ Unique(inbox)
           /\ disk \in Bounded(Entries) /\ Unique(disk)
BY DEF TypeOK, NoDuplicateQueued, Bounded, Unique

\* The empty queue.
LEMMA EmptyQueue == <<>> \in Bounded(Entries) /\ Unique(<<>>) /\ ToSet(<<>>) = {}
BY InboxAssumption DEF Bounded, Unique, ToSet

\* The entries of a queue are entries.
LEMMA QueueOfEntries ==
    ASSUME NEW s \in Bounded(Entries)
    PROVE  ToSet(s) \subseteq Entries
<1>1. s \in Seq(Entries) /\ DOMAIN s = 1..Len(s)
  BY DEF Bounded
<1> QED
  BY <1>1, ElementOfSeq DEF ToSet

\* How a critical section leaves the snapshot: written, not written for a
\* fault, or not touched because the inbox did not change.
Persisted ==
    \/ disk' = inbox' /\ faults' = faults
    \/ disk' = disk /\ faults' = faults + 1 /\ faults < MaxFaults
    \/ disk' = disk /\ faults' = faults /\ inbox' = inbox

\* Types along a critical section.
LEMMA PersistedType ==
    ASSUME IInv, Persisted, inbox' \in Bounded(Entries), Unique(inbox')
    PROVE  /\ (NoDuplicateQueued)'
           /\ disk' \in Bounded(Entries)
           /\ faults' \in 0..MaxFaults
           /\ faults' = 0 => faults = 0 /\ (disk' = inbox' \/ (disk' = disk /\ inbox' = inbox))
           /\ ToSet(disk') \subseteq ToSet(inbox') \cup ToSet(disk)
<1>1. MaxFaults \in Nat /\ faults \in 0..MaxFaults
  BY InboxAssumption DEF IInv, TypeOK
<1>2. disk \in Bounded(Entries) /\ Unique(disk)
  BY QueueFacts DEF IInv
<1>3. disk' \in Bounded(Entries) /\ Unique(disk')
  BY <1>2 DEF Persisted
<1>4. (NoDuplicateQueued)'
  BY <1>3 DEF NoDuplicateQueued, Unique
<1>5. faults' \in 0..MaxFaults
  BY <1>1 DEF Persisted
<1>6. faults' = 0 => faults = 0 /\ (disk' = inbox' \/ (disk' = disk /\ inbox' = inbox))
  BY <1>1 DEF Persisted
<1>7. ToSet(disk') \subseteq ToSet(inbox') \cup ToSet(disk)
  BY DEF Persisted
<1> QED
  BY <1>3, <1>4, <1>5, <1>6, <1>7

\* A critical section that takes entries out of the inbox.
LEMMA DropKeepsIInv ==
    ASSUME IInv, up, UNCHANGED <<up, hook, clock, crashes>>,
           UNCHANGED <<deliveries, accepted, evicted, erased, lost>>,
           inbox' \in Bounded(Entries), Unique(inbox'), Persisted,
           ToSet(inbox') \subseteq ToSet(inbox),
           removed' = removed \cup (ToSet(inbox) \ ToSet(inbox')),
           handed \subseteq handed', handed' \subseteq Entries
    PROVE  IInv'
<1>1. /\ (NoDuplicateQueued)'
      /\ disk' \in Bounded(Entries)
      /\ faults' \in 0..MaxFaults
      /\ faults' = 0 => faults = 0 /\ (disk' = inbox' \/ (disk' = disk /\ inbox' = inbox))
      /\ ToSet(disk') \subseteq ToSet(inbox') \cup ToSet(disk)
  BY PersistedType
<1>2. ToSet(inbox) \subseteq Entries
  BY QueueFacts, QueueOfEntries DEF IInv
<1>3. TypeOK'
  BY <1>1, <1>2 DEF IInv, TypeOK, Bounded
<1>4. FromDeliveries'
  BY <1>1 DEF IInv, FromDeliveries
<1>5. Outstanding' \subseteq Outstanding \ (ToSet(inbox) \ ToSet(inbox'))
  BY DEF Outstanding
<1>6. OutstandingKept'
  BY <1>5 DEF IInv, OutstandingKept
<1>7. faults' = 0 => faults = 0 /\ (ToSet(disk') = ToSet(inbox')
                        \/ (ToSet(disk') = ToSet(disk) /\ ToSet(inbox') = ToSet(inbox)))
  BY <1>1
<1>8. NoResurrection'
  BY <1>7 DEF IInv, NoResurrection
<1>9. SnapshotFollows'
  BY <1>5, <1>7, <1>8 DEF IInv, SnapshotFollows, NoResurrection
<1>10. CrashLosesOnlyErased'
  BY <1>5, <1>7 DEF IInv, CrashLosesOnlyErased
<1> QED
  BY <1>1, <1>3, <1>4, <1>6, <1>8, <1>9, <1>10 DEF IInv

\* KeepOnly takes out the entries that are not in K.
LEMMA KeepOnlyDrops ==
    ASSUME IInv, NEW K, KeepOnly(K)
    PROVE  /\ inbox' \in Bounded(Entries) /\ Unique(inbox') /\ Persisted
           /\ ToSet(inbox') \subseteq ToSet(inbox)
           /\ removed' = removed \cup (ToSet(inbox) \ ToSet(inbox'))
<1> DEFINE kept == Filter(inbox, K)
<1>1. inbox \in Seq(Entries) /\ Len(inbox) <= SoftCap /\ Unique(inbox) /\ Len(inbox) \in Nat
  BY QueueFacts DEF IInv, Bounded
<1>2. kept \in Seq(Entries) /\ Selects(kept, inbox, Len(inbox), K)
  BY <1>1, FilterSelects
<1>3. DOMAIN inbox = 1..Len(inbox) /\ DOMAIN kept = 1..Len(kept) /\ Len(kept) \in Nat
  BY <1>1, <1>2
<1>4. IF kept = inbox
      THEN UNCHANGED <<inbox, disk, faults, removed>>
      ELSE /\ inbox' = kept
           /\ persistInboxLocked(kept)
           /\ removed' = removed \cup (ToSet(inbox) \ K)
  BY DEF KeepOnly
<1> HIDE DEF kept
<1>5. inbox' = kept /\ Persisted
  BY <1>4 DEF Persisted, persistInboxLocked
<1>6. kept \in Bounded(Entries)
  <2>1. Len(kept) <= Len(inbox) /\ SoftCap \in Nat
    BY <1>2, InboxAssumption DEF Selects
  <2> QED
    BY <1>1, <1>2, <1>3, <2>1 DEF Bounded
<1>7. ToSet(kept) = ToSet(inbox) \cap K
  <2>1. ASSUME NEW k \in 1..Len(kept)
        PROVE  kept[k] \in K /\ \E a \in 1..Len(inbox) : kept[k] = inbox[a]
    BY <1>2 DEF Selects
  <2>2. ASSUME NEW a \in 1..Len(inbox), inbox[a] \in K
        PROVE  \E k \in 1..Len(kept) : kept[k] = inbox[a]
    BY <1>2, <2>2 DEF Selects
  <2>3. ToSet(kept) = {kept[k] : k \in 1..Len(kept)}
    BY <1>3 DEF ToSet
  <2>4. ToSet(inbox) = {inbox[a] : a \in 1..Len(inbox)}
    BY <1>3 DEF ToSet
  <2>5. ASSUME NEW e \in ToSet(kept) PROVE e \in ToSet(inbox) \cap K
    BY <2>1, <2>3, <2>4
  <2>6. ASSUME NEW e \in ToSet(inbox) \cap K PROVE e \in ToSet(kept)
    BY <2>2, <2>3, <2>4
  <2> QED
    BY <2>5, <2>6
<1>8. Unique(kept)
  <2>1. ASSUME NEW k \in 1..Len(kept), NEW l \in 1..Len(kept), k < l,
               kept[k].id \notin Anonymous, SameMessageID(kept[k], kept[l])
        PROVE  FALSE
    <3>1. PICK a \in 1..Len(inbox), b \in 1..Len(inbox) :
              a < b /\ kept[k] = inbox[a] /\ kept[l] = inbox[b]
      BY <1>2, <2>1 DEF Selects
    <3>2. a = b
      BY <1>1, <1>3, <2>1, <3>1 DEF Unique
    <3> QED
      BY <1>1, <3>1, <3>2
  <2>2. ASSUME NEW k \in 1..Len(kept), NEW l \in 1..Len(kept),
               kept[k].id \notin Anonymous, SameMessageID(kept[k], kept[l])
        PROVE  k = l
    <3>1. kept[l].id \notin Anonymous /\ SameMessageID(kept[l], kept[k])
      BY <2>2 DEF SameMessageID
    <3>2. ~(k < l) /\ ~(l < k)
      BY <2>1, <2>2, <3>1
    <3> QED
      BY <1>3, <3>2
  <2> QED
    BY <1>3, <2>2 DEF Unique
<1>9. removed' = removed \cup (ToSet(inbox) \ ToSet(kept))
  <2>1. CASE kept = inbox
    BY <1>4, <2>1
  <2>2. CASE kept # inbox
    BY <1>4, <1>7, <2>2
  <2> QED
    BY <2>1, <2>2
<1> QED
  BY <1>5, <1>6, <1>7, <1>8, <1>9

\* What Enqueue does to the queue, in terms of the entries it holds.
LEMMA EnqueueEffect ==
    ASSUME IInv, NEW e \in Entries, Enqueue(e)
    PROVE  /\ inbox' \in Bounded(Entries) /\ Unique(inbox') /\ Persisted
           /\ \/ UNCHANGED <<inbox, disk, accepted, evicted>>
              \/ /\ ToSet(inbox') \subseteq ToSet(inbox) \cup {e}
                 /\ accepted' = accepted \cup {e}
                 /\ evicted' = evicted \cup ((ToSet(inbox) \cup {e}) \ ToSet(inbox'))
                 /\ faults' = 0 => disk' = inbox'
<1>1. inbox \in Bounded(Entries) /\ Unique(inbox)
  BY QueueFacts DEF IInv
<1>2. CASE inboxContainsLocked(inbox, e)
  <2>1. UNCHANGED <<inbox, disk, faults, accepted, evicted>>
    BY <1>2 DEF Enqueue
  <2> QED
    BY <1>1, <2>1 DEF Persisted
<1>3. CASE ~inboxContainsLocked(inbox, e)
  <2>1. /\ inbox' = appendInboxLocked(inbox, e)
        /\ persistInboxLocked(inbox')
        /\ accepted' = accepted \cup {e}
        /\ evicted' = evicted \cup ((ToSet(inbox) \cup {e}) \ ToSet(inbox'))
    BY <1>3 DEF Enqueue
  <2>2. inbox' \in Bounded(Entries)
    BY <1>1, <2>1, AppendInbox
  <2>3. Unique(inbox')
    BY <1>1, <1>3, <2>1, AppendInboxUnique
  <2>4. ToSet(inbox') \subseteq ToSet(inbox) \cup {e}
    BY <1>1, <2>1, AppendInboxSet
  <2>5. Persisted
    BY <2>1 DEF Persisted, persistInboxLocked
  <2>6. faults' = 0 => disk' = inbox'
    <3>1. faults \in Nat
      BY InboxAssumption DEF IInv, TypeOK
    <3> QED
      BY <2>1, <3>1 DEF persistInboxLocked
  <2> QED
    BY <2>1, <2>2, <2>3, <2>4, <2>5, <2>6
<1> QED
  BY <1>2, <1>3

\* A critical section that queues an entry nobody delivered before.
LEMMA EnqueueKeepsIInv ==
    ASSUME IInv, up, UNCHANGED <<up, hook, clock, crashes>>,
           UNCHANGED <<handed, removed, erased, lost>>,
           NEW e \in Entries, e \notin accepted, Enqueue(e),
           deliveries' \in 0..MaxDeliveries, deliveries <= deliveries', e.n <= deliveries'
    PROVE  IInv'
<1>1. /\ inbox' \in Bounded(Entries) /\ Unique(inbox') /\ Persisted
      /\ \/ UNCHANGED <<inbox, disk, accepted, evicted>>
         \/ /\ ToSet(inbox') \subseteq ToSet(inbox) \cup {e}
            /\ accepted' = accepted \cup {e}
            /\ evicted' = evicted \cup ((ToSet(inbox) \cup {e}) \ ToSet(inbox'))
            /\ faults' = 0 => disk' = inbox'
  BY EnqueueEffect
<1>2. /\ (NoDuplicateQueued)'
      /\ disk' \in Bounded(Entries)
      /\ faults' \in 0..MaxFaults
      /\ faults' = 0 => faults = 0 /\ (disk' = inbox' \/ (disk' = disk /\ inbox' = inbox))
      /\ ToSet(disk') \subseteq ToSet(inbox') \cup ToSet(disk)
  BY <1>1, PersistedType
<1>3. ToSet(inbox) \subseteq Entries /\ accepted \subseteq Entries /\ evicted \subseteq Entries
  BY QueueFacts, QueueOfEntries DEF IInv, TypeOK
<1>4. TypeOK'
  <2>1. accepted' \subseteq Entries /\ evicted' \subseteq Entries
    BY <1>1, <1>3
  <2> QED
    BY <1>1, <1>2, <2>1 DEF IInv, TypeOK, Bounded
<1>5. \A x \in accepted : x.n <= deliveries'
  <2>1. ASSUME NEW x \in accepted PROVE x.n <= deliveries'
    <3>1. x.n <= deliveries /\ x \in Entries
      BY <1>3 DEF IInv, FromDeliveries
    <3>2. x.n \in Int
      BY <3>1, InboxAssumption DEF Entries
    <3>3. deliveries \in Int
      BY DEF IInv, TypeOK
    <3> QED
      BY <3>1, <3>2, <3>3
  <2> QED
    BY <2>1
<1>6. CASE UNCHANGED <<inbox, disk, accepted, evicted>>
  <2>1. FromDeliveries'
    BY <1>5, <1>6 DEF IInv, FromDeliveries
  <2>2. Outstanding' = Outstanding
    BY <1>6 DEF Outstanding
  <2>3. OutstandingKept'
    BY <1>6, <2>2 DEF IInv, OutstandingKept
  <2>4. SnapshotFollows' /\ NoResurrection' /\ CrashLosesOnlyErased'
    BY <1>2, <1>6, <2>2 DEF IInv, SnapshotFollows, NoResurrection, CrashLosesOnlyErased
  <2> QED
    BY <1>2, <1>4, <2>1, <2>3, <2>4 DEF IInv
<1>7. CASE /\ ToSet(inbox') \subseteq ToSet(inbox) \cup {e}
           /\ accepted' = accepted \cup {e}
           /\ evicted' = evicted \cup ((ToSet(inbox) \cup {e}) \ ToSet(inbox'))
           /\ faults' = 0 => disk' = inbox'
  <2>1. FromDeliveries'
    BY <1>2, <1>5, <1>7 DEF IInv, FromDeliveries
  <2>2. e \notin removed /\ e \notin lost
    BY DEF IInv, FromDeliveries
  <2>3. Outstanding' \subseteq Outstanding \cup {e}
    BY <1>7 DEF Outstanding
  <2>4. Outstanding' \cap (ToSet(inbox) \cup {e}) \subseteq ToSet(inbox')
    BY <1>7 DEF Outstanding
  <2>5. OutstandingKept'
    BY <2>3, <2>4 DEF IInv, OutstandingKept
  <2>6. faults' = 0 => faults = 0 /\ ToSet(disk') = ToSet(inbox')
    BY <1>2, <1>7
  <2>7. NoResurrection'
    BY <1>7, <2>2, <2>6 DEF IInv, NoResurrection
  <2>8. SnapshotFollows'
    BY <2>6, <2>7 DEF SnapshotFollows, NoResurrection
  <2>9. CrashLosesOnlyErased'
    BY <2>2, <2>3, <2>6 DEF IInv, CrashLosesOnlyErased
  <2> QED
    BY <1>2, <1>4, <2>1, <2>5, <2>7, <2>8, <2>9 DEF IInv
<1> QED
  BY <1>1, <1>6, <1>7

-----------------------------------------------------------------------------
(* IInv is inductive *)

\* The bridge starts empty.
LEMMA InitIInv == Init => IInv
<1> SUFFICES ASSUME Init PROVE IInv
  OBVIOUS
<1>1. ToSet(inbox) = {} /\ ToSet(disk) = {}
  BY EmptyQueue DEF Init
<1>2. TypeOK /\ NoDuplicateQueued
  BY InboxAssumption DEF Init, TypeOK, NoDuplicateQueued
<1>3. FromDeliveries /\ OutstandingKept /\ SnapshotFollows
  BY <1>1 DEF Init, FromDeliveries, OutstandingKept, SnapshotFollows, Outstanding
<1> QED
  BY <1>1, <1>2, <1>3 DEF Init, IInv, NoResurrection, CrashLosesOnlyErased

\* A delivery carries a number of its own, so its entry is new.
LEMMA DeliverKeepsIInv ==
    ASSUME IInv, NEW m \in Messages, deliverIncoming(m)
    PROVE  IInv'
<1> DEFINE e == InboundEntry(m, deliveries + 1)
<1>1. deliveries \in 0..MaxDeliveries /\ deliveries < MaxDeliveries /\ MaxDeliveries \in Nat
  BY InboxAssumption DEF IInv, TypeOK, deliverIncoming
<1>2. /\ up /\ deliveries' = deliveries + 1 /\ Enqueue(e)
      /\ UNCHANGED <<up, hook, clock, crashes, handed, removed, erased, lost>>
  BY DEF deliverIncoming
<1>3. deliveries + 1 \in 1..MaxDeliveries
  BY <1>1
<1>4. e \in Entries /\ e.n = deliveries + 1
  BY <1>3 DEF InboundEntry, Entries
<1>5. e \notin accepted
  <2>1. ASSUME e \in accepted PROVE deliveries + 1 <= deliveries
    BY <1>4, <2>1 DEF IInv, FromDeliveries
  <2> QED
    BY <1>1, <2>1
<1> HIDE DEF e
<1>6. deliveries' \in 0..MaxDeliveries /\ deliveries <= deliveries' /\ e.n <= deliveries'
  BY <1>1, <1>2, <1>4
<1> QED
  BY <1>2, <1>4, <1>5, <1>6, EnqueueKeepsIInv

\* So does a reply, also one to a task that was answered before.
LEMMA ReplyKeepsIInv ==
    ASSUME IInv, NEW t \in Outgoing, appendSyntheticReply(t)
    PROVE  IInv'
<1> DEFINE e == ReplyEntry(t, deliveries + 1, clock)
<1>1. /\ clock \in 0..MaxClock
      /\ deliveries \in 0..MaxDeliveries /\ deliveries < MaxDeliveries /\ MaxDeliveries \in Nat
  BY InboxAssumption DEF IInv, TypeOK, appendSyntheticReply
<1>2. /\ up /\ deliveries' = deliveries + 1 /\ Enqueue(e)
      /\ UNCHANGED <<up, hook, clock, crashes, handed, removed, erased, lost>>
  BY DEF appendSyntheticReply
<1>3. deliveries + 1 \in 1..MaxDeliveries
  BY <1>1
<1>4. e \in Entries /\ e.n = deliveries + 1
  BY <1>1, <1>3 DEF ReplyEntry, Entries
<1>5. e \notin accepted
  <2>1. ASSUME e \in accepted PROVE deliveries + 1 <= deliveries
    BY <1>4, <2>1 DEF IInv, FromDeliveries
  <2> QED
    BY <1>1, <2>1
<1> HIDE DEF e
<1>6. deliveries' \in 0..MaxDeliveries /\ deliveries <= deliveries' /\ e.n <= deliveries'
  BY <1>1, <1>2, <1>4
<1> QED
  BY <1>2, <1>4, <1>5, <1>6, EnqueueKeepsIInv

\* a2a_inbox takes every entry out.
LEMMA DrainKeepsIInv ==
    ASSUME IInv, DrainInbox
    PROVE  IInv'
<1>1. /\ up /\ inbox' = <<>> /\ persistInboxLocked(<<>>)
      /\ handed' = handed \cup ToSet(inbox)
      /\ removed' = removed \cup ToSet(inbox)
      /\ UNCHANGED <<up, hook, clock, crashes>>
      /\ UNCHANGED <<deliveries, accepted, evicted, erased, lost>>
  BY DEF DrainInbox
<1>2. inbox' \in Bounded(Entries) /\ Unique(inbox') /\ ToSet(inbox') = {}
  BY <1>1, EmptyQueue
<1>3. ToSet(inbox) \subseteq Entries /\ handed \subseteq Entries
  BY QueueFacts, QueueOfEntries DEF IInv, TypeOK
<1>4. Persisted
  BY <1>1 DEF Persisted, persistInboxLocked
<1>5. removed' = removed \cup (ToSet(inbox) \ ToSet(inbox'))
  BY <1>1, <1>2
<1> QED
  BY <1>1, <1>2, <1>3, <1>4, <1>5, DropKeepsIInv

\* A peek, an answered task and the janitor take out what they do not keep.
LEMMA KeepOnlyKeepsIInv ==
    ASSUME IInv, PeekInbox \/ evictExpiredReplies \/ \E d \in handed : dropTaskEntries(d)
    PROVE  IInv'
<1>1. PICK K : KeepOnly(K)
  BY DEF PeekInbox, evictExpiredReplies, dropTaskEntries
<1>2. ToSet(inbox) \subseteq Entries /\ handed \subseteq Entries
  BY QueueFacts, QueueOfEntries DEF IInv, TypeOK
<1>3. /\ up /\ UNCHANGED <<up, hook, clock, crashes>>
      /\ UNCHANGED <<deliveries, accepted, evicted, erased, lost>>
      /\ handed' = handed \/ handed' = handed \cup ToSet(inbox)
  BY DEF PeekInbox, evictExpiredReplies, dropTaskEntries
<1>4. handed \subseteq handed' /\ handed' \subseteq Entries
  BY <1>2, <1>3
<1> QED
  BY <1>1, <1>3, <1>4, KeepOnlyDrops, DropKeepsIInv

\* A crash leaves the snapshot; what it lacks is counted as lost.
LEMMA CrashKeepsIInv ==
    ASSUME IInv, Crash
    PROVE  IInv'
<1>1. /\ up /\ up' = FALSE /\ crashes' = crashes + 1 /\ crashes < MaxCrashes
      /\ inbox' = <<>>
      /\ lost' = lost \cup (ToSet(inbox) \ ToSet(disk))
      /\ UNCHANGED <<disk, hook, clock, faults>>
      /\ UNCHANGED <<deliveries, accepted, handed, removed, evicted, erased>>
  BY DEF Crash
<1>2. inbox' \in Bounded(Entries) /\ Unique(inbox') /\ ToSet(inbox') = {}
  BY <1>1, EmptyQueue
<1>3. inbox \in Bounded(Entries) /\ disk \in Bounded(Entries) /\ Unique(disk)
  BY QueueFacts DEF IInv
<1>4. TypeOK'
  <2>1. ToSet(inbox) \subseteq Entries
    BY <1>3, QueueOfEntries
  <2>2. crashes' \in 0..MaxCrashes
    BY <1>1, InboxAssumption DEF IInv, TypeOK
  <2> QED
    BY <1>1, <1>2, <2>1, <2>2 DEF IInv, TypeOK, Bounded
<1>5. NoDuplicateQueued'
  BY <1>1, <1>2, <1>3 DEF NoDuplicateQueued, Unique
<1>6. Outstanding' = Outstanding /\ ToSet(disk') = ToSet(disk)
  BY <1>1 DEF Outstanding
<1>7. FromDeliveries'
  BY <1>1, <1>2, <1>6 DEF IInv, FromDeliveries
<1>8. OutstandingKept'
  BY <1>1, <1>6 DEF IInv, OutstandingKept
<1>9. SnapshotFollows' /\ NoResurrection'
  BY <1>1, <1>2, <1>6 DEF IInv, SnapshotFollows, NoResurrection
<1>10. CrashLosesOnlyErased'
  BY <1>1, <1>6 DEF IInv, SnapshotFollows, CrashLosesOnlyErased
<1> QED
  BY <1>4, <1>5, <1>7, <1>8, <1>9, <1>10 DEF IInv

\* A restart restores the snapshot whole.
LEMMA StartKeepsIInv ==
    ASSUME IInv, Start
    PROVE  IInv'
<1>1. /\ ~up /\ up' = TRUE /\ inbox' = Restored(disk)
      /\ UNCHANGED <<disk, hook, clock, crashes, faults>>
      /\ UNCHANGED <<deliveries, accepted, handed, removed, evicted, erased, lost>>
  BY DEF Start, bounds, history
<1>2. disk \in Bounded(Entries) /\ Unique(disk)
  BY QueueFacts DEF IInv
<1>3. inbox' = disk
  BY <1>1, <1>2, RestoredWhole
<1>4. TypeOK' /\ NoDuplicateQueued'
  BY <1>1, <1>2, <1>3 DEF IInv, TypeOK, NoDuplicateQueued, Bounded, Unique
<1>5. Outstanding' = Outstanding /\ ToSet(disk') = ToSet(disk) /\ ToSet(inbox') = ToSet(disk)
  BY <1>1, <1>3 DEF Outstanding
<1>6. FromDeliveries' /\ OutstandingKept'
  BY <1>1, <1>5 DEF IInv, FromDeliveries, OutstandingKept
<1>7. SnapshotFollows' /\ NoResurrection' /\ CrashLosesOnlyErased'
  BY <1>1, <1>5 DEF IInv, SnapshotFollows, NoResurrection, CrashLosesOnlyErased
<1> QED
  BY <1>4, <1>6, <1>7 DEF IInv

\* Time passes.
LEMMA TickKeepsIInv ==
    ASSUME IInv, Tick
    PROVE  IInv'
<1>1. /\ clock' = clock + 1 /\ clock < MaxClock
      /\ UNCHANGED <<up, inbox, disk, hook, crashes, faults>>
      /\ UNCHANGED <<deliveries, accepted, handed, removed, evicted, erased, lost>>
  BY DEF Tick, history
<1>2. clock' \in 0..MaxClock
  BY <1>1, InboxAssumption DEF IInv, TypeOK
<1>3. TypeOK'
  BY <1>1, <1>2 DEF IInv, TypeOK
<1> QED
  BY <1>1, <1>3 DEF IInv, NoDuplicateQueued, FromDeliveries, OutstandingKept,
                    SnapshotFollows, NoResurrection, CrashLosesOnlyErased, Outstanding

\* The hook shows the snapshot to the host.
LEMMA RenderKeepsIInv ==
    ASSUME IInv, HookRender
    PROVE  IInv'
<1>1. /\ handed' = handed \cup ToSet(disk) /\ hook' = "rendered"
      /\ UNCHANGED <<up, inbox, disk, clock, crashes, faults>>
      /\ UNCHANGED <<deliveries, accepted, removed, evicted, erased, lost>>
  BY DEF HookRender, bounds
<1>2. ToSet(disk) \subseteq Entries
  BY QueueFacts, QueueOfEntries DEF IInv
<1>3. TypeOK'
  BY <1>1, <1>2 DEF IInv, TypeOK
<1>4. /\ Outstanding' \subseteq Outstanding
      /\ ToSet(disk') = ToSet(disk) /\ ToSet(inbox') = ToSet(inbox)
  BY <1>1 DEF Outstanding
<1>5. NoDuplicateQueued' /\ FromDeliveries' /\ NoResurrection'
  BY <1>1 DEF IInv, NoDuplicateQueued, FromDeliveries, NoResurrection
<1>6. OutstandingKept' /\ SnapshotFollows' /\ CrashLosesOnlyErased'
  BY <1>1, <1>4 DEF IInv, OutstandingKept, SnapshotFollows, CrashLosesOnlyErased
<1> QED
  BY <1>3, <1>5, <1>6 DEF IInv

\* The hook truncates the snapshot; what it had not shown is counted as erased.
LEMMA TruncateKeepsIInv ==
    ASSUME IInv, HookTruncate
    PROVE  IInv'
<1>1. /\ disk' = <<>> /\ hook' = "idle"
      /\ erased' = erased \cup (ToSet(disk) \ handed)
      /\ lost' = IF up THEN lost ELSE lost \cup ToSet(disk)
      /\ UNCHANGED <<up, inbox, clock, crashes, faults>>
      /\ UNCHANGED <<deliveries, accepted, handed, removed, evicted>>
  BY DEF HookTruncate, bounds
<1>2. disk' \in Bounded(Entries) /\ Unique(disk') /\ ToSet(disk') = {}
  BY <1>1, EmptyQueue
<1>3. ToSet(disk) \subseteq Entries /\ Unique(inbox) /\ ToSet(inbox') = ToSet(inbox)
  BY <1>1, QueueFacts, QueueOfEntries DEF IInv
<1>4. TypeOK'
  <2>1. lost' \subseteq Entries /\ erased' \subseteq Entries
    BY <1>1, <1>3 DEF IInv, TypeOK
  <2> QED
    BY <1>1, <1>2, <2>1 DEF IInv, TypeOK, Bounded
<1>5. NoDuplicateQueued'
  BY <1>1, <1>2, <1>3 DEF NoDuplicateQueued, Unique
<1>6. Outstanding' = Outstanding /\ Outstanding \cap handed = {}
  BY <1>1 DEF Outstanding
<1>7. FromDeliveries' /\ NoResurrection'
  BY <1>1, <1>2, <1>3 DEF IInv, FromDeliveries, NoResurrection
<1>8. OutstandingKept'
  BY <1>1, <1>3, <1>6 DEF IInv, OutstandingKept
<1>9. SnapshotFollows'
  BY <1>1, <1>2, <1>3, <1>6 DEF IInv, SnapshotFollows
<1>10. CrashLosesOnlyErased'
  BY <1>1, <1>6 DEF IInv, CrashLosesOnlyErased
<1> QED
  BY <1>4, <1>5, <1>7, <1>8, <1>9, <1>10 DEF IInv

\* Every step keeps IInv.
LEMMA NextIInv == IInv /\ [Next]_vars => IInv'
<1> SUFFICES ASSUME IInv, [Next]_vars PROVE IInv'
  OBVIOUS
<1>1. CASE UNCHANGED vars
  BY <1>1 DEF IInv, TypeOK, NoDuplicateQueued, FromDeliveries, OutstandingKept,
              SnapshotFollows, NoResurrection, CrashLosesOnlyErased, Outstanding,
              vars, bounds, history
<1>2. CASE Next
  BY <1>2, DeliverKeepsIInv, ReplyKeepsIInv, DrainKeepsIInv, KeepOnlyKeepsIInv,
     CrashKeepsIInv, StartKeepsIInv, TickKeepsIInv, RenderKeepsIInv, TruncateKeepsIInv
     DEF Next
<1> QED
  BY <1>1, <1>2

-----------------------------------------------------------------------------
(* Theorems *)

\* IInv holds throughout: what is delivered stays accounted for across
\* redeliveries, the soft cap, the hook, failed writes and restarts.
THEOREM InboxInvariant == Spec => []IInv
BY InitIInv, NextIInv, PTL DEF Spec

\* The variables keep their types; the inbox and its snapshot stay within
\* inboxSoftCap.
THEOREM InboxTypes == Spec => []TypeOK
<1>1. IInv => TypeOK
  BY DEF IInv
<1> QED
  BY <1>1, InboxInvariant, PTL

\* Neither the inbox nor the snapshot ever lists a messageId twice.
THEOREM QueuedOnce == Spec => []NoDuplicateQueued
<1>1. IInv => NoDuplicateQueued
  BY DEF IInv
<1> QED
  BY <1>1, InboxInvariant, PTL

\* While the bridge runs, a message the host has not seen is in its inbox
\* unless an earlier crash took it.
THEOREM OnlyACrashLoses == Spec => []LossOnlyByCrash
<1>1. IInv => LossOnlyByCrash
  BY DEF IInv, OutstandingKept, LossOnlyByCrash
<1> QED
  BY <1>1, InboxInvariant, PTL

\* With a working disk, a crash loses no unseen message but those the hook
\* truncated without having rendered them.
THEOREM RestartRestores == Spec => []CrashLosesOnlyErased
<1>1. IInv => CrashLosesOnlyErased
  BY DEF IInv
<1> QED
  BY <1>1, InboxInvariant, PTL

\* With a working disk, what was drained, answered, aged out or consumed by a
\* peek does not come back.
THEOREM RemovedStaysOut == Spec => []NoResurrection
<1>1. IInv => NoResurrection
  BY DEF IInv
<1> QED
  BY <1>1, InboxInvariant, PTL
====
