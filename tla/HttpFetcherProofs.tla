------------------------- MODULE HttpFetcherProofs -------------------------
(***************************************************************************)
(* Theorems about HttpFetcher and HostRateLimiter, for any calls, hosts,   *)
(* limits and retries: no permit is lost, and no host is overrun by calls  *)
(* that share a limiter.                                                   *)
(***************************************************************************)
EXTENDS HttpFetcher, FiniteSetTheorems, SequenceTheorems, TLAPS

Labels == {"idle", "queued", "request", "sleep"} \cup Ended

(* The calls in a request of a semaphore, and those given a permit of it.  *)
Requests(s) == {c \in Calls : SlotOf(c) = s /\ pc[c] = "request"}
Given(s) == {c \in woken : SlotOf(c) = s}

Typed ==
    /\ value \in [Slots -> Nat]
    /\ waiters \in [Slots -> Seq(Calls)]
    /\ woken \subseteq Calls
    /\ pc \in [Calls -> Labels]

(* A queue holds each call that waits on its semaphore once, and no other. *)
QueuesOK ==
    /\ \A s \in Slots : \A i \in 1 .. Len(waiters[s]) :
          SlotOf(waiters[s][i]) = s /\ pc[waiters[s][i]] = "queued"
    /\ \A s \in Slots : \A i, j \in 1 .. Len(waiters[s]) :
          waiters[s][i] = waiters[s][j] => i = j
    /\ \A c \in Calls : pc[c] = "queued" =>
          \E i \in 1 .. Len(waiters[SlotOf(c)]) : waiters[SlotOf(c)][i] = c
    /\ \A c \in woken : pc[c] = "queued"

Conserved ==
    \A s \in Slots :
        value[s] + Cardinality(Requests(s)) + Cardinality(Given(s)) = PerHostLimit

LimiterInv == Typed /\ QueuesOK /\ Conserved

(* The loop's variable is within the attempts allowed, and short of them   *)
(* while the call pauses.                                                  *)
AttemptsOK ==
    /\ attempt \in [Calls -> Nat]
    /\ \A c \in Calls :
          /\ pc[c] = "idle" => attempt[c] = 0
          /\ pc[c] \in {"queued", "request"} => attempt[c] \in 1 .. AttemptsAllowed(c)
          /\ pc[c] = "sleep" => attempt[c] + 1 \in 1 .. AttemptsAllowed(c)
          /\ attempt[c] = 0 \/ attempt[c] <= AttemptsAllowed(c)

Inv == LimiterInv /\ AttemptsOK
-----------------------------------------------------------------------------
(* Facts about the operators                                               *)

LEMMA SlotsType == \A c \in Calls : SlotOf(c) \in Slots
  BY DEF Slots

LEMMA CountsType ==
    ASSUME Typed, NEW s
    PROVE  /\ IsFiniteSet(Requests(s)) /\ Cardinality(Requests(s)) \in Nat
           /\ IsFiniteSet(Given(s)) /\ Cardinality(Given(s)) \in Nat
<1>1. Requests(s) \in SUBSET Calls /\ Given(s) \in SUBSET Calls
  BY DEF Requests, Given, Typed
<1>2. IsFiniteSet(Requests(s)) /\ IsFiniteSet(Given(s))
  BY <1>1, CallsAssumption, FS_Subset
<1> QED
  BY <1>2, FS_CardinalityType

(* n permits wake n calls at most, of those that sleep in the queue: the   *)
(* place of each among the sleepers is a number below n.                   *)
LEMMA WakesFacts ==
    ASSUME NEW q \in Seq(Calls), NEW n \in Nat
    PROVE  /\ \A c \in Wakes(q, n) : c \notin woken /\ \E i \in 1 .. Len(q) : q[i] = c
           /\ IsFiniteSet(Wakes(q, n))
           /\ Cardinality(Wakes(q, n)) \in 0 .. n
<1> DEFINE asleep == {i \in DOMAIN q : q[i] \notin woken}
           before(i) == {j \in asleep : j < i}
           first == {i \in asleep : Cardinality(before(i)) < n}
           rank == [i \in first |-> Cardinality(before(i)) + 1]
           wake == [i \in first |-> q[i]]
<1>1. DOMAIN q = 1 .. Len(q) /\ Len(q) \in Nat
  OBVIOUS
<1>2. Wakes(q, n) = {q[i] : i \in first}
  BY DEF Wakes
<1>3. IsFiniteSet(1 .. Len(q))
  BY <1>1, FS_Interval
<1>4. \A i : IsFiniteSet(before(i)) /\ Cardinality(before(i)) \in Nat
  <2> TAKE i
  <2>1. before(i) \in SUBSET (1 .. Len(q))
    BY <1>1
  <2>2. IsFiniteSet(before(i))
    BY <1>3, <2>1, FS_Subset
  <2> QED
    BY <2>2, FS_CardinalityType
<1>5. ASSUME NEW i \in first
      PROVE  rank[i] \in 1 .. n /\ rank[i] = Cardinality(before(i)) + 1
  <2> DEFINE b == Cardinality(before(i))
  <2>1. b \in Nat /\ b < n /\ rank[i] = b + 1
    BY <1>4
  <2> HIDE DEF b, rank
  <2>2. rank[i] \in 1 .. n
    BY <2>1
  <2> QED
    BY <2>1, <2>2 DEF b
<1>6. ASSUME NEW i \in first, NEW k \in first, i < k
      PROVE  rank[i] < rank[k]
  <2> DEFINE more == before(i) \cup {i}
             b == Cardinality(before(i))
             d == Cardinality(before(k))
  <2>1. i \notin before(i)
    BY <1>1
  <2>2. Cardinality(more) = b + 1
    BY <1>4, <2>1, FS_AddElement, ZenonT(60)
  <2>3. more \in SUBSET before(k)
    BY <1>1, <1>6
  <2>4. Cardinality(more) <= d
    BY <1>4, <2>3, FS_Subset
  <2>5. b \in Nat /\ d \in Nat /\ rank[i] = b + 1 /\ rank[k] = d + 1
    BY <1>4, <1>5
  <2> HIDE DEF b, d, more, rank
  <2> QED
    BY <2>2, <2>4, <2>5
<1>7. rank \in Injection(first, 1 .. n)
  <2>1. ASSUME NEW i \in first, NEW k \in first, rank[i] = rank[k]
        PROVE  i = k
    <3>1. i \in Nat /\ k \in Nat
      BY <1>1
    <3>2. rank[i] \in Nat /\ rank[k] \in Nat
      BY <1>5
    <3> HIDE DEF rank, first
    <3>3. ~(rank[i] < rank[k]) /\ ~(rank[k] < rank[i])
      BY <2>1, <3>2
    <3> QED
      BY <1>6, <3>1, <3>3
  <2>2. rank \in [first -> 1 .. n] /\ DOMAIN rank = first
    BY <1>5
  <2> HIDE DEF rank, first
  <2> QED
    BY <2>1, <2>2 DEF Injection, IsInjective
<1>8. IsFiniteSet(1 .. n) /\ Cardinality(1 .. n) = n
  BY FS_Interval
<1>9. IsFiniteSet(first) /\ Cardinality(first) <= n
  <2> HIDE DEF rank, first
  <2> QED
    BY <1>7, <1>8, FS_Injection
<1>10. wake \in Surjection(first, Wakes(q, n))
  BY <1>2 DEF Surjection
<1>11. IsFiniteSet(Wakes(q, n)) /\ Cardinality(Wakes(q, n)) <= Cardinality(first)
  <2> HIDE DEF wake, first
  <2> QED
    BY <1>9, <1>10, FS_Surjection
<1>12. Cardinality(Wakes(q, n)) \in Nat /\ Cardinality(first) \in Nat
  <2> HIDE DEF first
  <2> QED
    BY <1>9, <1>11, FS_CardinalityType
<1>13. Cardinality(Wakes(q, n)) \in 0 .. n
  <2> HIDE DEF first
  <2> QED
    BY <1>9, <1>11, <1>12
<1>14. \A c \in Wakes(q, n) : c \notin woken /\ \E i \in 1 .. Len(q) : q[i] = c
  BY <1>1, <1>2
<1> QED
  BY <1>11, <1>13, <1>14

(* What is left of a queue                                                 *)
LEMMA RemoveAtFacts ==
    ASSUME NEW q \in Seq(Calls), NEW k \in 1 .. Len(q)
    PROVE  /\ RemoveAt(q, k) \in Seq(Calls)
           /\ Len(RemoveAt(q, k)) = Len(q) - 1
           /\ \A i \in 1 .. Len(q) - 1 :
                 RemoveAt(q, k)[i] = IF i < k THEN q[i] ELSE q[i + 1]
<1>1. Len(q) \in Nat /\ \A i \in 1 .. Len(q) : q[i] \in Calls
  OBVIOUS
<1>2. /\ SubSeq(q, 1, k - 1) \in Seq(Calls)
      /\ Len(SubSeq(q, 1, k - 1)) = k - 1
      /\ \A i \in 1 .. k - 1 : SubSeq(q, 1, k - 1)[i] = q[i]
  BY <1>1, SubSeqProperties
<1>3. /\ SubSeq(q, k + 1, Len(q)) \in Seq(Calls)
      /\ Len(SubSeq(q, k + 1, Len(q))) = Len(q) - k
      /\ \A i \in 1 .. Len(q) - k : SubSeq(q, k + 1, Len(q))[i] = q[k + i]
  <2>1. \A i \in k + 1 .. Len(q) : q[i] \in Calls
    BY <1>1
  <2> QED
    BY <1>1, <2>1, SubSeqProperties
<1> DEFINE s1 == SubSeq(q, 1, k - 1)
           s2 == SubSeq(q, k + 1, Len(q))
           m == Len(q)
<1>4. RemoveAt(q, k) = s1 \o s2
  BY DEF RemoveAt
<1>5. /\ s1 \in Seq(Calls) /\ s2 \in Seq(Calls)
      /\ m \in Nat /\ k \in 1 .. m
      /\ Len(s1) = k - 1 /\ Len(s2) = m - k
      /\ \A i \in 1 .. k - 1 : s1[i] = q[i]
      /\ \A i \in 1 .. m - k : s2[i] = q[k + i]
  BY <1>1, <1>2, <1>3
<1> HIDE DEF s1, s2, m
<1>6. /\ s1 \o s2 \in Seq(Calls)
      /\ Len(s1 \o s2) = m - 1
      /\ \A i \in 1 .. m - 1 :
            (s1 \o s2)[i] = IF i <= k - 1 THEN s1[i] ELSE s2[i - (k - 1)]
  <2>1. Len(s1) + Len(s2) = m - 1
    BY <1>5
  <2>2. /\ s1 \o s2 \in Seq(Calls)
        /\ Len(s1 \o s2) = Len(s1) + Len(s2)
        /\ \A i \in 1 .. Len(s1) + Len(s2) :
              (s1 \o s2)[i] = IF i <= Len(s1) THEN s1[i] ELSE s2[i - Len(s1)]
    BY <1>5, ConcatProperties
  <2> QED
    BY <1>5, <2>1, <2>2
<1>7. ASSUME NEW i \in 1 .. m - 1
      PROVE  (s1 \o s2)[i] = IF i < k THEN q[i] ELSE q[i + 1]
  <2>1. CASE i < k
    <3>1. i \in 1 .. k - 1 /\ i <= k - 1
      BY <1>5, <2>1
    <3> QED
      BY <1>5, <1>6, <2>1, <3>1
  <2>2. CASE ~(i < k)
    <3>1. i - (k - 1) \in 1 .. m - k /\ k + (i - (k - 1)) = i + 1 /\ ~(i <= k - 1)
      BY <1>5, <2>2
    <3>2. s2[i - (k - 1)] = q[i + 1]
      BY <1>5, <3>1
    <3>3. (s1 \o s2)[i] = s2[i - (k - 1)]
      BY <1>6, <3>1
    <3> QED
      BY <2>2, <3>2, <3>3
  <2> QED
    BY <2>1, <2>2
<1> QED
  BY <1>4, <1>6, <1>7 DEF m
-----------------------------------------------------------------------------
(* What an action of the limiter does to the permits and the queues        *)

(* A call that moves on changes only the requests of its own semaphore.    *)
LEMMA RequestsMove ==
    ASSUME Typed, NEW c \in Calls, NEW label, Goto(c, label), NEW s
    PROVE  Requests(s)' = IF SlotOf(c) = s /\ label = "request"
                          THEN Requests(s) \cup {c} ELSE Requests(s) \ {c}
  BY DEF Requests, Typed, Goto

(* The count of requests after that.                                       *)
LEMMA RequestsCount ==
    ASSUME Typed, NEW c \in Calls, NEW label, Goto(c, label), NEW s \in Slots
    PROVE  /\ label = "request" /\ pc[c] # "request" =>
                Cardinality(Requests(s)') =
                   Cardinality(Requests(s)) + (IF SlotOf(c) = s THEN 1 ELSE 0)
           /\ label # "request" =>
                Cardinality(Requests(s)') = Cardinality(Requests(s))
                   - (IF SlotOf(c) = s /\ pc[c] = "request" THEN 1 ELSE 0)
<1>1. IsFiniteSet(Requests(s)) /\ Cardinality(Requests(s)) \in Nat
  BY CountsType
<1>2. c \in Requests(s) <=> SlotOf(c) = s /\ pc[c] = "request"
  BY DEF Requests
<1>3. CASE label = "request" /\ pc[c] # "request"
  <2>1. CASE SlotOf(c) = s
    <3>1. Requests(s)' = Requests(s) \cup {c}
      BY <1>3, <2>1, RequestsMove
    <3> QED
      BY <1>1, <1>2, <1>3, <2>1, <3>1, FS_AddElement
  <2>2. CASE SlotOf(c) # s
    <3>1. Requests(s)' = Requests(s)
      BY <1>2, <2>2, RequestsMove
    <3> QED
      BY <1>1, <1>3, <2>2, <3>1
  <2> QED
    BY <2>1, <2>2
<1>4. CASE label # "request"
  <2>1. Requests(s)' = Requests(s) \ {c}
    BY <1>4, RequestsMove
  <2>2. Cardinality(Requests(s)') = IF c \in Requests(s) THEN Cardinality(Requests(s)) - 1
                                                        ELSE Cardinality(Requests(s))
    BY <1>1, <2>1, FS_RemoveElement
  <2>3. CASE c \in Requests(s)
    <3>1. SlotOf(c) = s /\ pc[c] = "request"
      BY <1>2, <2>3
    <3> QED
      BY <1>4, <2>2, <2>3, <3>1
  <2>4. CASE c \notin Requests(s)
    <3>1. ~(SlotOf(c) = s /\ pc[c] = "request")
      BY <1>2, <2>4
    <3>2. Cardinality(Requests(s)') = Cardinality(Requests(s)) - 0
      BY <1>1, <2>2, <2>4
    <3> QED
      BY <1>4, <3>1, <3>2
  <2> QED
    BY <2>3, <2>4
<1> QED
  BY <1>3, <1>4

LEMMA TakeInv ==
    ASSUME LimiterInv, NEW c \in Calls, pc[c] \in {"idle", "sleep"},
           Take(c), Goto(c, "request")
    PROVE  LimiterInv'
<1> USE DEF LimiterInv
<1> DEFINE s == SlotOf(c)
<1>1. s \in Slots /\ value[s] \in Nat /\ value[s] # 0
  BY SlotsType DEF Take, Locked, Typed
<1>2. value' = [value EXCEPT ![s] = @ - 1] /\ UNCHANGED <<waiters, woken>>
  BY DEF Take
<1>3. pc' \in [Calls -> Labels] /\ \A d \in Calls : pc[d] = "queued" <=> pc'[d] = "queued"
  BY DEF Goto, Typed, Labels
<1>4. Typed'
  <2>1. value[s] - 1 \in Nat
    BY <1>1
  <2> QED
    BY <1>1, <1>2, <1>3, <2>1 DEF Typed
<1>5. QueuesOK'
  <2>1. \A t \in Slots : \A i \in 1 .. Len(waiters[t]) : waiters[t][i] \in Calls
    BY DEF Typed
  <2> QED
    BY <1>2, <1>3, <2>1 DEF QueuesOK, Typed
<1>6. ASSUME NEW t \in Slots
      PROVE  value'[t] + Cardinality(Requests(t)') + Cardinality(Given(t)') = PerHostLimit
  <2>1. Cardinality(Requests(t)') =
           Cardinality(Requests(t)) + (IF SlotOf(c) = t THEN 1 ELSE 0)
    BY RequestsCount
  <2>2. Given(t)' = Given(t)
    BY <1>2 DEF Given
  <2>3. value'[t] = value[t] - (IF s = t THEN 1 ELSE 0) /\ value[t] \in Nat
    BY <1>1, <1>2 DEF Typed
  <2>4. Cardinality(Requests(t)) \in Nat /\ Cardinality(Given(t)) \in Nat
    BY CountsType
  <2>5. value[t] + Cardinality(Requests(t)) + Cardinality(Given(t)) = PerHostLimit
    BY DEF Conserved
  <2> QED
    BY <2>1, <2>2, <2>3, <2>4, <2>5
<1>7. Conserved'
  BY <1>6 DEF Conserved
<1> QED
  BY <1>4, <1>5, <1>7

LEMMA QueueInv ==
    ASSUME LimiterInv, NEW c \in Calls, pc[c] \in {"idle", "sleep"},
           Queue(c), Goto(c, "queued")
    PROVE  LimiterInv'
<1> USE DEF LimiterInv
<1> DEFINE s == SlotOf(c)
           q == waiters[s]
<1>1. s \in Slots /\ q \in Seq(Calls) /\ Len(q) \in Nat
  BY SlotsType DEF Typed
<1>2. waiters' = [waiters EXCEPT ![s] = Append(q, c)] /\ UNCHANGED <<value, woken>>
  BY DEF Queue
<1>3. /\ pc' \in [Calls -> Labels]
      /\ pc'[c] = "queued"
      /\ \A d \in Calls \ {c} : pc'[d] = pc[d]
  BY DEF Goto, Typed, Labels
<1>4. /\ Append(q, c) \in Seq(Calls)
      /\ Len(Append(q, c)) = Len(q) + 1
      /\ \A i \in 1 .. Len(q) : Append(q, c)[i] = q[i]
      /\ Append(q, c)[Len(q) + 1] = c
  BY <1>1, AppendProperties
<1>5. /\ waiters' \in [Slots -> Seq(Calls)]
      /\ waiters'[s] = Append(q, c)
      /\ \A t \in Slots \ {s} : waiters'[t] = waiters[t]
  BY <1>1, <1>2, <1>4 DEF Typed
<1>6. Typed'
  BY <1>2, <1>3, <1>5 DEF Typed
<1>7. \A i \in 1 .. Len(q) : q[i] \in Calls /\ pc[q[i]] = "queued" /\ q[i] # c /\ SlotOf(q[i]) = s
  BY <1>1 DEF QueuesOK
<1>8. ASSUME NEW t \in Slots
      PROVE  \A i \in 1 .. Len(waiters'[t]) :
                SlotOf(waiters'[t][i]) = t /\ pc'[waiters'[t][i]] = "queued"
  <2>1. CASE t = s
    <3>1. TAKE i \in 1 .. Len(waiters'[t])
    <3>2. i \in 1 .. Len(q) \/ i = Len(q) + 1
      BY <1>1, <1>4, <1>5, <2>1
    <3> QED
      BY <1>3, <1>4, <1>5, <1>7, <2>1, <3>2
  <2>2. CASE t # s
    <3>1. \A i \in 1 .. Len(waiters[t]) : waiters[t][i] \in Calls
      BY DEF Typed
    <3> QED
      BY <1>3, <1>5, <2>2, <3>1 DEF QueuesOK
  <2> QED
    BY <2>1, <2>2
<1>9. ASSUME NEW t \in Slots
      PROVE  \A i, j \in 1 .. Len(waiters'[t]) : waiters'[t][i] = waiters'[t][j] => i = j
  <2>1. CASE t = s
    <3>1. TAKE i, j \in 1 .. Len(waiters'[t])
    <3>2. i \in 1 .. Len(q) \/ i = Len(q) + 1
      BY <1>1, <1>4, <1>5, <2>1
    <3>3. j \in 1 .. Len(q) \/ j = Len(q) + 1
      BY <1>1, <1>4, <1>5, <2>1
    <3>4. i \in 1 .. Len(q) /\ j \in 1 .. Len(q) => (q[i] = q[j] => i = j)
      BY <1>1 DEF QueuesOK
    <3> QED
      BY <1>4, <1>5, <1>7, <2>1, <3>2, <3>3, <3>4
  <2>2. CASE t # s
    BY <1>5, <2>2 DEF QueuesOK
  <2> QED
    BY <2>1, <2>2
<1>10. ASSUME NEW d \in Calls, pc'[d] = "queued"
       PROVE  \E i \in 1 .. Len(waiters'[SlotOf(d)]) : waiters'[SlotOf(d)][i] = d
  <2>1. CASE d = c
    <3>1. Len(q) + 1 \in 1 .. Len(waiters'[s]) /\ waiters'[s][Len(q) + 1] = c
      BY <1>1, <1>4, <1>5
    <3> QED
      BY <2>1, <3>1
  <2>2. CASE d # c
    <3>1. pc[d] = "queued"
      BY <1>3, <1>10, <2>2
    <3>2. PICK i \in 1 .. Len(waiters[SlotOf(d)]) : waiters[SlotOf(d)][i] = d
      BY <3>1 DEF QueuesOK
    <3>3. CASE SlotOf(d) = s
      <4>1. i \in 1 .. Len(waiters'[s]) /\ waiters'[s][i] = d
        BY <1>1, <1>4, <1>5, <3>2, <3>3
      <4> QED
        BY <3>3, <4>1
    <3>4. CASE SlotOf(d) # s
      BY <1>5, <3>2, <3>4, SlotsType
    <3> QED
      BY <3>3, <3>4
  <2> QED
    BY <2>1, <2>2
<1>11. \A d \in woken' : pc'[d] = "queued"
  BY <1>2, <1>3 DEF QueuesOK, Typed
<1>12. QueuesOK'
  BY <1>8, <1>9, <1>10, <1>11 DEF QueuesOK
<1>13. ASSUME NEW t \in Slots
       PROVE  value'[t] + Cardinality(Requests(t)') + Cardinality(Given(t)') = PerHostLimit
  <2>1. Cardinality(Requests(t)') = Cardinality(Requests(t)) - 0
    BY RequestsCount
  <2>2. Given(t)' = Given(t)
    BY <1>2 DEF Given
  <2>3. Cardinality(Requests(t)) \in Nat
    BY CountsType
  <2> QED
    BY <1>2, <2>1, <2>2, <2>3 DEF Conserved
<1>14. Conserved'
  BY <1>13 DEF Conserved
<1> QED
  BY <1>6, <1>12, <1>14

(* A call leaves a queue, for a request or cancelled; c keeps its permit   *)
(* in the first case, and gives it back in the second if it has one.       *)
LEMMA DepartInv ==
    ASSUME LimiterInv, NEW c \in Calls, pc[c] = "queued",
           NEW label \in {"request", "cancelled"}, NEW returned \in {0, 1},
           Depart(c, returned), Goto(c, label),
           returned + (IF label = "request" THEN 1 ELSE 0) = IF c \in woken THEN 1 ELSE 0
    PROVE  LimiterInv'
<1> USE DEF LimiterInv
<1> DEFINE s == SlotOf(c)
           q == waiters[s]
           k == CHOOSE i \in DOMAIN q : q[i] = c
           others == RemoveAt(q, k)
           free == value[s] + returned
           next == Wakes(others, free)
<1>1. s \in Slots /\ q \in Seq(Calls) /\ Len(q) \in Nat /\ DOMAIN q = 1 .. Len(q) /\ free \in Nat
  BY SlotsType DEF Typed
<1>2. k \in 1 .. Len(q) /\ q[k] = c
  BY <1>1 DEF QueuesOK
<1>3. /\ value' = [value EXCEPT ![s] = free - Cardinality(next)]
      /\ waiters' = [waiters EXCEPT ![s] = others]
      /\ woken' = (woken \ {c}) \cup next
  BY DEF Depart
<1>4. /\ pc' \in [Calls -> Labels]
      /\ pc'[c] = label
      /\ \A d \in Calls \ {c} : pc'[d] = pc[d]
  BY DEF Goto, Typed, Labels, Ended
<1>5. /\ others \in Seq(Calls)
      /\ Len(others) = Len(q) - 1
      /\ \A i \in 1 .. Len(q) - 1 : others[i] = IF i < k THEN q[i] ELSE q[i + 1]
  <2> HIDE DEF k
  <2> QED
    BY <1>1, <1>2, RemoveAtFacts
<1>6. /\ \A d \in next : d \notin woken /\ \E i \in 1 .. Len(others) : others[i] = d
      /\ IsFiniteSet(next)
      /\ Cardinality(next) \in 0 .. free
  <2> HIDE DEF others, free
  <2> QED
    BY <1>1, <1>5, WakesFacts
<1>7. \A i, j \in 1 .. Len(q) : q[i] = q[j] => i = j
  BY <1>1 DEF QueuesOK
<1>8. \A i \in 1 .. Len(q) : q[i] \in Calls /\ SlotOf(q[i]) = s /\ pc[q[i]] = "queued"
  BY <1>1 DEF QueuesOK
<1> HIDE DEF k, others, free, next
<1>9. \A i \in 1 .. Len(others) : others[i] \in Calls \ {c} /\ SlotOf(others[i]) = s /\ pc[others[i]] = "queued"
  <2>1. TAKE i \in 1 .. Len(others)
  <2>2. CASE i < k
    <3>1. i \in 1 .. Len(q) /\ others[i] = q[i] /\ i # k
      BY <1>1, <1>2, <1>5, <2>2
    <3> QED
      BY <1>2, <1>7, <1>8, <3>1
  <2>3. CASE ~(i < k)
    <3>1. i \in 1 .. Len(q) - 1
      BY <1>5
    <3>2. others[i] = q[i + 1]
      BY <1>5, <2>3, <3>1
    <3>3. i + 1 \in 1 .. Len(q) /\ i + 1 # k
      BY <1>1, <1>2, <2>3, <3>1
    <3> QED
      BY <1>2, <1>7, <1>8, <3>2, <3>3
  <2> QED
    BY <2>2, <2>3
<1>10. \A i, j \in 1 .. Len(others) : others[i] = others[j] => i = j
  <2>1. TAKE i, j \in 1 .. Len(others)
  <2> DEFINE place(n) == IF n < k THEN n ELSE n + 1
  <2>2. /\ place(i) \in 1 .. Len(q) /\ others[i] = q[place(i)]
        /\ place(j) \in 1 .. Len(q) /\ others[j] = q[place(j)]
    BY <1>1, <1>2, <1>5
  <2>3. place(i) = place(j) => i = j
    BY <1>1, <1>2, <1>5
  <2> HIDE DEF place
  <2> QED
    BY <1>7, <2>2, <2>3
<1>11. \A i \in 1 .. Len(q) : i # k => \E j \in 1 .. Len(others) : others[j] = q[i]
  <2>1. TAKE i \in 1 .. Len(q)
  <2>2. CASE i < k
    <3>1. i \in 1 .. Len(others) /\ others[i] = q[i]
      BY <1>1, <1>2, <1>5, <2>2
    <3> QED
      BY <3>1
  <2>3. CASE i > k
    <3>1. i - 1 \in 1 .. Len(others) /\ others[i - 1] = q[i]
      BY <1>1, <1>2, <1>5, <2>3
    <3> QED
      BY <3>1
  <2> QED
    BY <1>1, <1>2, <2>2, <2>3
<1>12. /\ waiters' \in [Slots -> Seq(Calls)]
       /\ waiters'[s] = others
       /\ \A t \in Slots \ {s} : waiters'[t] = waiters[t]
  BY <1>1, <1>3, <1>5 DEF Typed
<1>13. next \subseteq Calls \ {c}
  BY <1>6, <1>9
<1>14. /\ value' \in [Slots -> Nat]
       /\ value'[s] = free - Cardinality(next)
       /\ \A t \in Slots \ {s} : value'[t] = value[t]
  <2>1. free - Cardinality(next) \in Nat
    BY <1>1, <1>6
  <2> QED
    BY <1>1, <1>3, <2>1 DEF Typed
<1>15. Typed'
  BY <1>3, <1>4, <1>12, <1>13, <1>14 DEF Typed
<1>16. ASSUME NEW t \in Slots
       PROVE  /\ \A i \in 1 .. Len(waiters'[t]) :
                    SlotOf(waiters'[t][i]) = t /\ pc'[waiters'[t][i]] = "queued"
              /\ \A i, j \in 1 .. Len(waiters'[t]) : waiters'[t][i] = waiters'[t][j] => i = j
  <2>1. CASE t = s
    BY <1>4, <1>9, <1>10, <1>12, <2>1
  <2>2. CASE t # s
    <3>1. \A i \in 1 .. Len(waiters[t]) :
             waiters[t][i] \in Calls /\ SlotOf(waiters[t][i]) = t /\ pc[waiters[t][i]] = "queued"
      BY DEF Typed, QueuesOK
    <3>2. \A i \in 1 .. Len(waiters[t]) : waiters[t][i] # c
      BY <2>2, <3>1
    <3>3. \A i, j \in 1 .. Len(waiters[t]) : waiters[t][i] = waiters[t][j] => i = j
      BY DEF QueuesOK
    <3>4. waiters'[t] = waiters[t]
      BY <1>12, <2>2
    <3>5. \A i \in 1 .. Len(waiters[t]) : pc'[waiters[t][i]] = "queued"
      BY <1>4, <3>1, <3>2
    <3> QED
      BY <3>1, <3>3, <3>4, <3>5
  <2> QED
    BY <2>1, <2>2
<1>17. ASSUME NEW d \in Calls, pc'[d] = "queued"
       PROVE  \E i \in 1 .. Len(waiters'[SlotOf(d)]) : waiters'[SlotOf(d)][i] = d
  <2>1. d # c /\ pc[d] = "queued"
    BY <1>4, <1>17
  <2>2. PICK i \in 1 .. Len(waiters[SlotOf(d)]) : waiters[SlotOf(d)][i] = d
    BY <2>1 DEF QueuesOK
  <2>3. CASE SlotOf(d) = s
    <3>1. i \in 1 .. Len(q) /\ q[i] = d /\ i # k
      BY <1>2, <2>1, <2>2, <2>3
    <3>2. \E j \in 1 .. Len(others) : others[j] = d
      BY <1>11, <3>1
    <3> QED
      BY <1>12, <2>3, <3>2
  <2>4. CASE SlotOf(d) # s
    BY <1>12, <2>2, <2>4, SlotsType
  <2> QED
    BY <2>3, <2>4
<1>18. \A d \in woken' : pc'[d] = "queued"
  <2>1. \A d \in next : pc[d] = "queued" /\ d # c
    BY <1>6, <1>9
  <2>2. \A d \in woken \ {c} : d \in Calls /\ pc[d] = "queued"
    BY DEF QueuesOK, Typed
  <2> QED
    BY <1>3, <1>4, <1>13, <2>1, <2>2
<1>19. QueuesOK'
  BY <1>16, <1>17, <1>18 DEF QueuesOK
<1>20. ASSUME NEW t \in Slots
       PROVE  value'[t] + Cardinality(Requests(t)') + Cardinality(Given(t)') = PerHostLimit
  <2> DEFINE R == Cardinality(Requests(t))
             G == Cardinality(Given(t))
             held == IF c \in woken THEN 1 ELSE 0
             new == IF label = "request" THEN 1 ELSE 0
  <2>1. /\ R \in Nat /\ G \in Nat /\ IsFiniteSet(Given(t))
        /\ value[t] \in Nat /\ value[t] + R + G = PerHostLimit
    BY CountsType DEF Conserved, Typed
  <2>2. CASE t = s
    <3>1. Cardinality(Requests(t)') = R + new
      <4>1. CASE label = "request"
        BY <2>2, <4>1, RequestsCount
      <4>2. CASE label # "request"
        <5>1. Cardinality(Requests(t)') = R - 0
          BY <4>2, RequestsCount
        <5> QED
          BY <2>1, <4>2, <5>1
      <4> QED
        BY <4>1, <4>2
    <3>2. Given(t)' = (Given(t) \ {c}) \cup next
      BY <1>3, <1>6, <1>9, <2>2 DEF Given
    <3>3. c \in Given(t) <=> c \in woken
      BY <2>2 DEF Given
    <3>4. IsFiniteSet(Given(t) \ {c}) /\ Cardinality(Given(t) \ {c}) = G - held
      <4>1. /\ IsFiniteSet(Given(t) \ {c})
            /\ Cardinality(Given(t) \ {c}) = IF c \in Given(t) THEN G - 1 ELSE G
        BY <2>1, FS_RemoveElement
      <4>2. CASE c \in woken
        BY <3>3, <4>1, <4>2
      <4>3. CASE c \notin woken
        BY <2>1, <3>3, <4>1, <4>3
      <4> QED
        BY <4>2, <4>3
    <3>5. (Given(t) \ {c}) \cap next = {}
      BY <1>6 DEF Given
    <3>6. Cardinality((Given(t) \ {c}) \cup next)
             = Cardinality(Given(t) \ {c}) + Cardinality(next) - Cardinality({})
      BY <1>6, <3>4, <3>5, FS_Union
    <3>7. Cardinality(Given(t)') = (G - held) + Cardinality(next) - 0
      BY <3>2, <3>4, <3>6, FS_EmptySet
    <3>8. value'[t] = (value[t] + returned) - Cardinality(next) /\ Cardinality(next) \in Nat
      BY <1>1, <1>6, <1>14, <2>2 DEF free
    <3>9. returned + new = held /\ returned \in Nat /\ new \in Nat /\ held \in Nat
      OBVIOUS
    <3> HIDE DEF R, G, held, new
    <3> QED
      BY <2>1, <3>1, <3>7, <3>8, <3>9
  <2>3. CASE t # s
    <3>1. Cardinality(Requests(t)') = R
      <4>1. CASE label = "request"
        <5>1. Cardinality(Requests(t)') = R + 0
          BY <2>3, <4>1, RequestsCount
        <5> QED
          BY <2>1, <5>1
      <4>2. CASE label # "request"
        <5>1. Cardinality(Requests(t)') = R - 0
          BY <4>2, RequestsCount
        <5> QED
          BY <2>1, <5>1
      <4> QED
        BY <4>1, <4>2
    <3>2. Given(t)' = Given(t)
      BY <1>3, <1>6, <1>9, <2>3 DEF Given
    <3> QED
      BY <1>14, <2>1, <2>3, <3>1, <3>2
  <2> QED
    BY <2>2, <2>3
<1>21. Conserved'
  BY <1>20 DEF Conserved
<1> QED
  BY <1>15, <1>19, <1>21

(* A call leaves its request, by whatever way.                             *)
LEMMA ReleaseInv ==
    ASSUME LimiterInv, NEW c \in Calls, pc[c] = "request",
           NEW label \in Labels \ {"request", "queued"},
           Release(c), Goto(c, label)
    PROVE  LimiterInv'
<1> USE DEF LimiterInv
<1> DEFINE s == SlotOf(c)
           next == Wakes(waiters[s], 1)
<1>1. s \in Slots /\ waiters[s] \in Seq(Calls) /\ value[s] \in Nat
  BY SlotsType DEF Typed
<1>2. /\ value' = [value EXCEPT ![s] = @ + 1 - Cardinality(next)]
      /\ woken' = woken \cup next
      /\ UNCHANGED waiters
  BY DEF Release
<1>3. /\ pc' \in [Calls -> Labels]
      /\ \A d \in Calls : pc[d] = "queued" <=> pc'[d] = "queued"
  BY DEF Goto, Typed
<1>4. /\ \A d \in next : d \notin woken /\ \E i \in 1 .. Len(waiters[s]) : waiters[s][i] = d
      /\ IsFiniteSet(next)
      /\ Cardinality(next) \in 0 .. 1
  BY <1>1, WakesFacts
<1>5. \A t \in Slots : \A i \in 1 .. Len(waiters[t]) :
         waiters[t][i] \in Calls /\ SlotOf(waiters[t][i]) = t /\ pc[waiters[t][i]] = "queued"
  BY DEF Typed, QueuesOK
<1> HIDE DEF next
<1>6. \A d \in next : d \in Calls /\ SlotOf(d) = s /\ pc[d] = "queued"
  BY <1>1, <1>4, <1>5
<1>7. /\ value' \in [Slots -> Nat]
      /\ value'[s] = value[s] + 1 - Cardinality(next)
      /\ \A t \in Slots \ {s} : value'[t] = value[t]
  <2>1. value[s] + 1 - Cardinality(next) \in Nat
    BY <1>1, <1>4
  <2> QED
    BY <1>1, <1>2, <2>1 DEF Typed
<1>8. Typed'
  BY <1>2, <1>3, <1>6, <1>7 DEF Typed
<1>9. QueuesOK'
  <2>1. \A d \in woken' : d \in Calls /\ pc[d] = "queued"
    BY <1>2, <1>6 DEF QueuesOK, Typed
  <2>2. \A d \in woken' : pc'[d] = "queued"
    BY <1>3, <2>1
  <2>3. \A t \in Slots : \A i \in 1 .. Len(waiters[t]) : pc'[waiters[t][i]] = "queued"
    BY <1>3, <1>5
  <2> QED
    BY <1>2, <1>3, <1>5, <2>2, <2>3 DEF QueuesOK
<1>10. ASSUME NEW t \in Slots
       PROVE  value'[t] + Cardinality(Requests(t)') + Cardinality(Given(t)') = PerHostLimit
  <2> DEFINE R == Cardinality(Requests(t))
             G == Cardinality(Given(t))
  <2>1. /\ R \in Nat /\ G \in Nat /\ IsFiniteSet(Given(t))
        /\ value[t] \in Nat /\ value[t] + R + G = PerHostLimit
    BY CountsType DEF Conserved, Typed
  <2>2. Cardinality(Requests(t)') = R - (IF s = t THEN 1 ELSE 0)
    BY RequestsCount
  <2>3. CASE t = s
    <3>1. Given(t)' = Given(t) \cup next
      BY <1>2, <1>6, <2>3 DEF Given
    <3>2. Given(t) \cap next = {}
      BY <1>4 DEF Given
    <3>3. Cardinality(Given(t) \cup next) = G + Cardinality(next) - Cardinality({})
      BY <1>4, <2>1, <3>2, FS_Union
    <3>4. Cardinality(Given(t)') = G + Cardinality(next) - 0
      BY <3>1, <3>3, FS_EmptySet
    <3>5. Cardinality(Requests(t)') = R - 1
      BY <2>2, <2>3
    <3>6. value'[t] = value[t] + 1 - Cardinality(next) /\ Cardinality(next) \in Nat
      BY <1>4, <1>7, <2>3
    <3> HIDE DEF R, G
    <3> QED
      BY <2>1, <3>4, <3>5, <3>6
  <2>4. CASE t # s
    <3>1. Given(t)' = Given(t)
      BY <1>2, <1>6, <2>4 DEF Given
    <3>2. Cardinality(Requests(t)') = R - 0
      BY <2>2, <2>4
    <3> QED
      BY <1>7, <2>1, <2>4, <3>1, <3>2
  <2> QED
    BY <2>3, <2>4
<1>11. Conserved'
  BY <1>10 DEF Conserved
<1> QED
  BY <1>8, <1>9, <1>11

(* A call that neither waits nor is in a request gives up.                 *)
LEMMA IdleInv ==
    ASSUME LimiterInv, NEW c \in Calls, pc[c] \in {"idle", "sleep"},
           NEW label \in {"failed", "cancelled"},
           UNCHANGED limitervars, Goto(c, label)
    PROVE  LimiterInv'
<1> USE DEF LimiterInv
<1>1. UNCHANGED <<value, waiters, woken>>
  BY DEF limitervars
<1>2. /\ pc' \in [Calls -> Labels]
      /\ \A d \in Calls : pc[d] = "queued" <=> pc'[d] = "queued"
  BY DEF Goto, Typed, Labels, Ended
<1>3. Typed'
  BY <1>1, <1>2 DEF Typed
<1>4. QueuesOK'
  <2>1. \A t \in Slots : \A i \in 1 .. Len(waiters[t]) : waiters[t][i] \in Calls
    BY DEF Typed
  <2> QED
    BY <1>1, <1>2, <2>1 DEF QueuesOK, Typed
<1>5. ASSUME NEW t \in Slots
      PROVE  value'[t] + Cardinality(Requests(t)') + Cardinality(Given(t)') = PerHostLimit
  <2>1. Cardinality(Requests(t)') = Cardinality(Requests(t)) - 0
    BY RequestsCount
  <2>2. Given(t)' = Given(t)
    BY <1>1 DEF Given
  <2>3. Cardinality(Requests(t)) \in Nat
    BY CountsType
  <2> QED
    BY <1>1, <2>1, <2>2, <2>3 DEF Conserved
<1>6. Conserved'
  BY <1>5 DEF Conserved
<1> QED
  BY <1>3, <1>4, <1>6
-----------------------------------------------------------------------------
(* The invariant                                                           *)

LEMMA AllowedType == \A c \in Calls : AttemptsAllowed(c) \in Int
  BY HttpFetcherAssumption DEF AttemptsAllowed

LEMMA InitInv == Init => Inv
<1> SUFFICES ASSUME Init PROVE Inv
  OBVIOUS
<1> USE DEF Init, LimiterInit
<1>1. Typed
  BY PerHostLimitAssumption DEF Typed, Labels
<1>2. QueuesOK
  <2>1. \A s \in Slots : Len(waiters[s]) = 0
    OBVIOUS
  <2> QED
    BY <2>1 DEF QueuesOK
<1>3. Conserved
  <2>1. \A s : Requests(s) = {} /\ Given(s) = {}
    BY DEF Requests, Given
  <2>2. \A s \in Slots : value[s] = PerHostLimit
    OBVIOUS
  <2> QED
    <3> SUFFICES ASSUME NEW s \in Slots
                 PROVE  value[s] + Cardinality(Requests(s)) + Cardinality(Given(s)) = PerHostLimit
      BY DEF Conserved
    <3>1. Cardinality(Requests(s)) = 0 /\ Cardinality(Given(s)) = 0
      BY <2>1, FS_EmptySet
    <3> QED
      BY <2>2, <3>1, PerHostLimitAssumption
<1>4. AttemptsOK
  BY DEF AttemptsOK
<1> QED
  BY <1>1, <1>2, <1>3, <1>4 DEF Inv, LimiterInv

(* Each way a call moves on keeps its number of attempts right.            *)
LEMMA AttemptsMove ==
    ASSUME Typed, AttemptsOK, NEW c \in Calls, NEW label \in Labels \ {"idle"}, Goto(c, label),
           NEW n \in Nat, attempt' = [attempt EXCEPT ![c] = n],
           /\ label \in {"queued", "request"} => n \in 1 .. AttemptsAllowed(c)
           /\ label = "sleep" => n + 1 \in 1 .. AttemptsAllowed(c)
           /\ n = 0 \/ n <= AttemptsAllowed(c)
    PROVE  AttemptsOK'
<1>1. /\ attempt' \in [Calls -> Nat] /\ attempt'[c] = n
      /\ \A d \in Calls \ {c} : attempt'[d] = attempt[d]
  BY DEF AttemptsOK
<1>2. pc'[c] = label /\ \A d \in Calls \ {c} : pc'[d] = pc[d]
  BY DEF Goto, Typed
<1>3. ASSUME NEW d \in Calls
      PROVE  /\ pc'[d] = "idle" => attempt'[d] = 0
             /\ pc'[d] \in {"queued", "request"} => attempt'[d] \in 1 .. AttemptsAllowed(d)
             /\ pc'[d] = "sleep" => attempt'[d] + 1 \in 1 .. AttemptsAllowed(d)
             /\ attempt'[d] = 0 \/ attempt'[d] <= AttemptsAllowed(d)
  BY <1>1, <1>2 DEF AttemptsOK
<1> QED
  BY <1>1, <1>3 DEF AttemptsOK, AttemptsAllowed

(* A call that is queued or requests does so at an attempt it is allowed.  *)
LEMMA AttemptBegins ==
    ASSUME Typed, AttemptsOK, NEW c \in Calls, NEW label \in {"queued", "request"}, Goto(c, label),
           NEW n \in 1 .. AttemptsAllowed(c), AttemptsAllowed(c) \in Int,
           attempt' = [attempt EXCEPT ![c] = n]
    PROVE  AttemptsOK'
<1>1. n \in Nat /\ n <= AttemptsAllowed(c)
  OBVIOUS
<1>2. label \in Labels \ {"idle"} /\ label # "sleep"
  BY DEF Labels
<1> QED
  BY <1>1, <1>2, AttemptsMove

LEMMA StepInv ==
    ASSUME Inv, NEW c \in Calls, Start(c) \/ NoAttempts(c) \/ Step(c) \/ Cancel(c)
    PROVE  Inv'
<1> USE DEF Inv
<1>1. /\ Typed /\ AttemptsOK /\ attempt[c] \in Nat /\ AttemptsAllowed(c) \in Int
      /\ UNCHANGED attempt => attempt' = [attempt EXCEPT ![c] = attempt[c]]
  BY AllowedType DEF LimiterInv, AttemptsOK
<1>2. CASE Start(c)
  <2>1. /\ pc[c] = "idle" /\ 1 \in 1 .. AttemptsAllowed(c) /\ 1 <= AttemptsAllowed(c)
        /\ attempt' = [attempt EXCEPT ![c] = 1]
    BY <1>1, <1>2 DEF Start
  <2>2. CASE Take(c) /\ Goto(c, "request")
    <3>1. LimiterInv'
      BY <2>1, <2>2, TakeInv
    <3>2. AttemptsOK'
      BY <1>1, <2>1, <2>2, AttemptBegins
    <3> QED
      BY <3>1, <3>2
  <2>3. CASE Queue(c) /\ Goto(c, "queued")
    <3>1. LimiterInv'
      BY <2>1, <2>3, QueueInv
    <3>2. AttemptsOK'
      BY <1>1, <2>1, <2>3, AttemptBegins
    <3> QED
      BY <3>1, <3>2
  <2> QED
    BY <1>2, <2>2, <2>3 DEF Start, Enter
<1>3. CASE NoAttempts(c)
  <2>1. pc[c] = "idle" /\ attempt[c] = 0 /\ UNCHANGED attempt /\ Goto(c, "failed") /\ UNCHANGED limitervars
    BY <1>3 DEF NoAttempts, AttemptsOK
  <2> QED
    BY <1>1, <2>1, IdleInv, AttemptsMove DEF Labels, Ended
<1>4. CASE Admitted(c)
  <2>1. /\ pc[c] = "queued" /\ c \in woken /\ Depart(c, 0) /\ Goto(c, "request")
        /\ UNCHANGED attempt /\ attempt[c] \in 1 .. AttemptsAllowed(c)
    BY <1>4 DEF Admitted, AttemptsOK
  <2>2. LimiterInv'
    BY <2>1, DepartInv
  <2>3. AttemptsOK'
    BY <1>1, <2>1, AttemptsMove DEF Labels
  <2> QED
    BY <2>2, <2>3
<1>5. ASSUME pc[c] = "request", Released(c), UNCHANGED attempt,
             NEW label \in Ended, Goto(c, label)
      PROVE  Inv'
  <2>1. label \in Labels \ {"request", "queued"} /\ label \in Labels \ {"idle"} /\ label # "sleep"
    BY DEF Labels, Ended
  <2>2. LimiterInv'
    BY <1>5, <2>1, ReleaseInv DEF Released
  <2>3. attempt[c] <= AttemptsAllowed(c)
    BY <1>1, <1>5 DEF AttemptsOK
  <2>4. AttemptsOK'
    BY <1>1, <1>5, <2>1, <2>3, AttemptsMove
  <2> QED
    BY <2>2, <2>4
<1>6. CASE Respond(c) \/ RequestRaises(c)
  BY <1>5, <1>6 DEF Respond, RequestRaises, Ended
<1>7. CASE AttemptFails(c)
  <2>1. CASE GivesUp(c)
    BY <1>5, <1>7, <2>1 DEF AttemptFails, Ended
  <2>2. CASE ~GivesUp(c)
    <3>1. pc[c] = "request" /\ Released(c) /\ Goto(c, "sleep") /\ UNCHANGED attempt
      BY <1>7, <2>2 DEF AttemptFails
    <3>2. attempt[c] \in 1 .. AttemptsAllowed(c) /\ attempt[c] # AttemptsAllowed(c)
      BY <2>2, <3>1 DEF AttemptsOK, GivesUp
    <3>3. attempt[c] + 1 \in 1 .. AttemptsAllowed(c) /\ attempt[c] <= AttemptsAllowed(c)
      BY <1>1, <3>2
    <3>4. LimiterInv'
      BY <3>1, ReleaseInv DEF Released, Labels
    <3>5. AttemptsOK'
      BY <1>1, <3>1, <3>3, AttemptsMove DEF Labels
    <3> QED
      BY <3>4, <3>5
  <2> QED
    BY <2>1, <2>2
<1>8. CASE Retry(c)
  <2>1. /\ pc[c] = "sleep" /\ attempt[c] + 1 \in 1 .. AttemptsAllowed(c)
        /\ attempt' = [attempt EXCEPT ![c] = attempt[c] + 1]
    BY <1>8 DEF Retry, AttemptsOK
  <2>2. attempt[c] + 1 \in Nat /\ attempt[c] + 1 <= AttemptsAllowed(c)
    BY <1>1, <2>1
  <2>3. CASE Take(c) /\ Goto(c, "request")
    <3>1. LimiterInv'
      BY <2>1, <2>2, <2>3, TakeInv
    <3>2. AttemptsOK'
      BY <1>1, <2>1, <2>2, <2>3, AttemptBegins
    <3> QED
      BY <3>1, <3>2
  <2>4. CASE Queue(c) /\ Goto(c, "queued")
    <3>1. LimiterInv'
      BY <2>1, <2>2, <2>4, QueueInv
    <3>2. AttemptsOK'
      BY <1>1, <2>1, <2>2, <2>4, AttemptBegins
    <3> QED
      BY <3>1, <3>2
  <2> QED
    BY <1>8, <2>3, <2>4 DEF Retry, Enter
<1>9. CASE Cancel(c)
  <2>1. UNCHANGED attempt /\ Goto(c, "cancelled")
    BY <1>9 DEF Cancel
  <2>2. attempt[c] = 0 \/ attempt[c] <= AttemptsAllowed(c)
    BY DEF AttemptsOK
  <2>3. AttemptsOK'
    BY <1>1, <2>1, <2>2, AttemptsMove DEF Labels, Ended
  <2>4. CASE pc[c] = "queued" /\ Depart(c, IF c \in woken THEN 1 ELSE 0)
    <3>1. CASE c \in woken
      <4>1. Depart(c, 1)
        BY <2>4, <3>1
      <4> QED
        BY <2>1, <2>3, <2>4, <3>1, <4>1, DepartInv
    <3>2. CASE c \notin woken
      <4>1. Depart(c, 0)
        BY <2>4, <3>2
      <4> QED
        BY <2>1, <2>3, <2>4, <3>2, <4>1, DepartInv
    <3> QED
      BY <3>1, <3>2
  <2>5. CASE pc[c] = "request" /\ Released(c)
    BY <1>5, <2>1, <2>5 DEF Ended
  <2>6. CASE pc[c] = "sleep" /\ UNCHANGED limitervars
    BY <2>1, <2>3, <2>6, IdleInv
  <2> QED
    BY <1>9, <2>4, <2>5, <2>6 DEF Cancel
<1> QED
  BY <1>2, <1>3, <1>4, <1>6, <1>7, <1>8, <1>9 DEF Step

LEMMA StutterInv == Inv /\ UNCHANGED vars => Inv'
  BY DEF Inv, LimiterInv, Typed, QueuesOK, Conserved, Requests, Given, AttemptsOK,
         AttemptsAllowed, vars, limitervars

LEMMA Invariance == Spec => []Inv
<1>1. Inv /\ [Next]_vars => Inv'
  BY StepInv, StutterInv DEF Next
<1> QED
  BY InitInv, <1>1, PTL DEF Spec
-----------------------------------------------------------------------------
(* Theorems                                                                *)

(* No permit is lost or made up, however many calls, hosts and retries.    *)
THEOREM PermitsAreConserved == Spec => []PermitsConserved
<1>1. Inv => PermitsConserved
  BY DEF Inv, LimiterInv, Conserved, Requests, Given, PermitsConserved
<1> QED
  BY <1>1, Invariance, PTL

(* Every variable has its type: a semaphore never has more free permits    *)
(* than its limit, and no call makes more attempts than it is allowed.     *)
THEOREM FetcherTypes == Spec => []TypeOK
<1>1. Inv => TypeOK
  <2> SUFFICES ASSUME Inv PROVE TypeOK
    OBVIOUS
  <2>1. ASSUME NEW s \in Slots
        PROVE  value[s] \in 0 .. PerHostLimit
    <3>1. Cardinality(Requests(s)) \in Nat /\ Cardinality(Given(s)) \in Nat
      BY CountsType DEF Inv, LimiterInv
    <3>2. /\ value[s] \in Nat
          /\ value[s] + Cardinality(Requests(s)) + Cardinality(Given(s)) = PerHostLimit
      BY DEF Inv, LimiterInv, Typed, Conserved
    <3> QED
      BY <3>1, <3>2
  <2>2. value \in [Slots -> 0 .. PerHostLimit]
    BY <2>1 DEF Inv, LimiterInv, Typed
  <2>3. ASSUME NEW c \in Calls
        PROVE  attempt[c] \in 0 .. IF AttemptsAllowed(c) < 1 THEN 0 ELSE AttemptsAllowed(c)
    <3>1. attempt[c] \in Nat /\ (attempt[c] = 0 \/ attempt[c] <= AttemptsAllowed(c))
      BY DEF Inv, AttemptsOK
    <3> QED
      BY <3>1, AllowedType
  <2> QED
    BY <2>2, <2>3 DEF Inv, LimiterInv, Typed, Labels, TypeOK
<1> QED
  BY <1>1, Invariance, PTL

(* When the calls to a host share a limiter, as they do within a fetcher,  *)
(* the host never sees more than per_host_limit requests at a time.        *)
THEOREM HostsAreBounded ==
    ASSUME \A c, d \in Calls : HostOf[c] = HostOf[d] => LimiterOf[c] = LimiterOf[d]
    PROVE  Spec => []PerHostBound
<1>1. Inv => PerHostBound
  <2> SUFFICES ASSUME Inv, NEW c \in Calls
               PROVE  Cardinality({d \in Calls : HostOf[d] = HostOf[c] /\ pc[d] = "request"})
                         <= PerHostLimit
    BY DEF PerHostBound
  <2> DEFINE s == SlotOf(c)
  <2>1. {d \in Calls : HostOf[d] = HostOf[c] /\ pc[d] = "request"} = Requests(s)
    BY DEF Requests, SlotOf
  <2>2. s \in Slots /\ Cardinality(Requests(s)) \in Nat /\ Cardinality(Given(s)) \in Nat
    BY SlotsType, CountsType DEF Inv, LimiterInv
  <2>3. value[s] \in Nat /\ value[s] + Cardinality(Requests(s)) + Cardinality(Given(s)) = PerHostLimit
    BY <2>2 DEF Inv, LimiterInv, Typed, Conserved
  <2>4. Cardinality(Requests(s)) <= PerHostLimit
    BY <2>2, <2>3
  <2> QED
    BY <2>1, <2>4
<1> QED
  BY <1>1, Invariance, PTL
=============================================================================
