-------------------------- MODULE EventFlagProofs --------------------------
(***************************************************************************)
(* Theorems about EventFlag, for any set of threads, bits and requests.    *)
(*                                                                         *)
(* The inductive invariant IndInv adds to the properties what they rest    *)
(* on: who holds the mutex, how far the loop of Set has come, what the     *)
(* flags of a sleeper say about the bits taken for it, and that the thread *)
(* that runs the destructor is alone in it.                                *)
(***************************************************************************)
EXTENDS EventFlag, SequenceTheorems, TLAPS

-----------------------------------------------------------------------------
(* The wait list is a std::list in the code and a sequence here: what RemoveAt and InsertAt    *)
(* return, index by index, and who is in the list after them.                                  *)

\* list.erase(it): the elements behind the erased one move up by one.
LEMMA RemoveAtFacts ==
    ASSUME NEW S, NEW s \in Seq(S), NEW i \in 1..Len(s)
    PROVE  /\ RemoveAt(s, i) \in Seq(S)
           /\ Len(RemoveAt(s, i)) = Len(s) - 1
           /\ \A j \in 1..(Len(s) - 1) :
                 RemoveAt(s, i)[j] = IF j < i THEN s[j] ELSE s[j + 1]
  <1> DEFINE a == SubSeq(s, 1, i - 1)
             b == SubSeq(s, i + 1, Len(s))
  <1>1. a \in Seq(S) /\ Len(a) = i - 1 /\ \A j \in 1..(i - 1) : a[j] = s[j]
    OBVIOUS
  <1>2. b \in Seq(S) /\ Len(b) = Len(s) - i /\ \A j \in 1..(Len(s) - i) : b[j] = s[j + i]
    OBVIOUS
  <1>3. RemoveAt(s, i) = a \o b
    BY DEF RemoveAt
  <1> HIDE DEF a, b
  <1>4. a \o b \in Seq(S) /\ Len(a \o b) = Len(s) - 1
    <2>1. a \o b \in Seq(S) /\ Len(a \o b) = Len(a) + Len(b)
      BY <1>1, <1>2, ConcatProperties, Zenon
    <2> QED
      BY <1>1, <1>2, <2>1
  <1>5. ASSUME NEW j \in 1..(Len(s) - 1)
        PROVE  (a \o b)[j] = IF j < i THEN s[j] ELSE s[j + 1]
    <2>1. CASE j < i
      BY <1>1, <1>2, <2>1
    <2>2. CASE ~(j < i)
      <3>1. (a \o b)[j] = b[j - (i - 1)]
        BY <1>1, <1>2, <2>2
      <3>2. b[j - (i - 1)] = s[j + 1]
        BY <1>2, <2>2
      <3> QED
        BY <2>2, <3>1, <3>2
    <2> QED
      BY <2>1, <2>2
  <1> QED
    BY <1>3, <1>4, <1>5

\* list.insert(it, x): the elements from position i on move down by one.
LEMMA InsertAtFacts ==
    ASSUME NEW S, NEW s \in Seq(S), NEW x \in S, NEW i \in 1..(Len(s) + 1)
    PROVE  /\ InsertAt(s, i, x) \in Seq(S)
           /\ Len(InsertAt(s, i, x)) = Len(s) + 1
           /\ \A j \in 1..(Len(s) + 1) :
                 InsertAt(s, i, x)[j] = IF j < i THEN s[j] ELSE IF j = i THEN x ELSE s[j - 1]
  <1> DEFINE a == SubSeq(s, 1, i - 1)
             b == SubSeq(s, i, Len(s))
  <1>1. a \in Seq(S) /\ Len(a) = i - 1 /\ \A j \in 1..(i - 1) : a[j] = s[j]
    OBVIOUS
  <1>2. b \in Seq(S) /\ Len(b) = Len(s) - i + 1
          /\ \A j \in 1..(Len(s) - i + 1) : b[j] = s[j + i - 1]
    OBVIOUS
  <1> DEFINE c == a \o <<x>>
  <1>3. InsertAt(s, i, x) = c \o b
    BY DEF InsertAt
  <1>4. c \in Seq(S) /\ Len(c) = i /\ \A j \in 1..i : c[j] = IF j < i THEN s[j] ELSE x
    <2> HIDE DEF a
    <2> QED
      BY <1>1
  <1> HIDE DEF a, b, c
  <1>5. c \o b \in Seq(S) /\ Len(c \o b) = Len(s) + 1
    <2>1. c \o b \in Seq(S) /\ Len(c \o b) = Len(c) + Len(b)
      BY <1>4, <1>2, ConcatProperties, Zenon
    <2> QED
      BY <1>2, <1>4, <2>1
  <1>6. ASSUME NEW j \in 1..(Len(s) + 1)
        PROVE  (c \o b)[j] = IF j < i THEN s[j] ELSE IF j = i THEN x ELSE s[j - 1]
    <2>1. CASE j <= i
      BY <1>4, <1>2, <2>1
    <2>2. CASE ~(j <= i)
      <3>1. (c \o b)[j] = b[j - i]
        BY <1>4, <1>2, <2>2
      <3>2. b[j - i] = s[j - 1]
        BY <1>2, <2>2
      <3> QED
        BY <2>2, <3>1, <3>2
    <2> QED
      BY <2>1, <2>2
  <1> QED
    BY <1>3, <1>5, <1>6

\* x is in the list s, and no x is in it twice.
Has(s, x) == \E j \in 1..Len(s) : s[j] = x
Distinct(s) == \A j, k \in 1..Len(s) : s[j] = s[k] => j = k

\* Who is in a list after an erase, if nobody was in it twice: everybody but the erased element.
LEMMA RemoveAtMembers ==
    ASSUME NEW S, NEW s \in Seq(S), NEW i \in 1..Len(s),
           Distinct(s)
    PROVE  /\ Distinct(RemoveAt(s, i))
           /\ \A x \in S : Has(RemoveAt(s, i), x) <=> x # s[i] /\ Has(s, x)
  <1> USE DEF Has, Distinct
  <1> DEFINE r == RemoveAt(s, i)
  <1>1. /\ Len(r) = Len(s) - 1
        /\ \A j \in 1..Len(r) : r[j] = IF j < i THEN s[j] ELSE s[j + 1]
    BY RemoveAtFacts
  <1> HIDE DEF r
  <1>2. ASSUME NEW j \in 1..Len(r), NEW k \in 1..Len(r), r[j] = r[k] PROVE j = k
    <2> DEFINE J == IF j < i THEN j ELSE j + 1
               K == IF k < i THEN k ELSE k + 1
    <2>1. J \in 1..Len(s) /\ K \in 1..Len(s) /\ s[J] = r[j] /\ s[K] = r[k]
      BY <1>1
    <2>2. J = K
      BY <1>2, <2>1
    <2> QED
      BY <2>2
  <1>3. ASSUME NEW x \in S, NEW j \in 1..Len(r), r[j] = x
        PROVE  x # s[i] /\ \E k \in 1..Len(s) : s[k] = x
    <2> DEFINE J == IF j < i THEN j ELSE j + 1
    <2>1. J \in 1..Len(s) /\ s[J] = x /\ J # i
      BY <1>1, <1>3
    <2> QED
      BY <2>1
  <1>4. ASSUME NEW x \in S, x # s[i], NEW k \in 1..Len(s), s[k] = x
        PROVE  \E j \in 1..Len(r) : r[j] = x
    <2> DEFINE J == IF k < i THEN k ELSE k - 1
    <2>1. k # i
      BY <1>4
    <2>2. J \in 1..Len(r) /\ r[J] = x
      BY <1>1, <1>4, <2>1
    <2> QED
      BY <2>2
  <1> QED
    BY <1>2, <1>3, <1>4 DEF r

\* An erase leaves a list that is in descending order of its elements' keys in that order.
LEMMA RemoveAtDescending ==
    ASSUME NEW S, NEW s \in Seq(S), NEW i \in 1..Len(s), NEW key \in [S -> Int],
           \A j, k \in 1..Len(s) : j < k => key[s[j]] >= key[s[k]]
    PROVE  LET r == RemoveAt(s, i)
           IN  \A j, k \in 1..Len(r) : j < k => key[r[j]] >= key[r[k]]
  <1> DEFINE r == RemoveAt(s, i)
  <1>1. /\ Len(r) = Len(s) - 1
        /\ \A j \in 1..Len(r) : r[j] = IF j < i THEN s[j] ELSE s[j + 1]
    BY RemoveAtFacts
  <1> HIDE DEF r
  <1>2. ASSUME NEW j \in 1..Len(r), NEW k \in 1..Len(r), j < k PROVE key[r[j]] >= key[r[k]]
    <2> DEFINE J == IF j < i THEN j ELSE j + 1
               K == IF k < i THEN k ELSE k + 1
    <2>1. J \in 1..Len(s) /\ s[J] = r[j]
      BY <1>1
    <2>2. K \in 1..Len(s) /\ s[K] = r[k]
      BY <1>1
    <2>3. J < K
      BY <1>2
    <2> HIDE DEF J, K
    <2>4. key[s[J]] >= key[s[K]]
      BY <2>1, <2>2, <2>3
    <2> QED
      BY <2>1, <2>2, <2>4
  <1> QED
    BY <1>2 DEF r

\* Who is in a list after an insertion: everybody who was, and the new element.
LEMMA InsertAtMembers ==
    ASSUME NEW S, NEW s \in Seq(S), NEW x \in S, NEW i \in 1..(Len(s) + 1),
           Distinct(s), ~Has(s, x)
    PROVE  /\ Distinct(InsertAt(s, i, x))
           /\ \A y \in S : Has(InsertAt(s, i, x), y) <=> y = x \/ Has(s, y)
  <1> USE DEF Has, Distinct
  <1> DEFINE r == InsertAt(s, i, x)
  <1>1. /\ Len(r) = Len(s) + 1
        /\ \A j \in 1..Len(r) : r[j] = IF j < i THEN s[j] ELSE IF j = i THEN x ELSE s[j - 1]
    <2>1. /\ Len(InsertAt(s, i, x)) = Len(s) + 1
          /\ \A j \in 1..(Len(s) + 1) :
                InsertAt(s, i, x)[j] = IF j < i THEN s[j] ELSE IF j = i THEN x ELSE s[j - 1]
      BY InsertAtFacts, SMTT(60)
    <2> QED
      BY <2>1, SMTT(60) DEF r
  <1> HIDE DEF r
  <1>2. ASSUME NEW j \in 1..Len(r), NEW k \in 1..Len(r), r[j] = r[k] PROVE j = k
    <2>1. CASE j = i
      <3>1. r[j] = x
        BY <1>1, <2>1
      <3>2. k # i => r[k] # x
        BY <1>1
      <3> QED
        BY <1>2, <2>1, <3>1, <3>2
    <2>2. CASE k = i
      <3>1. r[k] = x
        BY <1>1, <2>2
      <3>2. j # i => r[j] # x
        BY <1>1
      <3> QED
        BY <1>2, <2>2, <3>1, <3>2
    <2>3. CASE j # i /\ k # i
      <3> DEFINE J == IF j < i THEN j ELSE j - 1
                 K == IF k < i THEN k ELSE k - 1
      <3>1. J \in 1..Len(s) /\ K \in 1..Len(s) /\ s[J] = r[j] /\ s[K] = r[k]
        BY <1>1, <2>3
      <3>2. J = K
        BY <1>2, <3>1
      <3> QED
        BY <2>3, <3>2
    <2> QED
      BY <2>1, <2>2, <2>3
  <1>3. ASSUME NEW y \in S, NEW j \in 1..Len(r), r[j] = y
        PROVE  y = x \/ \E k \in 1..Len(s) : s[k] = y
    <2> DEFINE J == IF j < i THEN j ELSE j - 1
    <2>1. j # i => J \in 1..Len(s) /\ s[J] = y
      BY <1>1, <1>3
    <2>2. j = i => y = x
      BY <1>1, <1>3
    <2> QED
      BY <2>1, <2>2
  <1>4. \E j \in 1..Len(r) : r[j] = x
    <2>1. i \in 1..Len(r) /\ r[i] = x
      BY <1>1
    <2> QED
      BY <2>1
  <1>5. ASSUME NEW y \in S, NEW k \in 1..Len(s), s[k] = y
        PROVE  \E j \in 1..Len(r) : r[j] = y
    <2> DEFINE J == IF k < i THEN k ELSE k + 1
    <2>1. J \in 1..Len(r) /\ r[J] = y
      BY <1>1, <1>5
    <2> QED
      BY <2>1
  <1> QED
    BY <1>2, <1>3, <1>4, <1>5 DEF r

\* An insertion behind the last element whose key is not smaller keeps a list in descending order.
LEMMA InsertAtDescending ==
    ASSUME NEW S, NEW s \in Seq(S), NEW x \in S, NEW i \in 1..(Len(s) + 1), NEW key \in [S -> Int],
           \A j, k \in 1..Len(s) : j < k => key[s[j]] >= key[s[k]],
           \A j \in 1..(i - 1) : key[s[j]] >= key[x],
           i <= Len(s) => key[s[i]] < key[x]
    PROVE  LET r == InsertAt(s, i, x)
           IN  \A j, k \in 1..Len(r) : j < k => key[r[j]] >= key[r[k]]
  <1> DEFINE r == InsertAt(s, i, x)
  <1>1. /\ Len(r) = Len(s) + 1
        /\ \A j \in 1..Len(r) : r[j] = IF j < i THEN s[j] ELSE IF j = i THEN x ELSE s[j - 1]
    <2>1. /\ Len(InsertAt(s, i, x)) = Len(s) + 1
          /\ \A j \in 1..(Len(s) + 1) :
                InsertAt(s, i, x)[j] = IF j < i THEN s[j] ELSE IF j = i THEN x ELSE s[j - 1]
      BY InsertAtFacts, SMTT(60)
    <2> QED
      BY <2>1, SMTT(60) DEF r
  <1> HIDE DEF r
  <1>2. ASSUME NEW k \in 1..Len(s), i <= k PROVE key[s[k]] < key[x]
    <2>1. key[s[i]] < key[x] /\ i \in 1..Len(s)
      BY <1>2
    <2>2. i < k => key[s[i]] >= key[s[k]]
      BY <2>1
    <2>3. s[i] \in S /\ s[k] \in S
      BY <2>1
    <2> QED
      BY <1>2, <2>1, <2>2, <2>3
  <1>3. ASSUME NEW j \in 1..Len(r), NEW k \in 1..Len(r), j < k PROVE key[r[j]] >= key[r[k]]
    <2>1. CASE j = i
      <3>1. r[j] = x /\ r[k] = s[k - 1] /\ k - 1 \in 1..Len(s) /\ i <= k - 1
        BY <1>1, <1>3, <2>1
      <3>2. s[k - 1] \in S
        BY <3>1
      <3> QED
        BY <1>2, <3>1, <3>2
    <2>2. CASE k = i
      <3>1. r[k] = x /\ r[j] = s[j] /\ j \in 1..(i - 1)
        BY <1>1, <1>3, <2>2
      <3> QED
        BY <3>1
    <2>3. CASE j # i /\ k # i
      <3> DEFINE J == IF j < i THEN j ELSE j - 1
                 K == IF k < i THEN k ELSE k - 1
      <3>1. J \in 1..Len(s) /\ K \in 1..Len(s) /\ J < K /\ s[J] = r[j] /\ s[K] = r[k]
        BY <1>1, <1>3, <2>3
      <3> QED
        BY <3>1
    <2> QED
      BY <2>1, <2>2, <2>3
  <1> QED
    BY <1>3 DEF r

-----------------------------------------------------------------------------

\* The thread in the loop of Set is the one that holds the mutex.
MutexInv == \A t \in Threads : pc[t] = "set" <=> mutex = t

\* NoEligibleSleeper, while Set is in its loop: for the waiters it has passed.
PassedInv ==
    \A i \in 1..Len(m_waiters) :
        (mutex = NoOne \/ i < it) /\ flags[m_waiters[i]] = {}
            => ~ConditionMet(request[m_waiters[i]], m_bits)

\* Bits were taken for a sleeper exactly when it is ready, and what it reports met its condition
\* unless a Cancel wrote over it.
TakenInv ==
    \A t \in Threads :
        pc[t] = "wait" =>
            /\ "ready" \notin flags[t] => consumed[t] = 0
            /\ "ready" \in flags[t] =>
                  /\ consumed[t] >= 1
                  /\ "canceled" \in flags[t] \/ ConditionMet(request[t], result[t])

\* The destructor runs once, and its list is empty when it lets the mutex go: m_deleted keeps
\* everybody who gets the mutex from then on out of the list.
DestroyInv ==
    /\ \A t \in Threads : pc[t] \in {"delete", "free"} => m_deleted /\ ~freed
    /\ \A t, u \in Threads : pc[t] \in {"delete", "free"} /\ pc[u] \in {"delete", "free"} => t = u
    /\ \A t \in Threads : pc[t] = "free" => m_waiters = <<>>
    /\ freed => m_deleted
    /\ FreedAfterWaiters

IndInv == TypeOK /\ WaitersSound /\ MutexInv /\ PassedInv /\ TakenInv /\ DestroyInv

-----------------------------------------------------------------------------
\* Nobody becomes eligible when bits go.
LEMMA FewerBits ==
    ASSUME NEW r \in RequestType \cup {NoRequest}, NEW b, NEW c \in SUBSET b, ~ConditionMet(r, b)
    PROVE  ~ConditionMet(r, c)
  BY DEF ConditionMet

\* ApplyClear only takes bits away.
LEMMA ClearShrinks ==
    ASSUME NEW r \in RequestType \cup {NoRequest}, NEW b \in SUBSET Bits
    PROVE  ApplyClear(r, b) \in SUBSET b
  <1>1. r.clear \in {"None", "All", "Bits"}
    BY DEF RequestType, NoRequest
  <1> QED BY <1>1 DEF ApplyClear

\* A waiter in the list is a thread, inside a wait, with a request.
LEMMA WaiterFacts ==
    ASSUME TypeOK, WaitersSound, NEW i \in 1..Len(m_waiters)
    PROVE  /\ m_waiters[i] \in Threads
           /\ pc[m_waiters[i]] = "wait"
           /\ request[m_waiters[i]] \in RequestType \cup {NoRequest}
  <1>1. m_waiters[i] \in Threads
    BY DEF TypeOK
  <1>2. Listed(m_waiters[i])
    BY DEF Listed
  <1> QED BY <1>1, <1>2 DEF TypeOK, WaitersSound

LEMMA InitInd == ASSUME Init PROVE IndInv
  <1> USE DEF Init
  <1>1. TypeOK
    <2>1. m_bits \in SUBSET Bits /\ budget \in 0..MaxCalls
      BY ArgumentAssumption
    <2>2. m_waiters \in Seq(Threads) /\ mutex = NoOne
      OBVIOUS
    <2>3. /\ pc \in [Threads -> {"idle", "enter", "wait", "set", "delete", "free"}]
          /\ request \in [Threads -> RequestType \cup {NoRequest}]
          /\ flags \in [Threads -> SUBSET Flags] /\ result \in [Threads -> SUBSET Bits]
          /\ ret \in [Threads -> Results]
      BY DEF Results
    <2>4. it \in Nat \ {0} /\ consumed \in [Threads -> Nat] /\ notified \in [Threads -> BOOLEAN]
      OBVIOUS
    <2> QED BY <2>1, <2>2, <2>3, <2>4 DEF TypeOK
  <1>2. WaitersSound
    BY DEF WaitersSound, Listed
  <1>3. MutexInv
    BY ThreadAssumption DEF MutexInv
  <1>4. PassedInv /\ TakenInv /\ DestroyInv
    BY DEF PassedInv, TakenInv, DestroyInv, FreedAfterWaiters
  <1> QED BY <1>1, <1>2, <1>3, <1>4 DEF IndInv

-----------------------------------------------------------------------------
LEMMA EnterInd == ASSUME IndInv, NEW t \in Threads, Enter(t) PROVE IndInv'
  <1>1. /\ pc[t] = "idle" /\ ~freed /\ pc' = [pc EXCEPT ![t] = "enter"]
        /\ UNCHANGED <<m_bits, m_waiters, m_deleted, single, prio, mutex, it, freed,
                       destroy_notified, request, flags, notified, result, ret, consumed>>
    BY DEF Enter, objectVars, waiterVars
  <1>2. TypeOK'
    <2>1. budget' \in 0..MaxCalls
      BY ArgumentAssumption DEF Enter, IndInv, TypeOK
    <2> QED BY <1>1, <2>1 DEF IndInv, TypeOK
  <1>3. WaitersSound' /\ MutexInv' /\ TakenInv' /\ DestroyInv'
    BY <1>1, ThreadAssumption DEF IndInv, TypeOK, WaitersSound, Listed, MutexInv, TakenInv,
       DestroyInv, FreedAfterWaiters
  <1>4. PassedInv'
    BY <1>1 DEF IndInv, PassedInv
  <1> QED BY <1>2, <1>3, <1>4 DEF IndInv

LEMMA WaitFastInd ==
    ASSUME IndInv, NEW t \in Threads, NEW r \in Requests, WaitFast(t, r)
    PROVE  IndInv'
  <1>1. /\ pc[t] = "enter" /\ mutex = NoOne /\ pc' = [pc EXCEPT ![t] = "idle"]
        /\ UNCHANGED <<m_waiters, m_deleted, single, prio, mutex, it, freed, destroy_notified,
                       request, flags, notified, consumed, budget>>
    BY DEF WaitFast, Lock, Return, objectVars
  <1>2. r \in RequestType \cup {NoRequest}
    BY ArgumentAssumption
  <1>3. m_bits' \in SUBSET m_bits
    <2>1. m_bits' = m_bits \/ m_bits' = ApplyClear(r, m_bits)
      BY DEF WaitFast
    <2>2. m_bits \in SUBSET Bits
      BY DEF IndInv, TypeOK
    <2> QED BY <1>2, <2>1, <2>2, ClearShrinks
  <1>4. \A u \in Threads \ {t} : result'[u] = result[u]
    BY DEF WaitFast, IndInv, TypeOK
  <1>5. TypeOK'
    <2>1. ret' \in [Threads -> Results] /\ result' \in [Threads -> SUBSET Bits]
      BY DEF WaitFast, IndInv, TypeOK, Results
    <2>2. pc' \in [Threads -> {"idle", "enter", "wait", "set", "delete", "free"}]
      BY <1>1 DEF IndInv, TypeOK
    <2>3. m_bits' \in SUBSET Bits
      BY <1>3 DEF IndInv, TypeOK
    <2> QED BY <1>1, <2>1, <2>2, <2>3 DEF IndInv, TypeOK
  <1>6. WaitersSound' /\ MutexInv' /\ DestroyInv'
    BY <1>1, ThreadAssumption DEF IndInv, TypeOK, WaitersSound, Listed, MutexInv, DestroyInv,
       FreedAfterWaiters
  <1>7. PassedInv'
    <2> SUFFICES ASSUME NEW i \in 1..Len(m_waiters), flags[m_waiters[i]] = {}
                 PROVE  ~ConditionMet(request[m_waiters[i]], m_bits')
      BY <1>1 DEF PassedInv
    <2>1. ~ConditionMet(request[m_waiters[i]], m_bits)
      BY <1>1 DEF IndInv, PassedInv
    <2> QED BY <1>3, <2>1, WaiterFacts, FewerBits DEF IndInv
  <1>8. TakenInv'
    BY <1>1, <1>4 DEF IndInv, TypeOK, TakenInv
  <1> QED BY <1>5, <1>6, <1>7, <1>8 DEF IndInv

LEMMA WaitEnqueueInd ==
    ASSUME IndInv, NEW t \in Threads, NEW r \in Requests, WaitEnqueue(t, r)
    PROVE  IndInv'
  <1>1. /\ pc[t] = "enter" /\ mutex = NoOne /\ ~m_deleted
        /\ single => m_waiters = <<>>
        /\ ~ConditionMet(r, m_bits)
        /\ pc' = [pc EXCEPT ![t] = "wait"]
        /\ request' = [request EXCEPT ![t] = r]
        /\ flags' = [flags EXCEPT ![t] = {}]
        /\ consumed' = [consumed EXCEPT ![t] = 0]
        /\ result' = [result EXCEPT ![t] = {}]
        /\ notified' = [notified EXCEPT ![t] = FALSE]
        /\ UNCHANGED <<m_bits, m_deleted, single, prio, mutex, it, freed, destroy_notified, ret,
                       budget>>
    BY DEF WaitEnqueue, Lock, objectVars
  <1>2. r \in RequestType
    BY ArgumentAssumption
  <1>3. PICK i \in 1..(Len(m_waiters) + 1) :
            IsInsertPosition(i, t) /\ m_waiters' = InsertAt(m_waiters, i, t)
    BY DEF WaitEnqueue, AddWaiter
  <1>4. m_waiters \in Seq(Threads) /\ \A j \in 1..Len(m_waiters) : m_waiters[j] # t
    <2>1. ~Listed(t)
      BY <1>1 DEF IndInv, WaitersSound
    <2> QED BY <2>1 DEF IndInv, TypeOK, Listed
  <1>5. /\ m_waiters' \in Seq(Threads)
        /\ Len(m_waiters') = Len(m_waiters) + 1
        /\ \A j, k \in 1..Len(m_waiters') : m_waiters'[j] = m_waiters'[k] => j = k
        /\ \A u \in Threads : Listed(u)' <=> u = t \/ Listed(u)
    <2>1. m_waiters' \in Seq(Threads) /\ Len(m_waiters') = Len(m_waiters) + 1
      <3>1. /\ InsertAt(m_waiters, i, t) \in Seq(Threads)
            /\ Len(InsertAt(m_waiters, i, t)) = Len(m_waiters) + 1
        BY <1>4, InsertAtFacts, SMTT(30)
      <3> QED BY <1>3, <3>1
    <2>2. Distinct(m_waiters) /\ ~Has(m_waiters, t)
      BY <1>4 DEF Distinct, Has, IndInv, WaitersSound
    <2>3. Distinct(m_waiters') /\ \A u \in Threads : Has(m_waiters', u) <=> u = t \/ Has(m_waiters, u)
      BY <1>3, <1>4, <2>2, InsertAtMembers
    <2> QED BY <2>1, <2>3 DEF Distinct, Has, Listed
  <1>6. prio => \A j, k \in 1..Len(m_waiters') :
                   j < k => Prio[m_waiters'[j]] >= Prio[m_waiters'[k]]
    <2> SUFFICES ASSUME prio
                 PROVE  \A j, k \in 1..Len(m_waiters') :
                            j < k => Prio[m_waiters'[j]] >= Prio[m_waiters'[k]]
      OBVIOUS
    <2>1. \A j, k \in 1..Len(m_waiters) : j < k => Prio[m_waiters[j]] >= Prio[m_waiters[k]]
      BY DEF IndInv, WaitersSound
    <2>2. /\ \A j \in 1..(i - 1) : Prio[m_waiters[j]] >= Prio[t]
          /\ i <= Len(m_waiters) => Prio[m_waiters[i]] < Prio[t]
      BY <1>3 DEF IsInsertPosition
    <2>3. Prio \in [Threads -> Int]
      BY ThreadAssumption
    <2> DEFINE s == InsertAt(m_waiters, i, t)
    <2>4. \A j, k \in 1..Len(s) : j < k => Prio[s[j]] >= Prio[s[k]]
      BY <1>4, <2>1, <2>2, <2>3, InsertAtDescending
    <2> QED BY <1>3, <2>4
  <1>7. TypeOK'
    <2>1. /\ pc' \in [Threads -> {"idle", "enter", "wait", "set", "delete", "free"}]
          /\ request' \in [Threads -> RequestType \cup {NoRequest}]
          /\ flags' \in [Threads -> SUBSET Flags] /\ notified' \in [Threads -> BOOLEAN]
          /\ result' \in [Threads -> SUBSET Bits] /\ consumed' \in [Threads -> Nat]
      BY <1>1, <1>2 DEF IndInv, TypeOK
    <2>2. mutex' # NoOne => it' <= Len(m_waiters') + 1
      BY <1>1
    <2> QED BY <1>1, <1>5, <2>1, <2>2 DEF IndInv, TypeOK
  <1>8. WaitersSound'
    <2>1. \A u \in Threads : Listed(u)' <=> pc'[u] = "wait"
      BY <1>1, <1>5 DEF IndInv, TypeOK, WaitersSound
    <2>2. single' => Len(m_waiters') <= 1
      BY <1>1, <1>5
    <2> QED BY <1>1, <1>5, <1>6, <2>1, <2>2 DEF WaitersSound
  <1>9. MutexInv' /\ DestroyInv'
    BY <1>1, ThreadAssumption DEF IndInv, TypeOK, MutexInv, DestroyInv, FreedAfterWaiters
  <1>10. PassedInv'
    <2> SUFFICES ASSUME NEW k \in 1..Len(m_waiters'), flags'[m_waiters'[k]] = {}
                 PROVE  ~ConditionMet(request'[m_waiters'[k]], m_bits)
      BY <1>1 DEF PassedInv
    <2> DEFINE u == m_waiters'[k]
    <2>1. u \in Threads
      BY <1>5
    <2>2. CASE u = t
      BY <1>1, <2>2 DEF IndInv, TypeOK
    <2>3. CASE u # t
      <3>1. Listed(u)
        BY <1>5, <2>1, <2>3 DEF Listed
      <3>2. PICK j \in 1..Len(m_waiters) : m_waiters[j] = u
        BY <3>1 DEF Listed
      <3>3. flags[u] = {} /\ request'[u] = request[u]
        BY <1>1, <2>1, <2>3 DEF IndInv, TypeOK
      <3> QED BY <1>1, <3>2, <3>3 DEF IndInv, PassedInv
    <2> QED BY <2>2, <2>3
  <1>11. TakenInv'
    BY <1>1 DEF IndInv, TypeOK, TakenInv
  <1> QED BY <1>7, <1>8, <1>9, <1>10, <1>11 DEF IndInv

-----------------------------------------------------------------------------
\* The two ways out of a wait.
LEMMA WaitEndInd ==
    ASSUME IndInv, NEW t \in Threads, pc[t] = "wait", mutex = NoOne, WaitEnd(t),
           ret' \in [Threads -> Results], result' \in [Threads -> SUBSET Bits],
           \A u \in Threads \ {t} : result'[u] = result[u],
           UNCHANGED <<m_deleted, single, prio, freed, m_bits, mutex, it, consumed, budget>>
    PROVE  IndInv'
  <1>1. /\ pc' = [pc EXCEPT ![t] = "idle"]
        /\ request' = [request EXCEPT ![t] = NoRequest]
        /\ flags' = [flags EXCEPT ![t] = {}]
        /\ notified' = [notified EXCEPT ![t] = FALSE]
        /\ destroy_notified' \in BOOLEAN
    BY DEF WaitEnd, Return, RemoveWaiter, IndInv, TypeOK
  <1>2. PICK i \in 1..Len(m_waiters) :
            m_waiters[i] = t /\ m_waiters' = RemoveAt(m_waiters, i)
    BY DEF WaitEnd, RemoveWaiter
  <1>3. m_waiters \in Seq(Threads)
    BY DEF IndInv, TypeOK
  <1>4. /\ m_waiters' \in Seq(Threads)
        /\ Len(m_waiters') = Len(m_waiters) - 1
        /\ \A j, k \in 1..Len(m_waiters') : m_waiters'[j] = m_waiters'[k] => j = k
        /\ \A u \in Threads : Listed(u)' <=> u # t /\ Listed(u)
    <2>1. m_waiters' \in Seq(Threads) /\ Len(m_waiters') = Len(m_waiters) - 1
      BY <1>2, <1>3, RemoveAtFacts
    <2>2. Distinct(m_waiters)
      BY DEF Distinct, IndInv, WaitersSound
    <2>3. Distinct(m_waiters') /\ \A u \in Threads : Has(m_waiters', u) <=> u # t /\ Has(m_waiters, u)
      BY <1>2, <1>3, <2>2, RemoveAtMembers
    <2> QED BY <2>1, <2>3 DEF Distinct, Has, Listed
  <1>5. prio => \A j, k \in 1..Len(m_waiters') :
                   j < k => Prio[m_waiters'[j]] >= Prio[m_waiters'[k]]
    <2> SUFFICES ASSUME prio
                 PROVE  \A j, k \in 1..Len(m_waiters') :
                            j < k => Prio[m_waiters'[j]] >= Prio[m_waiters'[k]]
      OBVIOUS
    <2>1. \A j, k \in 1..Len(m_waiters) : j < k => Prio[m_waiters[j]] >= Prio[m_waiters[k]]
      BY DEF IndInv, WaitersSound
    <2>2. Prio \in [Threads -> Int]
      BY ThreadAssumption
    <2> DEFINE s == RemoveAt(m_waiters, i)
    <2>3. \A j, k \in 1..Len(s) : j < k => Prio[s[j]] >= Prio[s[k]]
      BY <1>3, <2>1, <2>2, RemoveAtDescending
    <2> QED BY <1>2, <2>3
  <1>6. TypeOK'
    <2>1. /\ pc' \in [Threads -> {"idle", "enter", "wait", "set", "delete", "free"}]
          /\ request' \in [Threads -> RequestType \cup {NoRequest}]
          /\ flags' \in [Threads -> SUBSET Flags] /\ notified' \in [Threads -> BOOLEAN]
      BY <1>1 DEF IndInv, TypeOK
    <2> QED BY <1>1, <1>4, <2>1 DEF IndInv, TypeOK
  <1>7. WaitersSound'
    <2>1. \A u \in Threads : Listed(u)' <=> pc'[u] = "wait"
      BY <1>1, <1>4 DEF IndInv, TypeOK, WaitersSound
    <2>2. single' => Len(m_waiters') <= 1
      BY <1>3, <1>4 DEF IndInv, WaitersSound
    <2> QED BY <1>4, <1>5, <2>1, <2>2 DEF WaitersSound
  <1>8. MutexInv' /\ DestroyInv'
    <2>1. m_waiters # <<>>
      BY <1>2, <1>3
    <2> QED BY <1>1, <2>1, ThreadAssumption DEF IndInv, TypeOK, MutexInv, DestroyInv,
            FreedAfterWaiters
  <1>9. PassedInv'
    <2> SUFFICES ASSUME NEW k \in 1..Len(m_waiters'), flags'[m_waiters'[k]] = {}
                 PROVE  ~ConditionMet(request'[m_waiters'[k]], m_bits)
      BY DEF PassedInv
    <2> DEFINE u == m_waiters'[k]
    <2>1. u \in Threads
      BY <1>4
    <2>2. u # t /\ Listed(u)
      BY <1>4, <2>1 DEF Listed
    <2>3. PICK j \in 1..Len(m_waiters) : m_waiters[j] = u
      BY <2>2 DEF Listed
    <2>4. flags[u] = {} /\ request'[u] = request[u]
      BY <1>1, <2>1, <2>2 DEF IndInv, TypeOK
    <2> QED BY <2>3, <2>4 DEF IndInv, PassedInv
  <1>10. TakenInv'
    BY <1>1 DEF IndInv, TypeOK, TakenInv
  <1> QED BY <1>6, <1>7, <1>8, <1>9, <1>10 DEF IndInv

LEMMA WaitServedInd == ASSUME IndInv, NEW t \in Threads, WaitServed(t) PROVE IndInv'
  <1>1. /\ pc[t] = "wait" /\ mutex = NoOne /\ WaitEnd(t)
        /\ UNCHANGED <<m_deleted, single, prio, freed, m_bits, mutex, it, result, consumed, budget>>
    BY DEF WaitServed
  <1>2. ret' \in [Threads -> Results]
    BY DEF WaitServed, Verdict, Results, IndInv, TypeOK
  <1>3. result' \in [Threads -> SUBSET Bits] /\ \A u \in Threads \ {t} : result'[u] = result[u]
    BY <1>1 DEF IndInv, TypeOK
  <1> QED BY <1>1, <1>2, <1>3, WaitEndInd

LEMMA WaitTimeoutInd == ASSUME IndInv, NEW t \in Threads, WaitTimeout(t) PROVE IndInv'
  <1>1. /\ pc[t] = "wait" /\ mutex = NoOne /\ WaitEnd(t)
        /\ UNCHANGED <<m_deleted, single, prio, freed, m_bits, mutex, it, consumed, budget>>
    BY DEF WaitTimeout
  <1>2. ret' \in [Threads -> Results]
    BY DEF WaitTimeout, Results, IndInv, TypeOK
  <1>3. result' \in [Threads -> SUBSET Bits] /\ \A u \in Threads \ {t} : result'[u] = result[u]
    BY DEF WaitTimeout, IndInv, TypeOK
  <1> QED BY <1>1, <1>2, <1>3, WaitEndInd

-----------------------------------------------------------------------------
LEMMA SetEnterInd ==
    ASSUME IndInv, NEW t \in Threads, NEW bits \in SetPatterns, SetEnter(t, bits)
    PROVE  IndInv'
  <1>1. /\ pc[t] = "enter" /\ mutex = NoOne
        /\ m_bits' = m_bits \cup bits /\ mutex' = t /\ it' = 1
        /\ pc' = [pc EXCEPT ![t] = "set"]
        /\ UNCHANGED <<m_waiters, m_deleted, single, prio, freed, destroy_notified, request,
                       flags, notified, result, ret, consumed, budget>>
    BY DEF SetEnter, Lock, objectVars, waiterVars
  <1>2. TypeOK'
    <2>1. pc' \in [Threads -> {"idle", "enter", "wait", "set", "delete", "free"}]
      BY <1>1 DEF IndInv, TypeOK
    <2>2. m_bits' \in SUBSET Bits
      BY <1>1, ArgumentAssumption DEF IndInv, TypeOK
    <2>3. it' \in Nat \ {0} /\ it' <= Len(m_waiters') + 1 /\ mutex' \in Threads \cup {NoOne}
      BY <1>1 DEF IndInv, TypeOK
    <2> QED BY <1>1, <2>1, <2>2, <2>3 DEF IndInv, TypeOK
  <1>3. WaitersSound'
    BY <1>1 DEF IndInv, TypeOK, WaitersSound, Listed
  <1>4. MutexInv'
    BY <1>1, ThreadAssumption DEF IndInv, TypeOK, MutexInv
  <1>5. PassedInv'
    BY <1>1, ThreadAssumption DEF PassedInv
  <1>6. TakenInv' /\ DestroyInv'
    BY <1>1 DEF IndInv, TypeOK, TakenInv, DestroyInv, FreedAfterWaiters
  <1> QED BY <1>2, <1>3, <1>4, <1>5, <1>6 DEF IndInv

LEMMA SetSkipInd == ASSUME IndInv, NEW t \in Threads, SetSkip(t) PROVE IndInv'
  <1>1. /\ pc[t] = "set" /\ it <= Len(m_waiters)
        /\ ~ConditionMet(request[m_waiters[it]], m_bits)
        /\ it' = it + 1
        /\ UNCHANGED <<m_bits, m_waiters, m_deleted, single, prio, mutex, freed,
                       destroy_notified, pc, request, flags, notified, result, ret, consumed,
                       budget>>
    BY DEF SetSkip, objectVars, waiterVars
  <1>2. mutex = t /\ it \in 1..Len(m_waiters)
    BY <1>1 DEF IndInv, TypeOK, MutexInv
  <1>3. TypeOK'
    <2>1. it' \in Nat \ {0} /\ it' <= Len(m_waiters') + 1
      BY <1>1, <1>2
    <2> QED BY <1>1, <2>1 DEF IndInv, TypeOK
  <1>4. WaitersSound' /\ MutexInv' /\ TakenInv' /\ DestroyInv'
    BY <1>1 DEF IndInv, WaitersSound, Listed, MutexInv, TakenInv, DestroyInv, FreedAfterWaiters
  <1>5. PassedInv'
    <2> SUFFICES ASSUME NEW i \in 1..Len(m_waiters), i < it + 1, flags[m_waiters[i]] = {}
                 PROVE  ~ConditionMet(request[m_waiters[i]], m_bits)
      BY <1>1, <1>2, ThreadAssumption DEF PassedInv
    <2>1. i < it \/ i = it
      BY <1>2
    <2> QED BY <1>1, <2>1 DEF IndInv, PassedInv
  <1> QED BY <1>3, <1>4, <1>5 DEF IndInv

LEMMA SetServeInd == ASSUME IndInv, NEW t \in Threads, SetServe(t) PROVE IndInv'
  <1> DEFINE w == m_waiters[it]
  <1>1. /\ pc[t] = "set" /\ it <= Len(m_waiters)
        /\ ConditionMet(request[w], m_bits)
        /\ result' = [result EXCEPT ![w] = m_bits]
        /\ m_bits' = ApplyClear(request[w], m_bits)
        /\ flags' = [flags EXCEPT ![w] = @ \cup {"ready"}]
        /\ notified' = [notified EXCEPT ![w] = TRUE]
        /\ consumed' = [consumed EXCEPT ![w] = @ + 1]
        /\ it' = it + 1
        /\ UNCHANGED <<m_waiters, m_deleted, single, prio, mutex, freed, destroy_notified, pc,
                       request, ret, budget>>
    BY DEF SetServe, objectVars
  <1>2. mutex = t /\ it \in 1..Len(m_waiters)
    BY <1>1 DEF IndInv, TypeOK, MutexInv
  <1>3. w \in Threads /\ pc[w] = "wait" /\ request[w] \in RequestType \cup {NoRequest}
    BY <1>2, WaiterFacts DEF IndInv
  <1>4. m_bits' \in SUBSET m_bits
    BY <1>1, <1>3, ClearShrinks DEF IndInv, TypeOK
  <1> HIDE DEF w
  <1>5. TypeOK'
    <2>1. it' \in Nat \ {0} /\ it' <= Len(m_waiters') + 1
      BY <1>1, <1>2
    <2>2. /\ flags' \in [Threads -> SUBSET Flags] /\ notified' \in [Threads -> BOOLEAN]
          /\ result' \in [Threads -> SUBSET Bits] /\ consumed' \in [Threads -> Nat]
      BY <1>1, <1>3 DEF IndInv, TypeOK, Flags
    <2>3. m_bits' \in SUBSET Bits
      BY <1>4 DEF IndInv, TypeOK
    <2> QED BY <1>1, <2>1, <2>2, <2>3 DEF IndInv, TypeOK
  <1>6. WaitersSound' /\ MutexInv' /\ DestroyInv'
    BY <1>1 DEF IndInv, WaitersSound, Listed, MutexInv, DestroyInv, FreedAfterWaiters
  <1>7. PassedInv'
    <2> SUFFICES ASSUME NEW i \in 1..Len(m_waiters), i < it + 1, flags'[m_waiters[i]] = {}
                 PROVE  ~ConditionMet(request[m_waiters[i]], m_bits')
      BY <1>1, <1>2, ThreadAssumption DEF PassedInv
    <2>1. flags'[w] # {}
      BY <1>1, <1>3 DEF IndInv, TypeOK
    <2>2. i < it
      BY <1>2, <2>1 DEF w
    <2>3. m_waiters[i] # w /\ m_waiters[i] \in Threads
      <3>1. \A j, k \in 1..Len(m_waiters) : m_waiters[j] = m_waiters[k] => j = k
        BY DEF IndInv, WaitersSound
      <3>2. i # it
        BY <1>2, <2>2
      <3>3. m_waiters[i] # w
        BY <1>2, <3>1, <3>2 DEF w
      <3> QED BY <3>3, WaiterFacts DEF IndInv
    <2>4. flags[m_waiters[i]] = {}
      BY <1>1, <2>3 DEF IndInv, TypeOK
    <2>5. ~ConditionMet(request[m_waiters[i]], m_bits)
      BY <2>2, <2>4 DEF IndInv, PassedInv
    <2> QED BY <1>4, <2>5, WaiterFacts, FewerBits DEF IndInv
  <1>8. TakenInv'
    <2> SUFFICES ASSUME NEW u \in Threads, pc[u] = "wait"
                 PROVE  /\ "ready" \notin flags'[u] => consumed'[u] = 0
                        /\ "ready" \in flags'[u] =>
                              /\ consumed'[u] >= 1
                              /\ "canceled" \in flags'[u] \/ ConditionMet(request[u], result'[u])
      BY <1>1 DEF TakenInv
    <2>1. CASE u = w
      <3>1. /\ "ready" \in flags'[u] /\ consumed'[u] = consumed[u] + 1 /\ result'[u] = m_bits
            /\ consumed[u] \in Nat
        BY <1>1, <2>1 DEF IndInv, TypeOK
      <3> QED BY <1>1, <2>1, <3>1
    <2>2. CASE u # w
      <3>1. flags'[u] = flags[u] /\ consumed'[u] = consumed[u] /\ result'[u] = result[u]
        BY <1>1, <2>2 DEF IndInv, TypeOK
      <3> QED BY <3>1 DEF IndInv, TakenInv
    <2> QED BY <2>1, <2>2
  <1> QED BY <1>5, <1>6, <1>7, <1>8 DEF IndInv

LEMMA SetReturnInd == ASSUME IndInv, NEW t \in Threads, SetReturn(t) PROVE IndInv'
  <1>1. /\ pc[t] = "set" /\ it > Len(m_waiters)
        /\ mutex' = NoOne /\ pc' = [pc EXCEPT ![t] = "idle"]
        /\ UNCHANGED <<m_bits, m_waiters, m_deleted, single, prio, it, freed, destroy_notified,
                       request, flags, notified, result, ret, consumed, budget>>
    BY DEF SetReturn, Return, objectVars, waiterVars
  <1>2. TypeOK'
    BY <1>1 DEF IndInv, TypeOK
  <1>3. WaitersSound' /\ TakenInv' /\ DestroyInv'
    BY <1>1 DEF IndInv, TypeOK, WaitersSound, Listed, TakenInv, DestroyInv, FreedAfterWaiters
  <1>4. MutexInv'
    BY <1>1, ThreadAssumption DEF IndInv, TypeOK, MutexInv
  <1>5. PassedInv'
    <2>1. \A i \in 1..Len(m_waiters) : i < it
      BY <1>1 DEF IndInv, TypeOK
    <2> QED BY <1>1, <2>1 DEF IndInv, PassedInv
  <1> QED BY <1>2, <1>3, <1>4, <1>5 DEF IndInv

-----------------------------------------------------------------------------
LEMMA ClearInd ==
    ASSUME IndInv, NEW t \in Threads, NEW bits \in ClearPatterns, Clear(t, bits)
    PROVE  IndInv'
  <1>1. /\ pc[t] = "enter" /\ mutex = NoOne /\ pc' = [pc EXCEPT ![t] = "idle"]
        /\ m_bits' = m_bits \cap bits
        /\ UNCHANGED <<m_waiters, m_deleted, single, prio, mutex, it, freed, destroy_notified,
                       request, flags, notified, result, ret, consumed, budget>>
    BY DEF Clear, Lock, Return, objectVars, waiterVars
  <1>2. TypeOK'
    <2>1. m_bits' \in SUBSET Bits
      BY <1>1 DEF IndInv, TypeOK
    <2> QED BY <1>1, <2>1 DEF IndInv, TypeOK
  <1>3. WaitersSound' /\ MutexInv' /\ TakenInv' /\ DestroyInv'
    BY <1>1, ThreadAssumption DEF IndInv, TypeOK, WaitersSound, Listed, MutexInv, TakenInv,
       DestroyInv, FreedAfterWaiters
  <1>4. PassedInv'
    <2> SUFFICES ASSUME NEW i \in 1..Len(m_waiters), flags[m_waiters[i]] = {}
                 PROVE  ~ConditionMet(request[m_waiters[i]], m_bits')
      BY <1>1 DEF PassedInv
    <2>1. ~ConditionMet(request[m_waiters[i]], m_bits)
      BY <1>1 DEF IndInv, PassedInv
    <2> QED BY <1>1, <2>1, WaiterFacts, FewerBits DEF IndInv
  <1> QED BY <1>2, <1>3, <1>4 DEF IndInv

LEMMA CancelInd ==
    ASSUME IndInv, NEW t \in Threads, NEW pattern \in CancelPatterns, Cancel(t, pattern)
    PROVE  IndInv'
  <1>1. /\ pc[t] = "enter" /\ mutex = NoOne /\ pc' = [pc EXCEPT ![t] = "idle"]
        /\ m_bits' = pattern
        /\ flags' = [w \in Threads |-> IF Listed(w) THEN flags[w] \cup {"canceled"} ELSE flags[w]]
        /\ notified' = [w \in Threads |-> notified[w] \/ Listed(w)]
        /\ result' = [w \in Threads |-> IF Listed(w) THEN pattern ELSE result[w]]
        /\ UNCHANGED <<m_waiters, m_deleted, single, prio, mutex, it, freed, destroy_notified,
                       request, ret, consumed, budget>>
    BY DEF Cancel, Lock, Return, FlagAll, objectVars
  <1>2. pattern \in SUBSET Bits
    BY ArgumentAssumption
  <1>3. TypeOK'
    <2>1. pc' \in [Threads -> {"idle", "enter", "wait", "set", "delete", "free"}]
      BY <1>1 DEF IndInv, TypeOK
    <2>2. flags' \in [Threads -> SUBSET Flags] /\ result' \in [Threads -> SUBSET Bits]
      BY <1>1, <1>2 DEF IndInv, TypeOK, Flags
    <2>3. notified' \in [Threads -> BOOLEAN]
      BY <1>1, Zenon DEF IndInv, TypeOK
    <2> QED BY <1>1, <1>2, <2>1, <2>2, <2>3 DEF IndInv, TypeOK
  <1>4. WaitersSound' /\ MutexInv' /\ DestroyInv'
    BY <1>1, ThreadAssumption DEF IndInv, TypeOK, WaitersSound, Listed, MutexInv, DestroyInv,
       FreedAfterWaiters
  <1>5. PassedInv'
    <2> SUFFICES ASSUME NEW i \in 1..Len(m_waiters) PROVE flags'[m_waiters[i]] # {}
      BY <1>1 DEF PassedInv
    <2>1. m_waiters[i] \in Threads /\ Listed(m_waiters[i])
      BY DEF IndInv, TypeOK, Listed
    <2> QED BY <1>1, <2>1
  <1>6. TakenInv'
    <2> SUFFICES ASSUME NEW u \in Threads, pc[u] = "wait"
                 PROVE  /\ "canceled" \in flags'[u] /\ consumed'[u] = consumed[u]
                        /\ "ready" \in flags'[u] <=> "ready" \in flags[u]
      BY <1>1 DEF IndInv, TypeOK, TakenInv
    <2>1. Listed(u)
      BY DEF IndInv, WaitersSound
    <2> QED BY <1>1, <2>1
  <1> QED BY <1>3, <1>4, <1>5, <1>6 DEF IndInv

LEMMA DeleteInd == ASSUME IndInv, NEW t \in Threads, Delete(t) PROVE IndInv'
  <1>1. /\ pc[t] = "enter" /\ mutex = NoOne /\ ~m_deleted /\ m_deleted' = TRUE
        /\ flags' = [w \in Threads |-> IF Listed(w) THEN flags[w] \cup {"deleted"} ELSE flags[w]]
        /\ notified' = [w \in Threads |-> notified[w] \/ Listed(w)]
        /\ pc' = [pc EXCEPT ![t] = IF m_waiters = <<>> THEN "free" ELSE "delete"]
        /\ UNCHANGED <<single, prio, freed, destroy_notified, m_bits, m_waiters, mutex, it,
                       request, result, ret, consumed, budget>>
    BY DEF Delete, Lock, FlagAll
  <1>2. TypeOK'
    <2>1. flags' \in [Threads -> SUBSET Flags]
      BY <1>1 DEF IndInv, TypeOK, Flags
    <2>2. notified' \in [Threads -> BOOLEAN]
      BY <1>1, Zenon DEF IndInv, TypeOK
    <2>3. pc' \in [Threads -> {"idle", "enter", "wait", "set", "delete", "free"}]
      BY <1>1 DEF IndInv, TypeOK
    <2> QED BY <1>1, <2>1, <2>2, <2>3 DEF IndInv, TypeOK
  <1>3. \A u \in Threads \ {t} : pc'[u] = pc[u]
    BY <1>1 DEF IndInv, TypeOK
  <1>4. pc'[t] = IF m_waiters = <<>> THEN "free" ELSE "delete"
    BY <1>1 DEF IndInv, TypeOK
  <1>5. WaitersSound'
    BY <1>1, <1>3, <1>4 DEF IndInv, WaitersSound, Listed
  <1>6. MutexInv'
    BY <1>1, <1>3, <1>4 DEF IndInv, MutexInv
  <1>7. PassedInv'
    <2> SUFFICES ASSUME NEW i \in 1..Len(m_waiters) PROVE flags'[m_waiters[i]] # {}
      BY <1>1 DEF PassedInv
    <2>1. m_waiters[i] \in Threads /\ Listed(m_waiters[i])
      BY DEF IndInv, TypeOK, Listed
    <2> QED BY <1>1, <2>1
  <1>8. TakenInv'
    <2> SUFFICES ASSUME NEW u \in Threads, pc[u] = "wait"
                 PROVE  /\ "canceled" \in flags'[u] <=> "canceled" \in flags[u]
                        /\ "ready" \in flags'[u] <=> "ready" \in flags[u]
      BY <1>1, <1>3, <1>4 DEF IndInv, TakenInv
    <2> QED BY <1>1
  <1>9. DestroyInv'
    <2>1. ~freed /\ \A u \in Threads : pc[u] \notin {"delete", "free"}
      BY <1>1 DEF IndInv, DestroyInv
    <2>2. \A u \in Threads : pc'[u] \in {"delete", "free"} => u = t
      BY <1>3, <2>1
    <2> QED BY <1>1, <1>4, <2>1, <2>2 DEF DestroyInv, FreedAfterWaiters
  <1> QED BY <1>2, <1>5, <1>6, <1>7, <1>8, <1>9 DEF IndInv

LEMMA DeleteDoneInd == ASSUME IndInv, NEW t \in Threads, DeleteDone(t) PROVE IndInv'
  <1>1. /\ pc[t] = "delete" /\ mutex = NoOne /\ m_waiters = <<>>
        /\ pc' = [pc EXCEPT ![t] = "free"]
        /\ UNCHANGED <<m_deleted, single, prio, freed, destroy_notified, m_bits, m_waiters, mutex,
                       it, request, flags, notified, result, ret, consumed, budget>>
    BY DEF DeleteDone, objectVars, waiterVars
  <1>2. TypeOK'
    BY <1>1 DEF IndInv, TypeOK
  <1>3. WaitersSound' /\ MutexInv' /\ TakenInv'
    BY <1>1, ThreadAssumption DEF IndInv, TypeOK, WaitersSound, Listed, MutexInv, TakenInv
  <1>4. PassedInv'
    BY <1>1 DEF PassedInv
  <1>5. DestroyInv'
    BY <1>1 DEF IndInv, TypeOK, DestroyInv, FreedAfterWaiters
  <1> QED BY <1>2, <1>3, <1>4, <1>5 DEF IndInv

\* The list is empty since the destructor let the mutex go, so nobody is left in a wait.
LEMMA FreeInd == ASSUME IndInv, NEW t \in Threads, Free(t) PROVE IndInv'
  <1>1. /\ pc[t] = "free" /\ freed' = TRUE /\ pc' = [pc EXCEPT ![t] = "idle"]
        /\ UNCHANGED <<m_deleted, single, prio, destroy_notified, m_bits, m_waiters, mutex, it,
                       request, flags, notified, result, ret, consumed, budget>>
    BY DEF Free, Return, waiterVars
  <1>2. TypeOK'
    BY <1>1 DEF IndInv, TypeOK
  <1>3. m_waiters = <<>> /\ m_deleted
    BY <1>1 DEF IndInv, DestroyInv
  <1>4. \A u \in Threads : pc'[u] \in {"idle", "enter", "set"}
    <2> SUFFICES ASSUME NEW u \in Threads, u # t PROVE pc[u] \in {"idle", "enter", "set"}
      BY <1>1 DEF IndInv, TypeOK
    <2>1. ~Listed(u)
      BY <1>3 DEF Listed
    <2>2. pc[u] # "wait"
      BY <2>1 DEF IndInv, WaitersSound
    <2>3. pc[u] \notin {"delete", "free"}
      BY <1>1 DEF IndInv, DestroyInv
    <2> QED BY <2>2, <2>3 DEF IndInv, TypeOK
  <1>5. WaitersSound' /\ PassedInv'
    BY <1>1, <1>3, <1>4 DEF IndInv, WaitersSound, Listed, PassedInv
  <1>6. MutexInv' /\ TakenInv'
    BY <1>1, <1>4, ThreadAssumption DEF IndInv, TypeOK, MutexInv, TakenInv
  <1>7. DestroyInv'
    BY <1>1, <1>3, <1>4 DEF DestroyInv, FreedAfterWaiters
  <1> QED BY <1>2, <1>5, <1>6, <1>7 DEF IndInv

-----------------------------------------------------------------------------
LEMMA StepInd == ASSUME IndInv, [Next]_vars PROVE IndInv'
  <1>1. ASSUME NEW t \in Threads, Method(t) PROVE IndInv'
    BY <1>1, WaitFastInd, WaitEnqueueInd, SetEnterInd, ClearInd, CancelInd, DeleteInd DEF Method
  <1>2. ASSUME NEW t \in Threads, Step(t) PROVE IndInv'
    BY <1>1, <1>2, WaitServedInd, WaitTimeoutInd, SetSkipInd, SetServeInd, SetReturnInd,
       DeleteDoneInd, FreeInd DEF Step
  <1>3. CASE UNCHANGED vars
    BY <1>3 DEF vars, IndInv, TypeOK, WaitersSound, Listed, MutexInv, PassedInv, TakenInv,
       DestroyInv, FreedAfterWaiters
  <1> QED BY <1>2, <1>3, EnterInd DEF Next

LEMMA Inductive == Spec => []IndInv
  BY InitInd, StepInd, PTL DEF Spec

\* Every variable keeps its type, and the iterator of Set never runs past the end of the list.
THEOREM TypeCorrect == Spec => []TypeOK
  <1>1. IndInv => TypeOK
    BY DEF IndInv
  <1> QED BY <1>1, Inductive, PTL

\* The waiter list holds exactly the sleeping threads, in order, whatever leaves it from where.
THEOREM WaiterListSoundness == Spec => []WaitersSound
  <1>1. IndInv => WaitersSound
    BY DEF IndInv
  <1> QED BY <1>1, Inductive, PTL

\* No sleeper is left behind whose bits are there.
THEOREM NoLostWakeup == Spec => []NoEligibleSleeper
  <1>1. IndInv => NoEligibleSleeper
    BY DEF IndInv, PassedInv, NoEligibleSleeper
  <1> QED BY <1>1, Inductive, PTL

\* The destructor waits for every waiter: none of them is left in its wait when the object goes,
\* whoever calls meanwhile.  A thread blocked on m_mutex is not among those it waits for.
THEOREM DestructorWaitsForWaiters == Spec => []FreedAfterWaiters
  <1>1. IndInv => FreedAfterWaiters
    BY DEF IndInv, DestroyInv
  <1> QED BY <1>1, Inductive, PTL

\* A sleeper that returns OK reports bits that met its condition; one that times out took none.
THEOREM ReturnsHonest == Spec => HonestReturn
  <1>1. IndInv /\ [Next]_vars => [HonestReturnStep]_vars
    <2> SUFFICES ASSUME IndInv, Next, NEW t \in Threads, pc[t] = "wait", pc'[t] = "idle"
                 PROVE  /\ ret'[t] = "OK" =>
                              consumed'[t] >= 1 /\ ConditionMet(request[t], result'[t])
                        /\ ret'[t] = "ETIMEDOUT" => consumed'[t] = 0
      BY DEF HonestReturnStep
    <2>1. PICK u \in Threads : Enter(u) \/ Method(u) \/ (Step(u) /\ ~Method(u))
      BY DEF Next
    <2>2. WaitServed(t) \/ WaitTimeout(t)
      <3>1. CASE Enter(u) \/ Method(u)
        <4>1. pc[u] \in {"idle", "enter"} /\ \E p : pc' = [pc EXCEPT ![u] = p]
          BY <3>1 DEF Enter, Method, WaitFast, WaitEnqueue, SetEnter, Clear, Cancel, Delete, Lock,
             Return
        <4> QED BY <4>1 DEF IndInv, TypeOK
      <3>2. CASE Step(u) /\ ~Method(u)
        <4>1. pc' = pc \/ \E p : pc' = [pc EXCEPT ![u] = p]
          BY <3>2 DEF Step, WaitServed, WaitTimeout, WaitEnd, Return, SetSkip, SetServe,
             SetReturn, DeleteDone, Free
        <4>2. u = t
          BY <4>1 DEF IndInv, TypeOK
        <4> QED BY <3>2, <4>2 DEF Step, SetSkip, SetServe, SetReturn, DeleteDone, Free
      <3> QED BY <2>1, <3>1, <3>2
    <2>3. CASE WaitServed(t)
      <3>1. /\ ret'[t] = Verdict(flags[t]) /\ flags[t] # {}
            /\ UNCHANGED <<consumed, result>>
        BY <2>3 DEF WaitServed, IndInv, TypeOK
      <3>2. ret'[t] # "ETIMEDOUT"
        BY <3>1 DEF Verdict
      <3>3. ret'[t] = "OK" => flags[t] = {"ready"}
        BY <3>1 DEF Verdict, IndInv, TypeOK, Flags
      <3> QED BY <3>1, <3>2, <3>3 DEF IndInv, TakenInv
    <2>4. CASE WaitTimeout(t)
      <3>1. ret'[t] = "ETIMEDOUT" /\ flags[t] = {} /\ consumed' = consumed
        BY <2>4 DEF WaitTimeout, IndInv, TypeOK
      <3> QED BY <3>1 DEF IndInv, TakenInv
    <2> QED BY <2>2, <2>3, <2>4
  <1> QED BY <1>1, Inductive, PTL DEF Spec, HonestReturn

=============================================================================
