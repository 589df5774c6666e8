---------------------------- MODULE CondVarProofs ----------------------------
(***************************************************************************)
(* What is proved of CondVar for every set of threads and every size of    *)
(* the deferral array: types (no thread defers more waiters than the array *)
(* holds), the soundness of the sleep queue, that a wait restores the      *)
(* recursion of the mutex, and that no signal is lost while nobody is      *)
(* canceled.                                                               *)
(***************************************************************************)
EXTENDS CondVar, FiniteSetTheorems, SequenceTheorems, TLAPS

-----------------------------------------------------------------------------
(* Sequences. *)

\* list.erase(it): the elements behind the erased one move up by one.
LEMMA RemoveAtFacts ==
    ASSUME NEW S, NEW s \in Seq(S), NEW i \in 1..Len(s)
    PROVE  /\ RemoveAt(s, i) \in Seq(S)
           /\ Len(RemoveAt(s, i)) = Len(s) - 1
           /\ \A j \in 1..(Len(s) - 1) :
                 RemoveAt(s, i)[j] = IF j < i THEN s[j] ELSE s[j + 1]
  <1> DEFINE a == SubSeq(s, 1, i - 1)
             b == SubSeq(s, i + 1, Len(s))
  <1>1. a \in Seq(S) /\ Len(a) = i - 1 /\ \A j \in 1..(i - 1) : a[j] = s[j]
    OBVIOUS
  <1>2. b \in Seq(S) /\ Len(b) = Len(s) - i /\ \A j \in 1..(Len(s) - i) : b[j] = s[j + i]
    OBVIOUS
  <1>3. RemoveAt(s, i) = a \o b
    BY DEF RemoveAt
  <1> HIDE DEF a, b
  <1>4. a \o b \in Seq(S) /\ Len(a \o b) = Len(s) - 1
    <2>1. a \o b \in Seq(S) /\ Len(a \o b) = Len(a) + Len(b)
      BY <1>1, <1>2, ConcatProperties, Zenon
    <2> QED
      BY <1>1, <1>2, <2>1
  <1>5. ASSUME NEW j \in 1..(Len(s) - 1)
        PROVE  (a \o b)[j] = IF j < i THEN s[j] ELSE s[j + 1]
    <2>1. CASE j < i
      BY <1>1, <1>2, <2>1
    <2>2. CASE ~(j < i)
      <3>1. (a \o b)[j] = b[j - (i - 1)]
        BY <1>1, <1>2, <2>2
      <3>2. b[j - (i - 1)] = s[j + 1]
        BY <1>2, <2>2
      <3> QED
        BY <2>2, <3>1, <3>2
    <2> QED
      BY <2>1, <2>2
  <1> QED
    BY <1>3, <1>4, <1>5

-----------------------------------------------------------------------------
(* The sleep queue. *)

Sound(s) == SleepqType(s) /\ BlockedSound(s) /\ ObjectsSound(s) /\ ObjectsDistinct(s)

LEMMA InitSound == Sound(SleepqInit)
BY NoOneAssumption
   DEF Sound, SleepqInit, SleepqType, BlockedSound, ObjectsSound, ObjectsDistinct

LEMMA PushFacts ==
    ASSUME NEW S, NEW s \in Seq(S), NEW x \in S
    PROVE  /\ <<x>> \o s \in Seq(S) /\ Len(<<x>> \o s) = Len(s) + 1
           /\ \A i \in 1..(Len(s) + 1) : (<<x>> \o s)[i] = IF i = 1 THEN x ELSE s[i - 1]
<1>1. <<x>> \in Seq(S) /\ Len(<<x>>) = 1
  OBVIOUS
<1>2. <<x>> \o s \in Seq(S) /\ Len(<<x>> \o s) = Len(s) + 1
  BY <1>1, ConcatProperties
<1> QED BY <1>1, <1>2

\* A thread that is not blocked blocks.
LEMMA AddSound ==
    ASSUME NEW s, Sound(s), NEW td \in Threads, ~s.wchan[td]
    PROVE  /\ Sound(SleepqAdd(s, td))
           /\ SleepqAdd(s, td).wchan = [s.wchan EXCEPT ![td] = TRUE]
<1>1. /\ SleepqType(s) /\ BlockedSound(s) /\ ObjectsSound(s) /\ ObjectsDistinct(s)
  BY DEF Sound
<1>2. /\ s.queue \in Threads \cup {NoOne} /\ s.freeq \in Seq(Threads)
      /\ s.blocked \in Seq(Threads) /\ s.wchan \in [Threads -> BOOLEAN]
      /\ s.sleepqueue \in [Threads -> Threads \cup {NoOne}]
  BY <1>1 DEF SleepqType
<1>3. s.sleepqueue[td] \in Threads /\ s.sleepqueue[td] # NoOne
  BY <1>1, <1>2, NoOneAssumption DEF ObjectsSound
<1>4. PICK n : n = SleepqAdd(s, td)
  OBVIOUS
<1>5. /\ n.queue = IF s.queue = NoOne THEN s.sleepqueue[td] ELSE s.queue
      /\ n.freeq = IF s.queue = NoOne THEN s.freeq ELSE <<s.sleepqueue[td]>> \o s.freeq
      /\ n.sleepqueue = [s.sleepqueue EXCEPT ![td] = NoOne]
      /\ n.wchan = [s.wchan EXCEPT ![td] = TRUE]
      /\ n.blocked = Append(s.blocked, td)
  BY <1>4 DEF SleepqAdd
<1>6. PICK p : p = <<s.sleepqueue[td]>> \o s.freeq
  OBVIOUS
<1>7. /\ p \in Seq(Threads) /\ Len(p) = Len(s.freeq) + 1 /\ p[1] = s.sleepqueue[td]
      /\ \A i \in 2..(Len(s.freeq) + 1) : p[i] = s.freeq[i - 1]
  BY <1>2, <1>3, <1>6, PushFacts
<1>8. /\ Len(n.blocked) = Len(s.blocked) + 1 /\ n.blocked[Len(s.blocked) + 1] = td
      /\ \A i \in 1..Len(s.blocked) : n.blocked[i] = s.blocked[i]
  BY <1>2, <1>5
<1>9. SleepqType(n)
  <2>1. n.freeq \in Seq(Threads) /\ n.queue \in Threads \cup {NoOne}
    BY <1>2, <1>3, <1>5, <1>6, <1>7
  <2>2. /\ n.blocked \in Seq(Threads) /\ n.wchan \in [Threads -> BOOLEAN]
        /\ n.sleepqueue \in [Threads -> Threads \cup {NoOne}]
    BY <1>2, <1>5
  <2> QED BY <1>4, <1>5, <2>1, <2>2 DEF SleepqType, SleepqAdd
<1>10. BlockedSound(n)
  <2>1. ASSUME NEW i \in 1..Len(s.blocked) PROVE s.blocked[i] # td
    BY <1>1, <1>2 DEF BlockedSound
  <2>2. ASSUME NEW i \in 1..Len(n.blocked), NEW j \in 1..Len(n.blocked),
               n.blocked[i] = n.blocked[j]
        PROVE i = j
    BY <1>1, <1>2, <1>8, <2>1, <2>2 DEF BlockedSound
  <2>3. ASSUME NEW t \in Threads
        PROVE n.wchan[t] <=> \E i \in 1..Len(n.blocked) : n.blocked[i] = t
    BY <1>1, <1>2, <1>5, <1>8 DEF BlockedSound
  <2> QED BY <2>2, <2>3 DEF BlockedSound
<1>11. ObjectsSound(n)
  <2>1. ASSUME NEW t \in Threads PROVE n.sleepqueue[t] = NoOne <=> n.wchan[t]
    BY <1>1, <1>2, <1>5 DEF ObjectsSound
  <2>2. n.queue # NoOne /\ n.blocked # <<>>
    <3>1. n.queue # NoOne
      BY <1>3, <1>5
    <3>2. Len(n.blocked) # 0
      BY <1>2, <1>8
    <3> QED BY <3>1, <3>2
  <2>3. Len(n.freeq) = Len(n.blocked) - 1
    <3>1. CASE s.queue = NoOne
      BY <1>1, <1>2, <1>5, <1>8, <3>1 DEF ObjectsSound
    <3>2. CASE s.queue # NoOne
      BY <1>1, <1>2, <1>5, <1>6, <1>7, <1>8, <3>2 DEF ObjectsSound
    <3> QED BY <3>1, <3>2
  <2> QED BY <2>1, <2>2, <2>3 DEF ObjectsSound
<1>12. ObjectsDistinct(n)
  <2>1. /\ \A t, u \in Threads : s.sleepqueue[t] = s.sleepqueue[u] /\ s.sleepqueue[t] # NoOne => t = u
        /\ \A i, j \in 1..Len(s.freeq) : s.freeq[i] = s.freeq[j] => i = j
        /\ \A t \in Threads, i \in 1..Len(s.freeq) : s.freeq[i] # s.sleepqueue[t]
        /\ s.queue # NoOne =>
              /\ \A t \in Threads : s.queue # s.sleepqueue[t]
              /\ \A i \in 1..Len(s.freeq) : s.queue # s.freeq[i]
    BY <1>1 DEF ObjectsDistinct
  <2>2. /\ n.sleepqueue[td] = NoOne
        /\ \A t \in Threads \ {td} : n.sleepqueue[t] = s.sleepqueue[t]
    BY <1>2, <1>5
  <2>3. CASE s.queue = NoOne
    <3>1. Len(s.freeq) = 0
      BY <1>1, <2>3 DEF ObjectsSound
    <3> QED BY <1>2, <1>3, <1>5, <2>1, <2>2, <2>3, <3>1 DEF ObjectsDistinct
  <2>4. CASE s.queue # NoOne
    <3>1. n.freeq = p /\ n.queue = s.queue
      BY <1>5, <1>6, <2>4
    <3>2. ASSUME NEW i \in 1..Len(p), NEW j \in 1..Len(p), p[i] = p[j] PROVE i = j
      <4>1. i = 1 => j = 1
        BY <1>7, <2>1, <3>2
      <4>2. j = 1 => i = 1
        BY <1>7, <2>1, <3>2
      <4>3. CASE i # 1 /\ j # 1
        <5>1. i - 1 \in 1..Len(s.freeq) /\ j - 1 \in 1..Len(s.freeq)
          BY <1>2, <1>7, <4>3
        <5>2. p[i] = s.freeq[i - 1] /\ p[j] = s.freeq[j - 1]
          BY <1>2, <1>7, <4>3
        <5>3. i - 1 = j - 1
          BY <2>1, <3>2, <5>1, <5>2
        <5> QED BY <5>3
      <4> QED BY <4>1, <4>2, <4>3
    <3>3. ASSUME NEW t \in Threads, NEW i \in 1..Len(p) PROVE p[i] # n.sleepqueue[t]
      BY <1>2, <1>3, <1>7, <2>1, <2>2, NoOneAssumption
    <3>4. ASSUME NEW i \in 1..Len(p) PROVE s.queue # p[i]
      BY <1>2, <1>7, <2>1, <2>4
    <3>5. ASSUME NEW t \in Threads PROVE s.queue # n.sleepqueue[t]
      BY <2>1, <2>2, <2>4
    <3> QED BY <2>1, <2>2, <3>1, <3>2, <3>3, <3>4, <3>5 DEF ObjectsDistinct
  <2> QED BY <2>3, <2>4
<1> QED BY <1>4, <1>5, <1>9, <1>10, <1>11, <1>12 DEF Sound

NoTwice(list) == \A i, j \in 1..Len(list) : list[i] = list[j] => i = j

\* l is list without td.
Erased(list, td, l) ==
    /\ l \in Seq(Threads) /\ Len(l) = Len(list) - 1
    /\ NoTwice(l)
    /\ \A t \in Threads :
          (\E i \in 1..Len(l) : l[i] = t) <=> t # td /\ \E i \in 1..Len(list) : list[i] = t

\* Erasing a listed thread from a list without duplicates.
LEMMA WithoutFacts ==
    ASSUME NEW list \in Seq(Threads), NEW td, NEW at \in 1..Len(list), list[at] = td,
           NoTwice(list), NEW l, l = Without(list, td)
    PROVE  Erased(list, td, l)
<1>1. PICK k \in 1..Len(list) : Without(list, td) = RemoveAt(list, k) /\ list[k] = td
  BY DEF Without
<1>2. PICK m : m = RemoveAt(list, k)
  OBVIOUS
<1>3. /\ m \in Seq(Threads) /\ Len(m) = Len(list) - 1
      /\ \A j \in 1..(Len(list) - 1) : m[j] = IF j < k THEN list[j] ELSE list[j + 1]
  BY <1>2, RemoveAtFacts
<1>4. ASSUME NEW i \in 1..Len(m), NEW j \in 1..Len(m), m[i] = m[j] PROVE i = j
  <2>1. PICK i2 \in 1..Len(list) : i2 = (IF i < k THEN i ELSE i + 1) /\ m[i] = list[i2]
    BY <1>3
  <2>2. PICK j2 \in 1..Len(list) : j2 = (IF j < k THEN j ELSE j + 1) /\ m[j] = list[j2]
    BY <1>3
  <2>3. i2 = j2
    BY <1>4, <2>1, <2>2 DEF NoTwice
  <2> QED BY <2>1, <2>2, <2>3
<1>5. ASSUME NEW t \in Threads
      PROVE (\E i \in 1..Len(m) : m[i] = t) <=> t # td /\ \E i \in 1..Len(list) : list[i] = t
  <2>1. ASSUME NEW i \in 1..Len(m), m[i] = t PROVE t # td /\ \E j \in 1..Len(list) : list[j] = t
    <3>1. PICK j \in 1..Len(list) : j = (IF i < k THEN i ELSE i + 1) /\ m[i] = list[j]
      BY <1>3
    <3>2. j # k
      BY <3>1
    <3>3. list[j] # list[k]
      BY <3>2 DEF NoTwice
    <3> QED BY <1>1, <2>1, <3>1, <3>3
  <2>2. ASSUME t # td, NEW i \in 1..Len(list), list[i] = t PROVE \E j \in 1..Len(m) : m[j] = t
    <3>1. i # k
      BY <1>1, <2>2
    <3>2. CASE i < k
      BY <1>3, <2>2, <3>2
    <3>3. CASE i > k
      <4>1. i - 1 \in 1..Len(m) /\ m[i - 1] = list[i]
        BY <1>3, <3>3
      <4> QED BY <2>2, <4>1
    <3> QED BY <3>1, <3>2, <3>3
  <2> QED BY <2>1, <2>2
<1>6. l = m
  BY <1>1, <1>2
<1> QED BY <1>3, <1>4, <1>5, <1>6 DEF Erased, NoTwice

\* A blocked thread leaves, first, last or from the middle.
LEMMA RemoveSound ==
    ASSUME NEW s, Sound(s), NEW td \in Threads, s.wchan[td]
    PROVE  /\ Sound(SleepqRemove(s, td))
           /\ SleepqRemove(s, td).wchan = [s.wchan EXCEPT ![td] = FALSE]
<1>1. /\ SleepqType(s) /\ BlockedSound(s) /\ ObjectsSound(s) /\ ObjectsDistinct(s)
  BY DEF Sound
<1>2. /\ s.queue \in Threads \cup {NoOne} /\ s.freeq \in Seq(Threads)
      /\ s.blocked \in Seq(Threads) /\ s.wchan \in [Threads -> BOOLEAN]
      /\ s.sleepqueue \in [Threads -> Threads \cup {NoOne}]
  BY <1>1 DEF SleepqType
<1>b. PICK b : b = s.blocked
  OBVIOUS
<1>3. PICK n : n = SleepqRemove(s, td)
  OBVIOUS
<1>4. PICK l : l = Without(b, td)
  OBVIOUS
<1>5. PICK at \in 1..Len(b) : b[at] = td
  BY <1>1, <1>2, <1>b DEF BlockedSound
<1>6. /\ l \in Seq(Threads) /\ Len(l) = Len(b) - 1
      /\ \A i, j \in 1..Len(l) : l[i] = l[j] => i = j
      /\ \A t \in Threads :
            (\E i \in 1..Len(l) : l[i] = t) <=> t # td /\ \E i \in 1..Len(b) : b[i] = t
  <2>1. NoTwice(b)
    BY <1>1, <1>b DEF BlockedSound, NoTwice
  <2>2. b \in Seq(Threads)
    BY <1>2, <1>b
  <2>3. Erased(b, td, l)
    BY <1>4, <1>5, <2>1, <2>2, WithoutFacts
  <2> QED BY <2>3 DEF Erased, NoTwice
<1>7. /\ b # <<>> /\ s.queue \in Threads /\ Len(s.freeq) = Len(b) - 1
      /\ Len(b) \in Nat /\ Len(b) > 0
  <2>1. b \in Seq(Threads) /\ b # <<>> /\ Len(b) > 0
    BY <1>2, <1>5, <1>b
  <2> QED BY <1>1, <1>2, <1>b, <2>1 DEF ObjectsSound
<1>8. /\ n.blocked = l
      /\ n.wchan = [s.wchan EXCEPT ![td] = FALSE]
  BY <1>3, <1>4, <1>b DEF SleepqRemove
<1>9. BlockedSound(n)
  <2>1. ASSUME NEW t \in Threads
        PROVE n.wchan[t] <=> \E i \in 1..Len(n.blocked) : n.blocked[i] = t
    BY <1>1, <1>2, <1>6, <1>8, <1>b DEF BlockedSound
  <2> QED BY <1>6, <1>8, <2>1 DEF BlockedSound
<1>10. /\ \A t, u \in Threads : s.sleepqueue[t] = s.sleepqueue[u] /\ s.sleepqueue[t] # NoOne => t = u
       /\ \A i, j \in 1..Len(s.freeq) : s.freeq[i] = s.freeq[j] => i = j
       /\ \A t \in Threads, i \in 1..Len(s.freeq) : s.freeq[i] # s.sleepqueue[t]
       /\ \A t \in Threads : s.queue # s.sleepqueue[t]
       /\ \A i \in 1..Len(s.freeq) : s.queue # s.freeq[i]
  BY <1>1, <1>7, NoOneAssumption DEF ObjectsDistinct
<1>11. s.queue # NoOne
  BY <1>7, NoOneAssumption
<1>12. CASE Len(b) = 1
  <2>1. /\ n.queue = NoOne /\ n.freeq = s.freeq
        /\ n.sleepqueue = [s.sleepqueue EXCEPT ![td] = s.queue]
    BY <1>3, <1>12, <1>b DEF SleepqRemove
  <2>2. Len(s.freeq) = 0 /\ Len(l) = 0
    BY <1>6, <1>7, <1>12
  <2>3. SleepqType(n)
    <3>1. /\ n.queue \in Threads \cup {NoOne} /\ n.freeq \in Seq(Threads)
          /\ n.blocked \in Seq(Threads) /\ n.wchan \in [Threads -> BOOLEAN]
          /\ n.sleepqueue \in [Threads -> Threads \cup {NoOne}]
      BY <1>2, <1>6, <1>7, <1>8, <2>1
    <3> QED BY <1>3, <3>1 DEF SleepqType, SleepqRemove
  <2>4. ObjectsSound(n)
    <3>1. l = <<>>
      BY <1>6, <2>2
    <3>2. ASSUME NEW t \in Threads PROVE n.sleepqueue[t] = NoOne <=> n.wchan[t]
      BY <1>1, <1>2, <1>8, <1>11, <2>1 DEF ObjectsSound
    <3> QED BY <1>8, <2>1, <2>2, <3>1, <3>2 DEF ObjectsSound
  <2>5. ObjectsDistinct(n)
    <3>1. ASSUME NEW t \in Threads, NEW u \in Threads, n.sleepqueue[t] = n.sleepqueue[u],
                 n.sleepqueue[t] # NoOne
          PROVE t = u
      BY <1>2, <1>10, <2>1, <3>1
    <3> QED BY <2>1, <2>2, <3>1 DEF ObjectsDistinct
  <2> QED BY <1>3, <1>8, <1>9, <2>3, <2>4, <2>5 DEF Sound
<1>13. CASE Len(b) # 1
  <2>1. /\ n.queue = s.queue /\ n.freeq = Tail(s.freeq)
        /\ n.sleepqueue = [s.sleepqueue EXCEPT ![td] = Head(s.freeq)]
    BY <1>3, <1>13, <1>b DEF SleepqRemove
  <2>2. Len(s.freeq) > 0 /\ Len(l) > 0
    <3>1. Len(b) > 1
      <4>1. Len(b) \in Nat /\ Len(b) > 0 /\ Len(b) # 1
        BY <1>7, <1>13, Zenon
      <4> QED BY <4>1, SMTT(30)
    <3>2. Len(l) = Len(b) - 1 /\ Len(s.freeq) = Len(b) - 1
      BY <1>6, <1>7
    <3> QED BY <1>7, <3>1, <3>2
  <2>3. PICK h : h = s.freeq[1]
    OBVIOUS
  <2>4. PICK f : f = Tail(s.freeq)
    OBVIOUS
  <2>5. h \in Threads /\ Head(s.freeq) = h
    BY <1>2, <2>2, <2>3
  <2>6. /\ f \in Seq(Threads) /\ Len(f) = Len(s.freeq) - 1
        /\ \A i \in 1..Len(f) : f[i] = s.freeq[i + 1] /\ i + 1 \in 2..Len(s.freeq)
    BY <1>2, <2>2, <2>4
  <2>7. /\ \A t \in Threads : h # s.sleepqueue[t]
        /\ \A i \in 2..Len(s.freeq) : h # s.freeq[i]
        /\ h # s.queue /\ h # NoOne
    BY <1>2, <1>10, <2>2, <2>3, <2>5, NoOneAssumption
  <2>8. n.freeq = f /\ n.sleepqueue = [s.sleepqueue EXCEPT ![td] = h]
    BY <2>1, <2>4, <2>5
  <2>9. SleepqType(n)
    <3>1. /\ n.queue \in Threads \cup {NoOne} /\ n.freeq \in Seq(Threads)
          /\ n.blocked \in Seq(Threads) /\ n.wchan \in [Threads -> BOOLEAN]
          /\ n.sleepqueue \in [Threads -> Threads \cup {NoOne}]
      BY <1>2, <1>6, <1>8, <2>1, <2>5, <2>6, <2>8
    <3> QED BY <1>3, <3>1 DEF SleepqType, SleepqRemove
  <2>10. ObjectsSound(n)
    <3>1. l # <<>>
      BY <2>2
    <3>2. ASSUME NEW t \in Threads PROVE n.sleepqueue[t] = NoOne <=> n.wchan[t]
      BY <1>1, <1>2, <1>8, <2>7, <2>8 DEF ObjectsSound
    <3>3. Len(f) = Len(l) - 1
      BY <1>6, <1>7, <2>6
    <3> QED BY <1>8, <1>11, <2>1, <2>8, <3>1, <3>2, <3>3 DEF ObjectsSound
  <2>11. ObjectsDistinct(n)
    <3>1. ASSUME NEW t \in Threads, NEW u \in Threads, n.sleepqueue[t] = n.sleepqueue[u],
                 n.sleepqueue[t] # NoOne
          PROVE t = u
      BY <1>2, <1>10, <2>7, <2>8, <3>1
    <3>2. ASSUME NEW i \in 1..Len(f), NEW j \in 1..Len(f), f[i] = f[j] PROVE i = j
      BY <1>2, <1>10, <2>6, <3>2
    <3>3. ASSUME NEW t \in Threads, NEW i \in 1..Len(f) PROVE f[i] # n.sleepqueue[t]
      BY <1>2, <1>10, <2>6, <2>7, <2>8
    <3>4. ASSUME NEW t \in Threads PROVE s.queue # n.sleepqueue[t]
      BY <1>2, <1>10, <2>7, <2>8
    <3>5. ASSUME NEW i \in 1..Len(f) PROVE s.queue # f[i]
      BY <1>10, <2>6
    <3>6. n.freeq = f /\ n.queue = s.queue
      BY <2>1, <2>8
    <3> QED BY <3>1, <3>2, <3>3, <3>4, <3>5, <3>6 DEF ObjectsDistinct
  <2> QED BY <1>3, <1>8, <1>9, <2>9, <2>10, <2>11 DEF Sound
<1> QED BY <1>12, <1>13

\* All blocked threads leave at once, each with an object of its own.
LEMMA DropSound ==
    ASSUME NEW s, Sound(s), s.blocked # <<>>
    PROVE  /\ Sound(SleepqDrop(s))
           /\ \A t \in Threads : SleepqDrop(s).wchan[t] = FALSE
<1>1. /\ SleepqType(s) /\ BlockedSound(s) /\ ObjectsSound(s) /\ ObjectsDistinct(s)
  BY DEF Sound
<1>2. /\ s.queue \in Threads \cup {NoOne} /\ s.freeq \in Seq(Threads)
      /\ s.blocked \in Seq(Threads) /\ s.wchan \in [Threads -> BOOLEAN]
      /\ s.sleepqueue \in [Threads -> Threads \cup {NoOne}]
  BY <1>1 DEF SleepqType
<1>3. PICK b, f, q, o, w :
          b = s.blocked /\ f = s.freeq /\ q = s.queue /\ o = s.sleepqueue /\ w = s.wchan
  OBVIOUS
<1>4. PICK n : n = SleepqDrop(s)
  OBVIOUS
<1> DEFINE At(t) == {i \in 1..Len(b) : b[i] = t}
           Object(i) == IF i = 1 THEN q ELSE f[i - 1]
<1>5. /\ n.queue = NoOne /\ n.freeq = <<>> /\ n.blocked = <<>>
      /\ n.sleepqueue = [t \in Threads |-> IF At(t) = {} THEN o[t]
                                           ELSE Object(CHOOSE i \in At(t) : TRUE)]
      /\ n.wchan = [t \in Threads |-> w[t] /\ At(t) = {}]
  BY <1>3, <1>4 DEF SleepqDrop
<1>6. /\ b \in Seq(Threads) /\ f \in Seq(Threads) /\ q \in Threads /\ q # NoOne
      /\ Len(b) \in Nat /\ Len(b) > 0 /\ Len(f) = Len(b) - 1
  <2>1. q \in Threads /\ b # <<>> /\ Len(s.freeq) = Len(s.blocked) - 1
    BY <1>1, <1>2, <1>3 DEF ObjectsSound
  <2>2. b \in Seq(Threads) /\ f \in Seq(Threads) /\ Len(f) = Len(b) - 1
    BY <1>2, <1>3, <2>1
  <2> QED BY <2>1, <2>2, NoOneAssumption
<1>7. /\ \A i, j \in 1..Len(b) : b[i] = b[j] => i = j
      /\ \A t \in Threads : w[t] <=> \E i \in 1..Len(b) : b[i] = t
      /\ w \in [Threads -> BOOLEAN] /\ o \in [Threads -> Threads \cup {NoOne}]
      /\ \A t \in Threads : o[t] = NoOne <=> w[t]
  BY <1>1, <1>2, <1>3 DEF BlockedSound, ObjectsSound
<1>8. /\ \A t, u \in Threads : o[t] = o[u] /\ o[t] # NoOne => t = u
      /\ \A i, j \in 1..Len(f) : f[i] = f[j] => i = j
      /\ \A t \in Threads, i \in 1..Len(f) : f[i] # o[t]
      /\ \A t \in Threads : q # o[t]
      /\ \A i \in 1..Len(f) : q # f[i]
  <2>1. s.queue # NoOne
    BY <1>3, <1>6
  <2> QED BY <1>1, <1>3, <2>1 DEF ObjectsDistinct
<1>9. \A t \in Threads : w[t] <=> At(t) # {}
  BY <1>7
<1>10. ASSUME NEW i \in 1..Len(b), i # 1 PROVE i - 1 \in 1..Len(f)
  BY <1>6, <1>10
<1>11. ASSUME NEW i \in 1..Len(b)
       PROVE /\ Object(i) \in Threads /\ \A t \in Threads : Object(i) # o[t]
  <2>1. CASE i = 1
    BY <1>6, <1>8, <2>1
  <2>2. CASE i # 1
    <3>1. i - 1 \in 1..Len(f) /\ f[i - 1] \in Threads
      BY <1>6, <1>10, <2>2
    <3> QED BY <1>8, <2>2, <3>1
  <2> QED BY <2>1, <2>2
<1>12. ASSUME NEW i \in 1..Len(b), NEW j \in 1..Len(b), Object(i) = Object(j) PROVE i = j
  <2>1. CASE i = 1 /\ j = 1
    BY <2>1
  <2>2. CASE i # 1 /\ j = 1
    BY <1>8, <1>10, <1>12, <2>2
  <2>3. CASE i = 1 /\ j # 1
    BY <1>8, <1>10, <1>12, <2>3
  <2>4. CASE i # 1 /\ j # 1
    <3>1. i - 1 = j - 1
      BY <1>8, <1>10, <1>12, <2>4
    <3> QED BY <3>1
  <2> QED BY <2>1, <2>2, <2>3, <2>4
<1>13. ASSUME NEW t \in Threads, w[t]
       PROVE \E i \in 1..Len(b) : b[i] = t /\ n.sleepqueue[t] = Object(i)
  <2>1. At(t) # {}
    BY <1>9, <1>13
  <2>2. PICK i : i = CHOOSE j \in At(t) : TRUE
    OBVIOUS
  <2>3. i \in At(t)
    BY <2>1, <2>2
  <2>4. n.sleepqueue[t] = Object(i)
    BY <1>5, <2>1, <2>2
  <2> QED BY <2>3, <2>4
<1>14. ASSUME NEW t \in Threads, ~w[t] PROVE n.sleepqueue[t] = o[t] /\ o[t] # NoOne
  BY <1>5, <1>7, <1>9, <1>14
<1> HIDE DEF At, Object
<1>15. ASSUME NEW t \in Threads PROVE n.wchan[t] = FALSE /\ n.sleepqueue[t] \in Threads
  <2>1. n.wchan[t] = FALSE
    <3>1. n.wchan[t] = (w[t] /\ At(t) = {})
      BY <1>5, Zenon
    <3> QED BY <1>9, <3>1, Zenon
  <2>2. CASE w[t]
    <3>1. PICK i \in 1..Len(b) : n.sleepqueue[t] = Object(i)
      BY <1>13, <2>2
    <3> QED BY <1>11, <2>1, <3>1
  <2>3. CASE ~w[t]
    <3>1. o[t] \in Threads
      BY <1>7, <1>14, <2>3
    <3> QED BY <1>14, <2>1, <2>3, <3>1
  <2> QED BY <2>1, <2>2, <2>3
<1>16. ASSUME NEW t \in Threads, NEW u \in Threads, n.sleepqueue[t] = n.sleepqueue[u] PROVE t = u
  <2>1. CASE w[t] /\ w[u]
    <3>1. PICK i \in 1..Len(b) : b[i] = t /\ n.sleepqueue[t] = Object(i)
      BY <1>13, <2>1
    <3>2. PICK j \in 1..Len(b) : b[j] = u /\ n.sleepqueue[u] = Object(j)
      BY <1>13, <2>1
    <3> QED BY <1>12, <1>16, <3>1, <3>2
  <2>2. CASE w[t] /\ ~w[u]
    BY <1>11, <1>13, <1>14, <1>16, <2>2
  <2>3. CASE ~w[t] /\ w[u]
    BY <1>11, <1>13, <1>14, <1>16, <2>3
  <2>4. CASE ~w[t] /\ ~w[u]
    BY <1>8, <1>14, <1>16, <2>4
  <2> QED BY <2>1, <2>2, <2>3, <2>4
<1>17. SleepqType(n)
  <2>1. n.sleepqueue \in [Threads -> Threads \cup {NoOne}] /\ n.wchan \in [Threads -> BOOLEAN]
    BY <1>5, <1>15
  <2>2. n.queue \in Threads \cup {NoOne} /\ n.freeq \in Seq(Threads) /\ n.blocked \in Seq(Threads)
    BY <1>5
  <2> QED BY <1>4, <2>1, <2>2 DEF SleepqType, SleepqDrop
<1>18. /\ n.queue = NoOne /\ n.freeq = <<>> /\ n.blocked = <<>>
       /\ Len(n.freeq) = 0 /\ Len(n.blocked) = 0
  BY <1>5
<1>19. BlockedSound(n)
  <2>1. 1..Len(n.blocked) = {}
    BY <1>18
  <2>2. \A t \in Threads : ~n.wchan[t]
    BY <1>15, Zenon
  <2> QED BY <2>1, <2>2, Zenon DEF BlockedSound
<1>20. ObjectsSound(n)
  BY <1>15, <1>18, NoOneAssumption DEF ObjectsSound
<1>21. ObjectsDistinct(n)
  BY <1>16, <1>18 DEF ObjectsDistinct
<1> QED BY <1>4, <1>15, <1>17, <1>19, <1>20, <1>21 DEF Sound

-----------------------------------------------------------------------------
(* The steps of CondVar. *)

\* The deferral array holds at least one waiter and at most MaxDeferWaiters when a wake is over.
LEMMA FlushedFacts ==
    ASSUME NEW n \in Nat \ {0}
    PROVE  Flushed(n) \in 0..(n - 1) /\ n - Flushed(n) <= MaxDeferWaiters
<1>1. PICK m \in Nat : m = MaxDeferWaiters /\ m > 0
  BY CondAssumption
<1>2. PICK d \in Nat : d = (n - 1) \div m /\ m * d <= n - 1 /\ n - 1 < m * d + m
  BY <1>1
<1>3. m * d \in Nat /\ d * m = m * d
  BY <1>1, <1>2
<1>4. Flushed(n) = m * d
  BY <1>1, <1>2, <1>3 DEF Flushed
<1> QED BY <1>1, <1>2, <1>3, <1>4

Listed(list, t) == \E i \in DOMAIN list : list[i] = t

\* One release each: nobody's semaphore falls, a listed thread's is above zero.
LEMMA ReleasedFacts ==
    ASSUME wake_sema \in [Threads -> Nat], NEW list \in Seq(Threads)
    PROVE  /\ Released(list) \in [Threads -> Nat]
           /\ \A u \in Threads : Released(list)[u] >= wake_sema[u]
           /\ \A u \in Threads : Listed(list, u) => Released(list)[u] > 0
<1> DEFINE At(u) == {i \in DOMAIN list : list[i] = u}
<1>1. ASSUME NEW u \in Threads
      PROVE Cardinality(At(u)) \in Nat /\ (Listed(list, u) => Cardinality(At(u)) > 0)
  <2>1. DOMAIN list = 1..Len(list) /\ Len(list) \in Nat
    OBVIOUS
  <2>2. IsFiniteSet(1..Len(list))
    BY <2>1, FS_Interval
  <2>3. At(u) \subseteq 1..Len(list)
    BY <2>1
  <2>4. IsFiniteSet(At(u))
    BY <2>2, <2>3, FS_Subset
  <2>5. Cardinality(At(u)) \in Nat /\ (Cardinality(At(u)) = 0 <=> At(u) = {})
    BY <2>4, FS_CardinalityType, FS_EmptySet
  <2>6. Listed(list, u) => At(u) # {}
    BY DEF Listed
  <2> HIDE DEF At
  <2> QED BY <2>5, <2>6
<1>2. Released(list) = [u \in Threads |-> wake_sema[u] + Cardinality(At(u))]
  BY DEF Released
<1> HIDE DEF At
<1> QED BY <1>1, <1>2

\* A thread is inside Release exactly while it has somebody to release.
ReleaseHas == \A t \in Threads : pc[t] = "release" <=> immediate[t] # <<>>

QueuedPc ==
    \A t \in Threads : sleepq.wchan[t] => pc[t] \in {"w_check", "w_presleep", "w_sleep", "w_result"}

\* Splitting a list loses nobody.
LEMMA SplitFacts ==
    ASSUME NEW a \in Seq(Threads), NEW k \in 0..Len(a)
    PROVE  /\ SubSeq(a, 1, k) \in Seq(Threads)
           /\ SubSeq(a, k + 1, Len(a)) \in Seq(Threads)
           /\ Len(SubSeq(a, k + 1, Len(a))) = Len(a) - k
           /\ \A x : Listed(a, x) =>
                Listed(SubSeq(a, 1, k), x) \/ Listed(SubSeq(a, k + 1, Len(a)), x)
<1>1. PICK l, r : l = SubSeq(a, 1, k) /\ r = SubSeq(a, k + 1, Len(a))
  OBVIOUS
<1>2. l \in Seq(Threads) /\ Len(l) = k /\ \A i \in 1..k : l[i] = a[i]
  BY <1>1
<1>3. r \in Seq(Threads) /\ Len(r) = Len(a) - k /\ \A i \in 1..(Len(a) - k) : r[i] = a[i + k]
  BY <1>1
<1>4. ASSUME NEW x, Listed(a, x) PROVE Listed(l, x) \/ Listed(r, x)
  <2>1. PICK i \in 1..Len(a) : a[i] = x
    BY <1>4 DEF Listed
  <2>2. CASE i <= k
    BY <1>2, <2>1, <2>2 DEF Listed
  <2>3. CASE i > k
    <3>1. i - k \in 1..Len(r) /\ r[i - k] = x
      BY <1>3, <2>1, <2>3
    <3> QED BY <1>3, <3>1 DEF Listed
  <2> QED BY <2>2, <2>3
<1> QED BY <1>1, <1>2, <1>3, <1>4

\* What Wake does with the waiters of the list: each is released, or kept by t among the waiters it
\* releases itself or among those the flag on its mutex stands for.
Woken(t, list) ==
    /\ wake_sema' \in [Threads -> Nat]
    /\ \A u \in Threads : wake_sema'[u] >= wake_sema[u]
    /\ defer_waiters' \in [Threads -> Seq(Threads)]
    /\ \A u \in Threads : Len(defer_waiters'[u]) <= MaxDeferWaiters
    /\ immediate' \in [Threads -> Seq(Threads)]
    /\ \A u \in Threads \ {t} :
          defer_waiters'[u] = defer_waiters[u] /\ immediate'[u] = immediate[u] /\ pc'[u] = pc[u]
    /\ \A x \in Threads : Listed(list, x) =>
          \/ wake_sema'[x] > 0
          \/ Listed(immediate'[t], x)
          \/ Listed(defer_waiters'[t], x) /\ owner = t /\ deferred' = TRUE
    /\ \A x \in Threads : Listed(defer_waiters[t], x) =>
          wake_sema'[x] > 0 \/ Listed(defer_waiters'[t], x)
    /\ \/ deferred' = TRUE /\ owner = t /\ pc' = pc /\ immediate' = immediate
       \/ /\ deferred' = deferred /\ defer_waiters' = defer_waiters
          /\ pc' = [pc EXCEPT ![t] = "release"] /\ immediate'[t] # <<>>

LEMMA WakeFacts ==
    ASSUME TypeOK, NEW t \in Threads, NEW list \in Seq(Threads), list # <<>>, Wake(t, list)
    PROVE  Woken(t, list)
<1>1. PICK d : d = Defers(t, Head(list))
  OBVIOUS
<1>2. PICK a : a = IF d THEN defer_waiters[t] \o list ELSE list
  OBVIOUS
<1>3. PICK k : k = Flushed(Len(a))
  OBVIOUS
<1>4. PICK l, r : l = SubSeq(a, 1, k) /\ r = SubSeq(a, k + 1, Len(a))
  OBVIOUS
<1>5. /\ wake_sema' = Released(l)
      /\ IF d
         THEN /\ defer_waiters' = [defer_waiters EXCEPT ![t] = r]
              /\ deferred' = TRUE
              /\ UNCHANGED <<immediate, pc>>
         ELSE /\ immediate' = [immediate EXCEPT ![t] = r]
              /\ Goto(t, "release")
              /\ UNCHANGED <<defer_waiters, deferred>>
  BY <1>1, <1>2, <1>3, <1>4 DEF Wake
<1>6. /\ wake_sema \in [Threads -> Nat] /\ defer_waiters \in [Threads -> Seq(Threads)]
      /\ immediate \in [Threads -> Seq(Threads)] /\ pc \in [Threads -> PcStates]
      /\ \A u \in Threads : Len(defer_waiters[u]) <= MaxDeferWaiters
  BY DEF TypeOK
<1>7. /\ a \in Seq(Threads) /\ Len(a) \in Nat \ {0}
      /\ \A x \in Threads : Listed(list, x) => Listed(a, x)
      /\ d => \A x \in Threads : Listed(defer_waiters[t], x) => Listed(a, x)
  <2>1. Len(list) \in Nat \ {0}
    OBVIOUS
  <2>2. CASE d
    <3>1. PICK w \in Seq(Threads) : w = defer_waiters[t]
      BY <1>6
    <3>2. /\ a \in Seq(Threads) /\ Len(a) = Len(w) + Len(list)
          /\ \A i \in 1..Len(w) : a[i] = w[i]
          /\ \A i \in 1..Len(list) : a[i + Len(w)] = list[i]
      BY <1>2, <2>2, <3>1
    <3>3. ASSUME NEW x \in Threads, Listed(w, x) PROVE Listed(a, x)
      BY <3>2, <3>3 DEF Listed
    <3>4. ASSUME NEW x \in Threads, Listed(list, x) PROVE Listed(a, x)
      <4>1. PICK i \in 1..Len(list) : list[i] = x
        BY <3>4 DEF Listed
      <4>2. i + Len(w) \in 1..Len(a) /\ a[i + Len(w)] = x
        BY <3>2, <4>1
      <4> QED BY <3>2, <4>2 DEF Listed
    <3> QED BY <2>1, <3>1, <3>2, <3>3, <3>4
  <2>3. CASE ~d
    BY <1>2, <2>1, <2>3
  <2> QED BY <2>2, <2>3
<1>8. k \in 0..(Len(a) - 1) /\ Len(a) - k <= MaxDeferWaiters
  BY <1>3, <1>7, FlushedFacts
<1>9. /\ l \in Seq(Threads) /\ r \in Seq(Threads) /\ Len(r) = Len(a) - k
      /\ \A x : Listed(a, x) => Listed(l, x) \/ Listed(r, x)
  <2>1. k \in 0..Len(a)
    BY <1>7, <1>8
  <2> QED BY <1>4, <1>7, <2>1, SplitFacts
<1>10. r # <<>> /\ Len(r) <= MaxDeferWaiters
  BY <1>7, <1>8, <1>9
<1>11. /\ wake_sema' \in [Threads -> Nat]
       /\ \A u \in Threads : wake_sema'[u] >= wake_sema[u]
       /\ \A u \in Threads : Listed(l, u) => wake_sema'[u] > 0
  BY <1>5, <1>6, <1>9, ReleasedFacts
<1>12. CASE d
  <2>1. owner = t
    BY <1>1, <1>12 DEF Defers
  <2>2. /\ defer_waiters' = [defer_waiters EXCEPT ![t] = r]
        /\ deferred' = TRUE /\ immediate' = immediate /\ pc' = pc
    BY <1>5, <1>12
  <2>3. ASSUME NEW x \in Threads, Listed(list, x) \/ Listed(defer_waiters[t], x)
        PROVE wake_sema'[x] > 0 \/ Listed(defer_waiters'[t], x)
    BY <1>6, <1>7, <1>9, <1>11, <1>12, <2>2, <2>3
  <2> QED BY <1>6, <1>9, <1>10, <1>11, <2>1, <2>2, <2>3 DEF Woken
<1>13. CASE ~d
  <2>1. /\ immediate' = [immediate EXCEPT ![t] = r] /\ pc' = [pc EXCEPT ![t] = "release"]
        /\ defer_waiters' = defer_waiters /\ deferred' = deferred
    BY <1>5, <1>13 DEF Goto
  <2>2. ASSUME NEW x \in Threads, Listed(list, x)
        PROVE wake_sema'[x] > 0 \/ Listed(immediate'[t], x)
    BY <1>6, <1>7, <1>9, <1>11, <2>1, <2>2
  <2> QED BY <1>6, <1>9, <1>10, <1>11, <2>1, <2>2 DEF Woken
<1> QED BY <1>12, <1>13

\* The type invariant in parts.
ControlOK ==
    /\ owner \in Threads \cup {NoOne} /\ deferred \in BOOLEAN /\ chain \in Threads \cup {NoOne}
    /\ timed \in [Threads -> BOOLEAN] /\ error \in [Threads -> BOOLEAN]
    /\ will_sleep \in [Threads -> BOOLEAN] /\ mutex_obj \in [Threads -> BOOLEAN]
    /\ cancel_pending \in [Threads -> BOOLEAN] /\ cancel_enable \in [Threads -> BOOLEAN]
    /\ exiting \in [Threads -> BOOLEAN]

CountsOK ==
    /\ count \in Nat /\ recurse \in [Threads -> Nat] /\ held \in [Threads -> Nat]
    /\ budget \in 0..MaxCalls

PcOK == pc \in [Threads -> PcStates]

ListsOK ==
    /\ wake_sema \in [Threads -> Nat]
    /\ defer_waiters \in [Threads -> Seq(Threads)]
    /\ \A t \in Threads : Len(defer_waiters[t]) <= MaxDeferWaiters
    /\ immediate \in [Threads -> Seq(Threads)]

LEMMA TypeParts ==
    TypeOK <=> ControlOK /\ CountsOK /\ PcOK /\ ListsOK /\ SleepqType(sleepq)
BY DEF TypeOK, ControlOK, CountsOK, PcOK, ListsOK

\* A thread unlocks what it has locked, and a waiter has stored how often.
RecursionInv ==
    /\ RecursionRestored
    /\ \A t \in Threads :
          /\ pc[t] = "w_enter" => owner = t
          /\ pc[t] \in (Waiting \ {"w_enter"}) \cup {"lock", "unlocked"} => owner # t
    /\ owner = NoOne => count = 0
    /\ ~Recursive => count = 0 /\ \A t \in Threads : recurse[t] = 0

\* A step of the mutex, of Wait, of a signal or of a cancellation keeps the types.
\* What a signal or a broadcast has done to the lists.
LEMMA SignalWakes ==
    ASSUME TypeOK, NEW t \in Threads, NEW td \in Threads, Signal(t, td)
    PROVE  Woken(t, <<td>>)
<1>1. <<td>> \in Seq(Threads) /\ <<td>> # <<>>
  OBVIOUS
<1>2. Wake(t, <<td>>)
  BY DEF Signal
<1> QED BY <1>1, <1>2, WakeFacts

LEMMA BroadcastWakes ==
    ASSUME TypeOK, NEW t \in Threads, Broadcast(t)
    PROVE  Woken(t, sleepq.blocked)
<1>1. sleepq.blocked \in Seq(Threads) /\ sleepq.blocked # <<>> /\ Wake(t, sleepq.blocked)
  BY DEF Broadcast, TypeOK, SleepqType
<1> QED BY <1>1, WakeFacts

\* Every step keeps each part of the types.
LEMMA ControlStep ==
    ASSUME TypeOK, ControlOK, [Next]_vars
    PROVE  ControlOK'
<1>1. ASSUME NEW t \in Threads, NEW kind \in {"lock", "timed", "try"}, MutexLock(t, kind)
      PROVE ControlOK'
  BY <1>1 DEF MutexLock, Call, SelfLock, Goto, wakeVars, cancelVars, ControlOK
<1>2. ASSUME NEW t \in Threads, NEW deadline \in BOOLEAN, CallWait(t, deadline)
      PROVE ControlOK'
  BY <1>2 DEF CallWait, Call, TestCancel, Goto, mutexVars, wakeVars, ControlOK
<1>3. ASSUME NEW t \in Threads, NEW td \in Threads, Signal(t, td)
      PROVE ControlOK'
  BY <1>3, SignalWakes DEF Signal, Woken, waitVars, cancelVars, ControlOK
<1>4. ASSUME NEW t \in Threads, Broadcast(t)
      PROVE ControlOK'
  BY <1>4, BroadcastWakes DEF Broadcast, Woken, waitVars, cancelVars, ControlOK
<1>5. ASSUME NEW t \in Threads, NEW td \in Cancellable, Cancel(t, td)
      PROVE ControlOK'
  BY <1>5 DEF Cancel, Call, Goto, mutexVars, waitVars, ControlOK
<1>6. ASSUME NEW t \in Threads, NEW enable \in BOOLEAN, SetCancelState(t, enable)
      PROVE ControlOK'
  BY <1>6 DEF SetCancelState, Call, Goto, mutexVars, waitVars, wakeVars, ControlOK
<1>7. ASSUME NEW t \in Threads, LockAcquire(t)
      PROVE ControlOK'
  BY <1>7 DEF LockAcquire, Goto, waitVars, wakeVars, cancelVars, ControlOK
<1>8. ASSUME NEW t \in Threads, LockTimeout(t)
      PROVE ControlOK'
  BY <1>8 DEF LockTimeout, Goto, mutexVars, waitVars, wakeVars, cancelVars, ControlOK
<1>9. ASSUME NEW t \in Threads, UnlockWake(t)
      PROVE ControlOK'
  BY <1>9 DEF UnlockWake, WakeAll, AfterUnlock, Goto, mutexVars, waitVars, cancelVars, ControlOK
<1>10. ASSUME NEW t \in Threads, WaitUnlock(t)
      PROVE ControlOK'
  BY <1>10 DEF WaitUnlock, Goto, cancelVars, ControlOK
<1>11. ASSUME NEW t \in Threads, WaitAdd(t)
      PROVE ControlOK'
  BY <1>11 DEF WaitAdd, ClearWake, Goto, mutexVars, cancelVars, ControlOK
<1>12. ASSUME NEW t \in Threads, WaitCheck(t)
      PROVE ControlOK'
  BY <1>12 DEF WaitCheck, Goto, mutexVars, wakeVars, cancelVars, ControlOK
<1>13. ASSUME NEW t \in Threads, WaitPresleep(t)
      PROVE ControlOK'
  BY <1>13 DEF WaitPresleep, WakeAll, Goto, mutexVars, waitVars, cancelVars, ControlOK
<1>14. ASSUME NEW t \in Threads, WaitAcquire(t)
      PROVE ControlOK'
  BY <1>14 DEF WaitAcquire, Goto, mutexVars, waitVars, cancelVars, ControlOK
<1>15. ASSUME NEW t \in Threads, WaitTimeout(t)
      PROVE ControlOK'
  BY <1>15 DEF WaitTimeout, Goto, mutexVars, wakeVars, cancelVars, ControlOK
<1>16. ASSUME NEW t \in Threads, WaitServed(t)
      PROVE ControlOK'
  BY <1>16 DEF WaitServed, Goto, mutexVars, wakeVars, cancelVars, ControlOK
<1>17. ASSUME NEW t \in Threads, WaitGiveUp(t)
      PROVE ControlOK'
  BY <1>17 DEF WaitGiveUp, Goto, mutexVars, wakeVars, cancelVars, ControlOK
<1>18. ASSUME NEW t \in Threads, WaitAgain(t)
      PROVE ControlOK'
  BY <1>18 DEF WaitAgain, ClearWake, Goto, mutexVars, waitVars, cancelVars, ControlOK
<1>19. ASSUME NEW t \in Threads, WaitRelock(t)
      PROVE ControlOK'
  BY <1>19 DEF WaitRelock, TestCancel, Goto, waitVars, wakeVars, ControlOK
<1>20. ASSUME NEW t \in Threads, Release(t)
      PROVE ControlOK'
  BY <1>20 DEF Release, Goto, mutexVars, waitVars, cancelVars, ControlOK
<1>21. ASSUME NEW t \in Threads, Exit(t)
      PROVE ControlOK'
  BY <1>21 DEF Exit, Goto, mutexVars, waitVars, wakeVars, cancelVars, ControlOK
<1>22. ASSUME NEW t \in Threads, Unlock(t)
      PROVE ControlOK'
  BY <1>22 DEF Unlock, AfterUnlock, Goto, waitVars, wakeVars, cancelVars, ControlOK
<1>23. CASE UNCHANGED vars
  BY <1>23 DEF vars, mutexVars, waitVars, wakeVars, cancelVars, ControlOK
<1> QED BY <1>1, <1>2, <1>3, <1>4, <1>5, <1>6, <1>7, <1>8, <1>9, <1>10, <1>11, <1>12, <1>13, <1>14,
           <1>15, <1>16, <1>17, <1>18, <1>19, <1>20, <1>21, <1>22, <1>23 DEF Next, Calls, Step

\* Whoever unlocks has locked.
LEMMA CountsStep ==
    ASSUME TypeOK, RecursionInv, CountsOK, [Next]_vars
    PROVE  CountsOK'
<1>1. ASSUME NEW t \in Threads, NEW kind \in {"lock", "timed", "try"}, MutexLock(t, kind)
      PROVE CountsOK'
  BY <1>1, CondAssumption DEF MutexLock, Call, SelfLock, Goto, wakeVars, cancelVars, CountsOK
<1>2. ASSUME NEW t \in Threads, NEW deadline \in BOOLEAN, CallWait(t, deadline)
      PROVE CountsOK'
  BY <1>2, CondAssumption DEF CallWait, Call, TestCancel, Goto, mutexVars, wakeVars, CountsOK
<1>3. ASSUME NEW t \in Threads, NEW td \in Threads, Signal(t, td)
      PROVE CountsOK'
  BY <1>3, CondAssumption DEF Signal, Call, waitVars, CountsOK
<1>4. ASSUME NEW t \in Threads, Broadcast(t)
      PROVE CountsOK'
  BY <1>4, CondAssumption DEF Broadcast, Call, waitVars, CountsOK
<1>5. ASSUME NEW t \in Threads, NEW td \in Cancellable, Cancel(t, td)
      PROVE CountsOK'
  BY <1>5, CondAssumption DEF Cancel, Call, Goto, mutexVars, waitVars, CountsOK
<1>6. ASSUME NEW t \in Threads, NEW enable \in BOOLEAN, SetCancelState(t, enable)
      PROVE CountsOK'
  BY <1>6, CondAssumption DEF SetCancelState, Call, Goto, mutexVars, waitVars, wakeVars, CountsOK
<1>7. ASSUME NEW t \in Threads, LockAcquire(t)
      PROVE CountsOK'
  BY <1>7 DEF LockAcquire, Goto, waitVars, wakeVars, cancelVars, CountsOK
<1>8. ASSUME NEW t \in Threads, LockTimeout(t)
      PROVE CountsOK'
  BY <1>8 DEF LockTimeout, Goto, mutexVars, waitVars, wakeVars, cancelVars, CountsOK
<1>9. ASSUME NEW t \in Threads, UnlockWake(t)
      PROVE CountsOK'
  BY <1>9 DEF UnlockWake, WakeAll, AfterUnlock, Goto, mutexVars, waitVars, cancelVars, CountsOK
<1>10. ASSUME NEW t \in Threads, WaitUnlock(t)
      PROVE CountsOK'
  BY <1>10 DEF WaitUnlock, Goto, cancelVars, CountsOK
<1>11. ASSUME NEW t \in Threads, WaitAdd(t)
      PROVE CountsOK'
  BY <1>11 DEF WaitAdd, ClearWake, Goto, mutexVars, cancelVars, CountsOK
<1>12. ASSUME NEW t \in Threads, WaitCheck(t)
      PROVE CountsOK'
  BY <1>12 DEF WaitCheck, Goto, mutexVars, wakeVars, cancelVars, CountsOK
<1>13. ASSUME NEW t \in Threads, WaitPresleep(t)
      PROVE CountsOK'
  BY <1>13 DEF WaitPresleep, WakeAll, Goto, mutexVars, waitVars, cancelVars, CountsOK
<1>14. ASSUME NEW t \in Threads, WaitAcquire(t)
      PROVE CountsOK'
  BY <1>14 DEF WaitAcquire, Goto, mutexVars, waitVars, cancelVars, CountsOK
<1>15. ASSUME NEW t \in Threads, WaitTimeout(t)
      PROVE CountsOK'
  BY <1>15 DEF WaitTimeout, Goto, mutexVars, wakeVars, cancelVars, CountsOK
<1>16. ASSUME NEW t \in Threads, WaitServed(t)
      PROVE CountsOK'
  BY <1>16 DEF WaitServed, Goto, mutexVars, wakeVars, cancelVars, CountsOK
<1>17. ASSUME NEW t \in Threads, WaitGiveUp(t)
      PROVE CountsOK'
  BY <1>17 DEF WaitGiveUp, Goto, mutexVars, wakeVars, cancelVars, CountsOK
<1>18. ASSUME NEW t \in Threads, WaitAgain(t)
      PROVE CountsOK'
  BY <1>18 DEF WaitAgain, ClearWake, Goto, mutexVars, waitVars, cancelVars, CountsOK
<1>19. ASSUME NEW t \in Threads, WaitRelock(t)
      PROVE CountsOK'
  BY <1>19 DEF WaitRelock, TestCancel, Goto, waitVars, wakeVars, CountsOK
<1>20. ASSUME NEW t \in Threads, Release(t)
      PROVE CountsOK'
  BY <1>20 DEF Release, Goto, mutexVars, waitVars, cancelVars, CountsOK
<1>21. ASSUME NEW t \in Threads, Exit(t)
      PROVE CountsOK'
  BY <1>21 DEF Exit, Goto, mutexVars, waitVars, wakeVars, cancelVars, CountsOK
<1>22. ASSUME NEW t \in Threads, Unlock(t)
      PROVE CountsOK'
  <2>1. held[t] > 0
    BY <1>22 DEF Unlock, RecursionInv, RecursionRestored, CountsOK, Waiting
  <2> QED BY <1>22, <2>1 DEF Unlock, AfterUnlock, Goto, waitVars, wakeVars, cancelVars, CountsOK
<1>23. CASE UNCHANGED vars
  BY <1>23 DEF vars, mutexVars, waitVars, wakeVars, cancelVars, CountsOK
<1> QED BY <1>1, <1>2, <1>3, <1>4, <1>5, <1>6, <1>7, <1>8, <1>9, <1>10, <1>11, <1>12, <1>13, <1>14,
           <1>15, <1>16, <1>17, <1>18, <1>19, <1>20, <1>21, <1>22, <1>23 DEF Next, Calls, Step

\* Every step is to a state of the thread.
LEMMA PcStep ==
    ASSUME TypeOK, PcOK, [Next]_vars
    PROVE  PcOK'
<1>1. ASSUME NEW t \in Threads, NEW kind \in {"lock", "timed", "try"}, MutexLock(t, kind)
      PROVE PcOK'
  BY <1>1 DEF MutexLock, Call, SelfLock, Goto, wakeVars, cancelVars, PcOK, PcStates, Waiting
<1>2. ASSUME NEW t \in Threads, NEW deadline \in BOOLEAN, CallWait(t, deadline)
      PROVE PcOK'
  BY <1>2 DEF CallWait, Call, TestCancel, Goto, mutexVars, wakeVars, PcOK, PcStates, Waiting
<1>3. ASSUME NEW t \in Threads, NEW td \in Threads, Signal(t, td)
      PROVE PcOK'
  BY <1>3, SignalWakes DEF Woken, PcOK, PcStates
<1>4. ASSUME NEW t \in Threads, Broadcast(t)
      PROVE PcOK'
  BY <1>4, BroadcastWakes DEF Woken, PcOK, PcStates
<1>5. ASSUME NEW t \in Threads, NEW td \in Cancellable, Cancel(t, td)
      PROVE PcOK'
  BY <1>5 DEF Cancel, Call, Goto, mutexVars, waitVars, PcOK, PcStates, Waiting
<1>6. ASSUME NEW t \in Threads, NEW enable \in BOOLEAN, SetCancelState(t, enable)
      PROVE PcOK'
  BY <1>6 DEF SetCancelState, Call, Goto, mutexVars, waitVars, wakeVars, PcOK, PcStates, Waiting
<1>7. ASSUME NEW t \in Threads, LockAcquire(t)
      PROVE PcOK'
  BY <1>7 DEF LockAcquire, Goto, waitVars, wakeVars, cancelVars, PcOK, PcStates, Waiting
<1>8. ASSUME NEW t \in Threads, LockTimeout(t)
      PROVE PcOK'
  BY <1>8 DEF LockTimeout, Goto, mutexVars, waitVars, wakeVars, cancelVars, PcOK, PcStates, Waiting
<1>9. ASSUME NEW t \in Threads, UnlockWake(t)
      PROVE PcOK'
  BY <1>9 DEF UnlockWake, WakeAll, AfterUnlock, Goto, mutexVars, waitVars, cancelVars, PcOK,
     PcStates, Waiting
<1>10. ASSUME NEW t \in Threads, WaitUnlock(t)
      PROVE PcOK'
  BY <1>10 DEF WaitUnlock, Goto, cancelVars, PcOK, PcStates, Waiting
<1>11. ASSUME NEW t \in Threads, WaitAdd(t)
      PROVE PcOK'
  BY <1>11 DEF WaitAdd, ClearWake, Goto, mutexVars, cancelVars, PcOK, PcStates, Waiting
<1>12. ASSUME NEW t \in Threads, WaitCheck(t)
      PROVE PcOK'
  BY <1>12 DEF WaitCheck, Goto, mutexVars, wakeVars, cancelVars, PcOK, PcStates, Waiting
<1>13. ASSUME NEW t \in Threads, WaitPresleep(t)
      PROVE PcOK'
  BY <1>13 DEF WaitPresleep, WakeAll, Goto, mutexVars, waitVars, cancelVars, PcOK, PcStates, Waiting
<1>14. ASSUME NEW t \in Threads, WaitAcquire(t)
      PROVE PcOK'
  BY <1>14 DEF WaitAcquire, Goto, mutexVars, waitVars, cancelVars, PcOK, PcStates, Waiting
<1>15. ASSUME NEW t \in Threads, WaitTimeout(t)
      PROVE PcOK'
  BY <1>15 DEF WaitTimeout, Goto, mutexVars, wakeVars, cancelVars, PcOK, PcStates, Waiting
<1>16. ASSUME NEW t \in Threads, WaitServed(t)
      PROVE PcOK'
  BY <1>16 DEF WaitServed, Goto, mutexVars, wakeVars, cancelVars, PcOK, PcStates, Waiting
<1>17. ASSUME NEW t \in Threads, WaitGiveUp(t)
      PROVE PcOK'
  BY <1>17 DEF WaitGiveUp, Goto, mutexVars, wakeVars, cancelVars, PcOK, PcStates, Waiting
<1>18. ASSUME NEW t \in Threads, WaitAgain(t)
      PROVE PcOK'
  BY <1>18 DEF WaitAgain, ClearWake, Goto, mutexVars, waitVars, cancelVars, PcOK, PcStates, Waiting
<1>19. ASSUME NEW t \in Threads, WaitRelock(t)
      PROVE PcOK'
  BY <1>19 DEF WaitRelock, TestCancel, Goto, waitVars, wakeVars, PcOK, PcStates, Waiting
<1>20. ASSUME NEW t \in Threads, Release(t)
      PROVE PcOK'
  BY <1>20 DEF Release, Goto, mutexVars, waitVars, cancelVars, PcOK, PcStates, Waiting
<1>21. ASSUME NEW t \in Threads, Exit(t)
      PROVE PcOK'
  BY <1>21 DEF Exit, Goto, mutexVars, waitVars, wakeVars, cancelVars, PcOK, PcStates, Waiting
<1>22. ASSUME NEW t \in Threads, Unlock(t)
      PROVE PcOK'
  BY <1>22 DEF Unlock, AfterUnlock, Goto, waitVars, wakeVars, cancelVars, PcOK, PcStates, Waiting
<1>23. CASE UNCHANGED vars
  BY <1>23 DEF vars, mutexVars, waitVars, wakeVars, cancelVars, PcOK, PcStates, Waiting
<1> QED BY <1>1, <1>2, <1>3, <1>4, <1>5, <1>6, <1>7, <1>8, <1>9, <1>10, <1>11, <1>12, <1>13, <1>14,
           <1>15, <1>16, <1>17, <1>18, <1>19, <1>20, <1>21, <1>22, <1>23 DEF Next, Calls, Step

\* Every step keeps the lists of waiters to release.
LEMMA ListsStep ==
    ASSUME TypeOK, PcOK, ListsOK, ReleaseHas, [Next]_vars
    PROVE  ListsOK' /\ ReleaseHas'
<1>1. ASSUME NEW t \in Threads, NEW kind \in {"lock", "timed", "try"}, MutexLock(t, kind)
      PROVE ListsOK' /\ ReleaseHas'
  <2>1. ListsOK'
    BY <1>1 DEF MutexLock, Call, SelfLock, Goto, wakeVars, cancelVars, ListsOK
  <2> QED BY <1>1, <2>1 DEF MutexLock, Call, SelfLock, Goto, wakeVars, cancelVars, PcOK, ReleaseHas
<1>2. ASSUME NEW t \in Threads, NEW deadline \in BOOLEAN, CallWait(t, deadline)
      PROVE ListsOK' /\ ReleaseHas'
  <2>1. ListsOK'
    BY <1>2 DEF CallWait, Call, TestCancel, Goto, mutexVars, wakeVars, ListsOK
  <2> QED BY <1>2, <2>1 DEF CallWait, Call, TestCancel, Goto, mutexVars, wakeVars, PcOK, ReleaseHas
<1>3. ASSUME NEW t \in Threads, NEW td \in Threads, Signal(t, td)
      PROVE ListsOK' /\ ReleaseHas'
  <2>1. Woken(t, <<td>>)
    BY <1>3, SignalWakes
  <2>2. ListsOK'
    BY <2>1 DEF Woken, ListsOK
  <2> QED BY <1>3, <2>1, <2>2 DEF Signal, Call, Woken, ListsOK, PcOK, ReleaseHas
<1>4. ASSUME NEW t \in Threads, Broadcast(t)
      PROVE ListsOK' /\ ReleaseHas'
  <2>1. Woken(t, sleepq.blocked)
    BY <1>4, BroadcastWakes
  <2>2. ListsOK'
    BY <2>1 DEF Woken, ListsOK
  <2> QED BY <1>4, <2>1, <2>2 DEF Broadcast, Call, Woken, ListsOK, PcOK, ReleaseHas
<1>5. ASSUME NEW t \in Threads, NEW td \in Cancellable, Cancel(t, td)
      PROVE ListsOK' /\ ReleaseHas'
  <2>1. immediate' = [immediate EXCEPT ![t] = <<td>>] /\ td \in Threads /\ <<td>> # <<>>
    BY <1>5, CondAssumption DEF Cancel
  <2>2. ListsOK'
    BY <1>5, <2>1 DEF Cancel, ListsOK
  <2> QED BY <1>5, <2>1, <2>2 DEF Cancel, Goto, PcOK, ListsOK, ReleaseHas
<1>6. ASSUME NEW t \in Threads, NEW enable \in BOOLEAN, SetCancelState(t, enable)
      PROVE ListsOK' /\ ReleaseHas'
  <2>1. ListsOK'
    BY <1>6 DEF SetCancelState, Call, Goto, mutexVars, waitVars, wakeVars, ListsOK
  <2> QED BY <1>6, <2>1 DEF SetCancelState, Call, Goto, mutexVars, waitVars, wakeVars, PcOK,
             ReleaseHas
<1>7. ASSUME NEW t \in Threads, LockAcquire(t)
      PROVE ListsOK' /\ ReleaseHas'
  <2>1. ListsOK'
    BY <1>7 DEF LockAcquire, Goto, waitVars, wakeVars, cancelVars, ListsOK
  <2> QED BY <1>7, <2>1 DEF LockAcquire, Goto, waitVars, wakeVars, cancelVars, PcOK, ReleaseHas
<1>8. ASSUME NEW t \in Threads, LockTimeout(t)
      PROVE ListsOK' /\ ReleaseHas'
  <2>1. ListsOK'
    BY <1>8 DEF LockTimeout, Goto, mutexVars, waitVars, wakeVars, cancelVars, ListsOK
  <2> QED BY <1>8, <2>1 DEF LockTimeout, Goto, mutexVars, waitVars, wakeVars, cancelVars, PcOK,
             ReleaseHas
<1>9. ASSUME NEW t \in Threads, UnlockWake(t)
      PROVE ListsOK' /\ ReleaseHas'
  <2>1. wake_sema' = Released(defer_waiters[t])
    BY <1>9 DEF UnlockWake, WakeAll
  <2>2. wake_sema' \in [Threads -> Nat]
    BY <2>1, ReleasedFacts DEF ListsOK
  <2>3. defer_waiters' = [defer_waiters EXCEPT ![t] = <<>>] /\ immediate' = immediate
    BY <1>9 DEF UnlockWake, WakeAll, AfterUnlock, Goto, mutexVars, waitVars, cancelVars
  <2>4. ListsOK'
    BY <2>2, <2>3, CondAssumption DEF ListsOK
  <2> QED BY <1>9, <2>3, <2>4 DEF UnlockWake, WakeAll, AfterUnlock, Goto, mutexVars, waitVars,
             cancelVars, PcOK, ReleaseHas
<1>10. ASSUME NEW t \in Threads, WaitUnlock(t)
      PROVE ListsOK' /\ ReleaseHas'
  <2>1. ListsOK'
    BY <1>10 DEF WaitUnlock, Goto, cancelVars, ListsOK
  <2> QED BY <1>10, <2>1 DEF WaitUnlock, Goto, cancelVars, PcOK, ReleaseHas
<1>11. ASSUME NEW t \in Threads, WaitAdd(t)
      PROVE ListsOK' /\ ReleaseHas'
  <2>1. ListsOK'
    BY <1>11 DEF WaitAdd, ClearWake, Goto, mutexVars, cancelVars, ListsOK
  <2> QED BY <1>11, <2>1 DEF WaitAdd, ClearWake, Goto, mutexVars, cancelVars, PcOK, ReleaseHas
<1>12. ASSUME NEW t \in Threads, WaitCheck(t)
      PROVE ListsOK' /\ ReleaseHas'
  <2>1. ListsOK'
    BY <1>12 DEF WaitCheck, Goto, mutexVars, wakeVars, cancelVars, ListsOK
  <2> QED BY <1>12, <2>1 DEF WaitCheck, Goto, mutexVars, wakeVars, cancelVars, PcOK, ReleaseHas
<1>13. ASSUME NEW t \in Threads, WaitPresleep(t)
      PROVE ListsOK' /\ ReleaseHas'
  <2>1. wake_sema' = Released(defer_waiters[t])
    BY <1>13 DEF WaitPresleep, WakeAll
  <2>2. wake_sema' \in [Threads -> Nat]
    BY <2>1, ReleasedFacts DEF ListsOK
  <2>3. defer_waiters' = [defer_waiters EXCEPT ![t] = <<>>] /\ immediate' = immediate
    BY <1>13 DEF WaitPresleep, WakeAll, Goto, mutexVars, waitVars, cancelVars
  <2>4. ListsOK'
    BY <2>2, <2>3, CondAssumption DEF ListsOK
  <2> QED BY <1>13, <2>3, <2>4 DEF WaitPresleep, WakeAll, Goto, mutexVars, waitVars, cancelVars,
             PcOK, ReleaseHas
<1>14. ASSUME NEW t \in Threads, WaitAcquire(t)
      PROVE ListsOK' /\ ReleaseHas'
  <2>1. ListsOK'
    BY <1>14 DEF WaitAcquire, Goto, mutexVars, waitVars, cancelVars, ListsOK
  <2> QED BY <1>14, <2>1 DEF WaitAcquire, Goto, mutexVars, waitVars, cancelVars, PcOK, ReleaseHas
<1>15. ASSUME NEW t \in Threads, WaitTimeout(t)
      PROVE ListsOK' /\ ReleaseHas'
  <2>1. ListsOK'
    BY <1>15 DEF WaitTimeout, Goto, mutexVars, wakeVars, cancelVars, ListsOK
  <2> QED BY <1>15, <2>1 DEF WaitTimeout, Goto, mutexVars, wakeVars, cancelVars, PcOK, ReleaseHas
<1>16. ASSUME NEW t \in Threads, WaitServed(t)
      PROVE ListsOK' /\ ReleaseHas'
  <2>1. ListsOK'
    BY <1>16 DEF WaitServed, Goto, mutexVars, wakeVars, cancelVars, ListsOK
  <2> QED BY <1>16, <2>1 DEF WaitServed, Goto, mutexVars, wakeVars, cancelVars, PcOK, ReleaseHas
<1>17. ASSUME NEW t \in Threads, WaitGiveUp(t)
      PROVE ListsOK' /\ ReleaseHas'
  <2>1. ListsOK'
    BY <1>17 DEF WaitGiveUp, Goto, mutexVars, wakeVars, cancelVars, ListsOK
  <2> QED BY <1>17, <2>1 DEF WaitGiveUp, Goto, mutexVars, wakeVars, cancelVars, PcOK, ReleaseHas
<1>18. ASSUME NEW t \in Threads, WaitAgain(t)
      PROVE ListsOK' /\ ReleaseHas'
  <2>1. ListsOK'
    BY <1>18 DEF WaitAgain, ClearWake, Goto, mutexVars, waitVars, cancelVars, ListsOK
  <2> QED BY <1>18, <2>1 DEF WaitAgain, ClearWake, Goto, mutexVars, waitVars, cancelVars, PcOK,
             ReleaseHas
<1>19. ASSUME NEW t \in Threads, WaitRelock(t)
      PROVE ListsOK' /\ ReleaseHas'
  <2>1. ListsOK'
    BY <1>19 DEF WaitRelock, TestCancel, Goto, waitVars, wakeVars, ListsOK
  <2> QED BY <1>19, <2>1 DEF WaitRelock, TestCancel, Goto, waitVars, wakeVars, PcOK, ReleaseHas
<1>20. ASSUME NEW t \in Threads, Release(t)
      PROVE ListsOK' /\ ReleaseHas'
  <2>1. PICK l : l = immediate[t]
    OBVIOUS
  <2>2. l \in Seq(Threads) /\ l # <<>> /\ Head(l) \in Threads /\ Tail(l) \in Seq(Threads)
    BY <1>20, <2>1 DEF Release, ListsOK, ReleaseHas
  <2>3. Tail(l) = <<>> <=> Len(l) = 1
    <3>1. Len(Tail(l)) = Len(l) - 1 /\ Len(l) \in Nat /\ Len(l) > 0
      BY <2>2
    <3>2. \A s \in Seq(Threads) : s = <<>> <=> Len(s) = 0
      OBVIOUS
    <3>3. Tail(l) = <<>> <=> Len(Tail(l)) = 0
      BY <2>2, <3>2
    <3> QED BY <3>1, <3>3
  <2>4. /\ wake_sema' = [wake_sema EXCEPT ![Head(l)] = @ + 1]
        /\ immediate' = [immediate EXCEPT ![t] = Tail(l)] /\ defer_waiters' = defer_waiters
        /\ pc' = [pc EXCEPT ![t] = IF Len(l) = 1 THEN "out" ELSE "release"]
    BY <1>20, <2>1 DEF Release, Goto
  <2>5. ListsOK'
    BY <2>2, <2>4 DEF ListsOK
  <2> QED BY <2>3, <2>4, <2>5 DEF PcOK, ListsOK, ReleaseHas
<1>21. ASSUME NEW t \in Threads, Exit(t)
      PROVE ListsOK' /\ ReleaseHas'
  <2>1. ListsOK'
    BY <1>21 DEF Exit, Goto, mutexVars, waitVars, wakeVars, cancelVars, ListsOK
  <2> QED BY <1>21, <2>1 DEF Exit, Goto, mutexVars, waitVars, wakeVars, cancelVars, PcOK, ReleaseHas
<1>22. ASSUME NEW t \in Threads, Unlock(t)
      PROVE ListsOK' /\ ReleaseHas'
  <2>1. ListsOK'
    BY <1>22 DEF Unlock, AfterUnlock, Goto, waitVars, wakeVars, cancelVars, ListsOK
  <2> QED BY <1>22, <2>1 DEF Unlock, AfterUnlock, Goto, waitVars, wakeVars, cancelVars, PcOK,
             ReleaseHas
<1>23. CASE UNCHANGED vars
  <2>1. ListsOK'
    BY <1>23 DEF vars, mutexVars, waitVars, wakeVars, cancelVars, ListsOK
  <2> QED BY <1>23, <2>1 DEF vars, mutexVars, waitVars, wakeVars, cancelVars, PcOK, ReleaseHas
<1> QED BY <1>1, <1>2, <1>3, <1>4, <1>5, <1>6, <1>7, <1>8, <1>9, <1>10, <1>11, <1>12, <1>13, <1>14,
           <1>15, <1>16, <1>17, <1>18, <1>19, <1>20, <1>21, <1>22, <1>23 DEF Next, Calls, Step

\* Every step keeps the sleep queue sound, and a blocked thread inside Wait's loop.
LEMMA QueueStep ==
    ASSUME TypeOK, Sound(sleepq), QueuedPc, [Next]_vars
    PROVE  Sound(sleepq') /\ QueuedPc'
<1>1. ASSUME NEW t \in Threads, NEW kind \in {"lock", "timed", "try"}, MutexLock(t, kind)
      PROVE Sound(sleepq') /\ QueuedPc'
  BY <1>1 DEF MutexLock, Call, Goto, TypeOK, QueuedPc
<1>2. ASSUME NEW t \in Threads, NEW deadline \in BOOLEAN, CallWait(t, deadline)
      PROVE Sound(sleepq') /\ QueuedPc'
  BY <1>2 DEF CallWait, Call, TestCancel, Goto, mutexVars, wakeVars, TypeOK, QueuedPc
<1>3. ASSUME NEW t \in Threads, NEW td \in Threads, Signal(t, td)
      PROVE Sound(sleepq') /\ QueuedPc'
  <2>1. Sound(sleepq') /\ \A u \in Threads : sleepq'.wchan[u] => sleepq.wchan[u]
    <3>1. sleepq.wchan[td]
      BY <1>3 DEF Signal, Sound, BlockedSound
    <3>2. Sound(sleepq') /\ sleepq'.wchan = [sleepq.wchan EXCEPT ![td] = FALSE]
      BY <1>3, <3>1, RemoveSound DEF Signal
    <3> QED BY <3>2 DEF TypeOK, SleepqType
  <2>2. pc[t] = "out" /\ \A u \in Threads \ {t} : pc'[u] = pc[u]
    BY <1>3, SignalWakes DEF Signal, Call, Woken
  <2> QED BY <2>1, <2>2 DEF QueuedPc
<1>4. ASSUME NEW t \in Threads, Broadcast(t)
      PROVE Sound(sleepq') /\ QueuedPc'
  <2>1. Sound(sleepq') /\ \A u \in Threads : sleepq'.wchan[u] => sleepq.wchan[u]
    BY <1>4, DropSound DEF Broadcast
  <2>2. pc[t] = "out" /\ \A u \in Threads \ {t} : pc'[u] = pc[u]
    BY <1>4, BroadcastWakes DEF Broadcast, Call, Woken
  <2> QED BY <2>1, <2>2 DEF QueuedPc
<1>5. ASSUME NEW t \in Threads, NEW td \in Cancellable, Cancel(t, td)
      PROVE Sound(sleepq') /\ QueuedPc'
  BY <1>5 DEF Cancel, Call, Goto, mutexVars, waitVars, TypeOK, QueuedPc
<1>6. ASSUME NEW t \in Threads, NEW enable \in BOOLEAN, SetCancelState(t, enable)
      PROVE Sound(sleepq') /\ QueuedPc'
  BY <1>6 DEF SetCancelState, Call, Goto, mutexVars, waitVars, wakeVars, TypeOK, QueuedPc
<1>7. ASSUME NEW t \in Threads, LockAcquire(t)
      PROVE Sound(sleepq') /\ QueuedPc'
  BY <1>7 DEF LockAcquire, Goto, waitVars, wakeVars, cancelVars, TypeOK, QueuedPc
<1>8. ASSUME NEW t \in Threads, LockTimeout(t)
      PROVE Sound(sleepq') /\ QueuedPc'
  BY <1>8 DEF LockTimeout, Goto, mutexVars, waitVars, wakeVars, cancelVars, TypeOK, QueuedPc
<1>9. ASSUME NEW t \in Threads, UnlockWake(t)
      PROVE Sound(sleepq') /\ QueuedPc'
  BY <1>9 DEF UnlockWake, WakeAll, AfterUnlock, Goto, mutexVars, waitVars, cancelVars, TypeOK,
     QueuedPc
<1>10. ASSUME NEW t \in Threads, WaitUnlock(t)
      PROVE Sound(sleepq') /\ QueuedPc'
  BY <1>10 DEF WaitUnlock, Goto, cancelVars, TypeOK, QueuedPc
<1>11. ASSUME NEW t \in Threads, WaitAdd(t)
      PROVE Sound(sleepq') /\ QueuedPc'
  <2>1. Sound(sleepq') /\ sleepq'.wchan = [sleepq.wchan EXCEPT ![t] = TRUE]
    BY <1>11, AddSound DEF WaitAdd, QueuedPc
  <2> QED BY <1>11, <2>1 DEF WaitAdd, Goto, TypeOK, SleepqType, QueuedPc
<1>12. ASSUME NEW t \in Threads, WaitCheck(t)
      PROVE Sound(sleepq') /\ QueuedPc'
  BY <1>12 DEF WaitCheck, Goto, mutexVars, wakeVars, cancelVars, TypeOK, QueuedPc
<1>13. ASSUME NEW t \in Threads, WaitPresleep(t)
      PROVE Sound(sleepq') /\ QueuedPc'
  BY <1>13 DEF WaitPresleep, WakeAll, Goto, mutexVars, waitVars, cancelVars, TypeOK, QueuedPc
<1>14. ASSUME NEW t \in Threads, WaitAcquire(t)
      PROVE Sound(sleepq') /\ QueuedPc'
  BY <1>14 DEF WaitAcquire, Goto, mutexVars, waitVars, cancelVars, TypeOK, QueuedPc
<1>15. ASSUME NEW t \in Threads, WaitTimeout(t)
      PROVE Sound(sleepq') /\ QueuedPc'
  BY <1>15 DEF WaitTimeout, Goto, mutexVars, wakeVars, cancelVars, TypeOK, QueuedPc
<1>16. ASSUME NEW t \in Threads, WaitServed(t)
      PROVE Sound(sleepq') /\ QueuedPc'
  BY <1>16 DEF WaitServed, Goto, mutexVars, wakeVars, cancelVars, TypeOK, QueuedPc
<1>17. ASSUME NEW t \in Threads, WaitGiveUp(t)
      PROVE Sound(sleepq') /\ QueuedPc'
  <2>1. Sound(sleepq') /\ sleepq'.wchan = [sleepq.wchan EXCEPT ![t] = FALSE]
    BY <1>17, RemoveSound DEF WaitGiveUp
  <2> QED BY <1>17, <2>1 DEF WaitGiveUp, Goto, TypeOK, SleepqType, QueuedPc
<1>18. ASSUME NEW t \in Threads, WaitAgain(t)
      PROVE Sound(sleepq') /\ QueuedPc'
  BY <1>18 DEF WaitAgain, ClearWake, Goto, mutexVars, waitVars, cancelVars, TypeOK, QueuedPc
<1>19. ASSUME NEW t \in Threads, WaitRelock(t)
      PROVE Sound(sleepq') /\ QueuedPc'
  BY <1>19 DEF WaitRelock, TestCancel, Goto, waitVars, wakeVars, TypeOK, QueuedPc
<1>20. ASSUME NEW t \in Threads, Release(t)
      PROVE Sound(sleepq') /\ QueuedPc'
  BY <1>20 DEF Release, Goto, mutexVars, waitVars, cancelVars, TypeOK, QueuedPc
<1>21. ASSUME NEW t \in Threads, Exit(t)
      PROVE Sound(sleepq') /\ QueuedPc'
  BY <1>21 DEF Exit, Goto, mutexVars, waitVars, wakeVars, cancelVars, TypeOK, QueuedPc
<1>22. ASSUME NEW t \in Threads, Unlock(t)
      PROVE Sound(sleepq') /\ QueuedPc'
  BY <1>22 DEF Unlock, AfterUnlock, Goto, waitVars, wakeVars, cancelVars, TypeOK, QueuedPc
<1>23. CASE UNCHANGED vars
  BY <1>23 DEF vars, mutexVars, waitVars, wakeVars, cancelVars, TypeOK, QueuedPc
<1> QED BY <1>1, <1>2, <1>3, <1>4, <1>5, <1>6, <1>7, <1>8, <1>9, <1>10, <1>11, <1>12, <1>13, <1>14,
           <1>15, <1>16, <1>17, <1>18, <1>19, <1>20, <1>21, <1>22, <1>23 DEF Next, Calls, Step

\* Every step keeps the recursion.
LEMMA RecursionStep ==
    ASSUME TypeOK, RecursionInv, [Next]_vars
    PROVE  RecursionInv'
<1>1. ASSUME NEW t \in Threads, NEW kind \in {"lock", "timed", "try"}, MutexLock(t, kind)
      PROVE RecursionInv'
  <2>1. CASE owner = t
    <3>1. owner' = owner /\ pc' = pc /\ recurse' = recurse /\ pc[t] = "out"
      BY <1>1, <2>1 DEF MutexLock, Call
    <3>2. CASE ~Recursive
      BY <1>1, <2>1, <3>1, <3>2 DEF MutexLock, SelfLock, TypeOK, Waiting, RecursionInv,
         RecursionRestored
    <3>3. CASE Recursive
      <4>1. count' = count + 1 /\ held' = [held EXCEPT ![t] = @ + 1]
        BY <1>1, <2>1, <3>3 DEF MutexLock, SelfLock
      <4> QED BY <2>1, <3>1, <3>3, <4>1, NoOneAssumption DEF TypeOK, Waiting, RecursionInv,
                 RecursionRestored
    <3> QED BY <3>2, <3>3
  <2>2. CASE owner # t /\ kind = "try"
    <3>1. count' = count /\ pc' = pc /\ recurse' = recurse /\ pc[t] = "out"
      BY <1>1, <2>2 DEF MutexLock, Call
    <3>2. CASE owner = NoOne
      <4>1. owner' = t /\ held' = [held EXCEPT ![t] = 1]
        BY <1>1, <2>2, <3>2 DEF MutexLock
      <4> QED BY <3>1, <3>2, <4>1, NoOneAssumption, SMTT(30) DEF TypeOK, Waiting, RecursionInv,
                 RecursionRestored
    <3>3. CASE owner # NoOne
      <4>1. owner' = owner /\ held' = held
        BY <1>1, <2>2, <3>3 DEF MutexLock
      <4> QED BY <3>1, <3>3, <4>1 DEF TypeOK, Waiting, RecursionInv, RecursionRestored
    <3> QED BY <3>2, <3>3
  <2>3. CASE owner # t /\ kind # "try"
    <3>1. /\ UNCHANGED <<owner, count, recurse, held>>
          /\ pc' = [pc EXCEPT ![t] = "lock"]
      BY <1>1, <2>3 DEF MutexLock, Call, Goto, TypeOK
    <3>2. pc[t] = "out" /\ pc'[t] = "lock" /\ \A u \in Threads \ {t} : pc'[u] = pc[u]
      BY <1>1, <3>1 DEF MutexLock, Call, TypeOK
    <3>3. pc'[t] \notin Waiting \ {"w_enter"} /\ pc[t] \notin Waiting \ {"w_enter"}
      BY <3>2 DEF Waiting
    <3>4. RecursionRestored'
      BY <3>1, <3>2, <3>3 DEF RecursionInv, RecursionRestored
    <3> QED BY <2>3, <3>1, <3>2, <3>4 DEF RecursionInv
  <2> QED BY <2>1, <2>2, <2>3
<1>2. ASSUME NEW t \in Threads, NEW deadline \in BOOLEAN, CallWait(t, deadline)
      PROVE RecursionInv'
  <2>1. PICK state \in {"w_enter", "exit"} : pc' = [pc EXCEPT ![t] = state]
    BY <1>2 DEF CallWait, Call, TestCancel, Goto, TypeOK
  <2>2. /\ pc[t] = "out" /\ UNCHANGED <<owner, count, held, recurse>>
        /\ state = "w_enter" => owner = t
    BY <1>2, <2>1 DEF CallWait, Call, TestCancel, Goto, mutexVars, wakeVars, TypeOK
  <2> QED BY <2>1, <2>2 DEF TypeOK, Waiting, RecursionInv, RecursionRestored
<1>3. ASSUME NEW t \in Threads, NEW td \in Threads, Signal(t, td)
      PROVE RecursionInv'
  <2>1. pc[t] = "out" /\ (pc' = pc \/ pc' = [pc EXCEPT ![t] = "release"])
    BY <1>3, SignalWakes DEF Signal, Call, Woken
  <2>2. UNCHANGED <<owner, count, held, recurse>>
    BY <1>3 DEF Signal, waitVars
  <2> QED BY <2>1, <2>2 DEF TypeOK, Waiting, RecursionInv, RecursionRestored
<1>4. ASSUME NEW t \in Threads, Broadcast(t)
      PROVE RecursionInv'
  <2>1. pc[t] = "out" /\ (pc' = pc \/ pc' = [pc EXCEPT ![t] = "release"])
    BY <1>4, BroadcastWakes DEF Broadcast, Call, Woken
  <2>2. UNCHANGED <<owner, count, held, recurse>>
    BY <1>4 DEF Broadcast, waitVars
  <2> QED BY <2>1, <2>2 DEF TypeOK, Waiting, RecursionInv, RecursionRestored
<1>5. ASSUME NEW t \in Threads, NEW td \in Cancellable, Cancel(t, td)
      PROVE RecursionInv'
  BY <1>5, NoOneAssumption DEF Cancel, Call, Goto, mutexVars, waitVars, TypeOK, Waiting,
     RecursionInv, RecursionRestored
<1>6. ASSUME NEW t \in Threads, NEW enable \in BOOLEAN, SetCancelState(t, enable)
      PROVE RecursionInv'
  <2>1. PICK state \in {"out", "exit"} : pc' = [pc EXCEPT ![t] = state]
    BY <1>6 DEF SetCancelState, Call, TestCancel, Goto, TypeOK
  <2>2. /\ pc[t] = "out" /\ UNCHANGED <<owner, count, held, recurse>>
        /\ state = "w_enter" => owner = t
    BY <1>6, <2>1 DEF SetCancelState, Call, Goto, mutexVars, waitVars, wakeVars, TypeOK
  <2> QED BY <2>1, <2>2 DEF TypeOK, Waiting, RecursionInv, RecursionRestored
<1>7. ASSUME NEW t \in Threads, LockAcquire(t)
      PROVE RecursionInv'
  BY <1>7, NoOneAssumption DEF LockAcquire, Goto, waitVars, wakeVars, cancelVars, TypeOK, Waiting,
     RecursionInv, RecursionRestored
<1>8. ASSUME NEW t \in Threads, LockTimeout(t)
      PROVE RecursionInv'
  BY <1>8, NoOneAssumption DEF LockTimeout, Goto, mutexVars, waitVars, wakeVars, cancelVars,
     TypeOK, Waiting, RecursionInv, RecursionRestored
<1>9. ASSUME NEW t \in Threads, UnlockWake(t)
      PROVE RecursionInv'
  BY <1>9, NoOneAssumption DEF UnlockWake, WakeAll, AfterUnlock, Goto, mutexVars, waitVars,
     cancelVars, TypeOK, Waiting, RecursionInv, RecursionRestored
<1>10. ASSUME NEW t \in Threads, WaitUnlock(t)
      PROVE RecursionInv'
  BY <1>10, NoOneAssumption DEF WaitUnlock, Goto, cancelVars, TypeOK, Waiting, RecursionInv,
     RecursionRestored
<1>11. ASSUME NEW t \in Threads, WaitAdd(t)
      PROVE RecursionInv'
  BY <1>11, NoOneAssumption DEF WaitAdd, ClearWake, Goto, mutexVars, cancelVars, TypeOK, Waiting,
     RecursionInv, RecursionRestored
<1>12. ASSUME NEW t \in Threads, WaitCheck(t)
      PROVE RecursionInv'
  BY <1>12, NoOneAssumption DEF WaitCheck, Goto, mutexVars, wakeVars, cancelVars, TypeOK, Waiting,
     RecursionInv, RecursionRestored
<1>13. ASSUME NEW t \in Threads, WaitPresleep(t)
      PROVE RecursionInv'
  BY <1>13, NoOneAssumption DEF WaitPresleep, WakeAll, Goto, mutexVars, waitVars, cancelVars,
     TypeOK, Waiting, RecursionInv, RecursionRestored
<1>14. ASSUME NEW t \in Threads, WaitAcquire(t)
      PROVE RecursionInv'
  BY <1>14, NoOneAssumption DEF WaitAcquire, Goto, mutexVars, waitVars, cancelVars, TypeOK,
     Waiting, RecursionInv, RecursionRestored
<1>15. ASSUME NEW t \in Threads, WaitTimeout(t)
      PROVE RecursionInv'
  BY <1>15, NoOneAssumption DEF WaitTimeout, Goto, mutexVars, wakeVars, cancelVars, TypeOK,
     Waiting, RecursionInv, RecursionRestored
<1>16. ASSUME NEW t \in Threads, WaitServed(t)
      PROVE RecursionInv'
  BY <1>16, NoOneAssumption DEF WaitServed, Goto, mutexVars, wakeVars, cancelVars, TypeOK, Waiting,
     RecursionInv, RecursionRestored
<1>17. ASSUME NEW t \in Threads, WaitGiveUp(t)
      PROVE RecursionInv'
  BY <1>17, NoOneAssumption DEF WaitGiveUp, Goto, mutexVars, wakeVars, cancelVars, TypeOK, Waiting,
     RecursionInv, RecursionRestored
<1>18. ASSUME NEW t \in Threads, WaitAgain(t)
      PROVE RecursionInv'
  BY <1>18, NoOneAssumption DEF WaitAgain, ClearWake, Goto, mutexVars, waitVars, cancelVars,
     TypeOK, Waiting, RecursionInv, RecursionRestored
<1>19. ASSUME NEW t \in Threads, WaitRelock(t)
      PROVE RecursionInv'
  <2>1. PICK state \in {"exit", "out"} : pc' = [pc EXCEPT ![t] = state]
    BY <1>19 DEF WaitRelock, TestCancel, Goto
  <2> QED BY <1>19, <2>1, NoOneAssumption DEF WaitRelock, waitVars, TypeOK, Waiting, RecursionInv,
             RecursionRestored
<1>20. ASSUME NEW t \in Threads, Release(t)
      PROVE RecursionInv'
  BY <1>20, NoOneAssumption DEF Release, Goto, mutexVars, waitVars, cancelVars, TypeOK, Waiting,
     RecursionInv, RecursionRestored
<1>21. ASSUME NEW t \in Threads, Exit(t)
      PROVE RecursionInv'
  BY <1>21, NoOneAssumption DEF Exit, Goto, mutexVars, waitVars, wakeVars, cancelVars, TypeOK,
     Waiting, RecursionInv, RecursionRestored
<1>22. ASSUME NEW t \in Threads, Unlock(t)
      PROVE RecursionInv'
  <2>1. CASE Recursive /\ count > 0
    BY <1>22, <2>1, NoOneAssumption, SMTT(30) DEF Unlock, waitVars, TypeOK, Waiting, RecursionInv,
       RecursionRestored
  <2>2. CASE ~(Recursive /\ count > 0)
    <3>1. PICK state \in {"unlocked", "exit", "out"} : pc' = [pc EXCEPT ![t] = state]
      BY <1>22, <2>2 DEF Unlock, AfterUnlock, Goto
    <3>2. count = 0
      BY <2>2 DEF TypeOK, RecursionInv
    <3>3. /\ owner = t /\ owner' = NoOne /\ count' = 0 /\ recurse' = recurse
          /\ held' = [held EXCEPT ![t] = @ - 1] /\ pc[t] \in {"out", "exit"}
      BY <1>22, <2>2, <3>2 DEF Unlock, waitVars
    <3>4. held[t] = 1
      BY <3>2, <3>3 DEF TypeOK, Waiting, RecursionInv, RecursionRestored
    <3> QED BY <3>1, <3>2, <3>3, <3>4, NoOneAssumption DEF TypeOK, Waiting, RecursionInv,
               RecursionRestored
  <2> QED BY <2>1, <2>2
<1>23. CASE UNCHANGED vars
  BY <1>23, NoOneAssumption DEF vars, mutexVars, waitVars, wakeVars, cancelVars, TypeOK, Waiting,
     RecursionInv, RecursionRestored
<1> QED BY <1>1, <1>2, <1>3, <1>4, <1>5, <1>6, <1>7, <1>8, <1>9, <1>10, <1>11, <1>12, <1>13, <1>14,
           <1>15, <1>16, <1>17, <1>18, <1>19, <1>20, <1>21, <1>22, <1>23 DEF Next, Calls, Step

-----------------------------------------------------------------------------
(* No signal is lost. *)

Owing(u, x) ==
    \/ Listed(immediate[u], x)
    \/ /\ Listed(defer_waiters[u], x)
       /\ pc[u] \in {"unlocked", "w_add", "w_check", "w_presleep"} \/ (owner = u /\ deferred)

\* A thread that is going to sleep, or sleeps, off the queue.
Abandoned(x) == pc[x] \in {"w_presleep", "w_sleep"} /\ ~sleepq.wchan[x] /\ wake_sema[x] = 0

ChainInv == \A t \in Threads : pc[t] \in {"w_add", "w_check"} => chain = t

NoCancel == \A t \in Threads : ~cancel_pending[t]

\* Without cancellations will_sleep stands only between Wait's unlock and its sleep, so that an
\* Unlock never skips its wakes, and a waiter enters the sleep from the queue.
SignalInv ==
    NoCancel =>
        /\ \A t \in Threads : will_sleep[t] => pc[t] \in {"w_add", "w_check", "w_presleep"}
        /\ \A t \in Threads : pc[t] = "w_check" => sleepq.wchan[t]
        /\ \A t \in Threads : Abandoned(t) => \E u \in Threads : Owing(u, t)


\* Between Wait's unlock and its sleep the chain is locked.
LEMMA ChainStep ==
    ASSUME TypeOK, ChainInv, [Next]_vars
    PROVE  ChainInv'
<1>1. ASSUME NEW t \in Threads, NEW kind \in {"lock", "timed", "try"}, MutexLock(t, kind)
      PROVE ChainInv'
  BY <1>1, NoOneAssumption DEF MutexLock, Call, SelfLock, Goto, wakeVars, cancelVars, TypeOK,
     ChainInv
<1>2. ASSUME NEW t \in Threads, NEW deadline \in BOOLEAN, CallWait(t, deadline)
      PROVE ChainInv'
  BY <1>2, NoOneAssumption DEF CallWait, Call, TestCancel, Goto, mutexVars, wakeVars, TypeOK,
     ChainInv
<1>3. ASSUME NEW t \in Threads, NEW td \in Threads, Signal(t, td)
      PROVE ChainInv'
  <2>1. pc[t] = "out" /\ (pc' = pc \/ pc' = [pc EXCEPT ![t] = "release"])
    BY <1>3, SignalWakes DEF Signal, Call, Woken
  <2> QED BY <1>3, <2>1 DEF Signal, TypeOK, ChainInv
<1>4. ASSUME NEW t \in Threads, Broadcast(t)
      PROVE ChainInv'
  <2>1. pc[t] = "out" /\ (pc' = pc \/ pc' = [pc EXCEPT ![t] = "release"])
    BY <1>4, BroadcastWakes DEF Broadcast, Call, Woken
  <2> QED BY <1>4, <2>1 DEF Broadcast, TypeOK, ChainInv
<1>5. ASSUME NEW t \in Threads, NEW td \in Cancellable, Cancel(t, td)
      PROVE ChainInv'
  BY <1>5, NoOneAssumption DEF Cancel, Call, Goto, mutexVars, waitVars, TypeOK, ChainInv
<1>6. ASSUME NEW t \in Threads, NEW enable \in BOOLEAN, SetCancelState(t, enable)
      PROVE ChainInv'
  BY <1>6, NoOneAssumption DEF SetCancelState, Call, Goto, mutexVars, waitVars, wakeVars, TypeOK,
     ChainInv
<1>7. ASSUME NEW t \in Threads, LockAcquire(t)
      PROVE ChainInv'
  BY <1>7, NoOneAssumption DEF LockAcquire, Goto, waitVars, wakeVars, cancelVars, TypeOK, ChainInv
<1>8. ASSUME NEW t \in Threads, LockTimeout(t)
      PROVE ChainInv'
  BY <1>8, NoOneAssumption DEF LockTimeout, Goto, mutexVars, waitVars, wakeVars, cancelVars,
     TypeOK, ChainInv
<1>9. ASSUME NEW t \in Threads, UnlockWake(t)
      PROVE ChainInv'
  BY <1>9, NoOneAssumption DEF UnlockWake, WakeAll, AfterUnlock, Goto, mutexVars, waitVars,
     cancelVars, TypeOK, ChainInv
<1>10. ASSUME NEW t \in Threads, WaitUnlock(t)
      PROVE ChainInv'
  BY <1>10, NoOneAssumption DEF WaitUnlock, Goto, cancelVars, TypeOK, ChainInv
<1>11. ASSUME NEW t \in Threads, WaitAdd(t)
      PROVE ChainInv'
  BY <1>11, NoOneAssumption DEF WaitAdd, ClearWake, Goto, mutexVars, cancelVars, TypeOK, ChainInv
<1>12. ASSUME NEW t \in Threads, WaitCheck(t)
      PROVE ChainInv'
  BY <1>12, NoOneAssumption DEF WaitCheck, Goto, mutexVars, wakeVars, cancelVars, TypeOK, ChainInv
<1>13. ASSUME NEW t \in Threads, WaitPresleep(t)
      PROVE ChainInv'
  BY <1>13, NoOneAssumption DEF WaitPresleep, WakeAll, Goto, mutexVars, waitVars, cancelVars,
     TypeOK, ChainInv
<1>14. ASSUME NEW t \in Threads, WaitAcquire(t)
      PROVE ChainInv'
  BY <1>14, NoOneAssumption DEF WaitAcquire, Goto, mutexVars, waitVars, cancelVars, TypeOK, ChainInv
<1>15. ASSUME NEW t \in Threads, WaitTimeout(t)
      PROVE ChainInv'
  BY <1>15, NoOneAssumption DEF WaitTimeout, Goto, mutexVars, wakeVars, cancelVars, TypeOK, ChainInv
<1>16. ASSUME NEW t \in Threads, WaitServed(t)
      PROVE ChainInv'
  BY <1>16, NoOneAssumption DEF WaitServed, Goto, mutexVars, wakeVars, cancelVars, TypeOK, ChainInv
<1>17. ASSUME NEW t \in Threads, WaitGiveUp(t)
      PROVE ChainInv'
  BY <1>17, NoOneAssumption DEF WaitGiveUp, Goto, mutexVars, wakeVars, cancelVars, TypeOK, ChainInv
<1>18. ASSUME NEW t \in Threads, WaitAgain(t)
      PROVE ChainInv'
  BY <1>18, NoOneAssumption DEF WaitAgain, ClearWake, Goto, mutexVars, waitVars, cancelVars,
     TypeOK, ChainInv
<1>19. ASSUME NEW t \in Threads, WaitRelock(t)
      PROVE ChainInv'
  BY <1>19, NoOneAssumption DEF WaitRelock, TestCancel, Goto, waitVars, wakeVars, TypeOK, ChainInv
<1>20. ASSUME NEW t \in Threads, Release(t)
      PROVE ChainInv'
  BY <1>20, NoOneAssumption DEF Release, Goto, mutexVars, waitVars, cancelVars, TypeOK, ChainInv
<1>21. ASSUME NEW t \in Threads, Exit(t)
      PROVE ChainInv'
  BY <1>21, NoOneAssumption DEF Exit, Goto, mutexVars, waitVars, wakeVars, cancelVars, TypeOK,
     ChainInv
<1>22. ASSUME NEW t \in Threads, Unlock(t)
      PROVE ChainInv'
  BY <1>22, NoOneAssumption DEF Unlock, AfterUnlock, Goto, waitVars, wakeVars, cancelVars, TypeOK,
     ChainInv
<1>23. CASE UNCHANGED vars
  BY <1>23, NoOneAssumption DEF vars, mutexVars, waitVars, wakeVars, cancelVars, TypeOK, ChainInv
<1> QED BY <1>1, <1>2, <1>3, <1>4, <1>5, <1>6, <1>7, <1>8, <1>9, <1>10, <1>11, <1>12, <1>13, <1>14,
           <1>15, <1>16, <1>17, <1>18, <1>19, <1>20, <1>21, <1>22, <1>23 DEF Next, Calls, Step

LEMMA MutexLockOwed ==
    ASSUME TypeOK, ReleaseHas, Sound(sleepq), QueuedPc, RecursionInv, ChainInv, SignalInv, NoCancel',
           NEW t \in Threads, NEW kind \in {"lock", "timed", "try"}, MutexLock(t, kind)
    PROVE  SignalInv'
<1>1. /\ \A u \in Threads : will_sleep[u] => pc[u] \in {"w_add", "w_check", "w_presleep"}
      /\ \A u \in Threads : pc[u] = "w_check" => sleepq.wchan[u]
      /\ \A u \in Threads : Abandoned(u) => \E v \in Threads : Owing(v, u)
      /\ \A u \in Threads : ~cancel_pending[u]
  BY DEF MutexLock, Call, SelfLock, Goto, wakeVars, cancelVars, NoCancel, SignalInv
<1>4. \A u \in Threads : will_sleep'[u] => pc'[u] \in {"w_add", "w_check", "w_presleep"}
  BY <1>1 DEF MutexLock, Call, SelfLock, Goto, wakeVars, cancelVars, TypeOK, ShouldCancel
<1>5. \A u \in Threads : pc'[u] = "w_check" => sleepq'.wchan[u]
  BY <1>1 DEF MutexLock, Call, SelfLock, Goto, wakeVars, cancelVars, TypeOK, SleepqType,
     ShouldCancel, ChainInv
<1>6. ASSUME NEW u \in Threads, Abandoned(u)' PROVE Abandoned(u)
  BY <1>1, <1>6 DEF MutexLock, Call, SelfLock, Goto, wakeVars, cancelVars, TypeOK, SleepqType,
     Abandoned, ShouldCancel
<1>7. ASSUME NEW u \in Threads, NEW v \in Threads, Owing(v, u), Abandoned(u)'
      PROVE Owing(v, u)'
  BY <1>1, <1>7, NoOneAssumption DEF MutexLock, Call, SelfLock, Goto, wakeVars, cancelVars, TypeOK,
     Owing, RecursionInv, ShouldCancel
<1>9. ASSUME NEW u \in Threads, Abandoned(u)' PROVE \E v \in Threads : Owing(v, u)'
  BY <1>1, <1>6, <1>7, <1>9
<1> QED BY <1>4, <1>5, <1>9 DEF SignalInv

LEMMA CallWaitOwed ==
    ASSUME TypeOK, ReleaseHas, Sound(sleepq), QueuedPc, RecursionInv, ChainInv, SignalInv, NoCancel',
           NEW t \in Threads, NEW deadline \in BOOLEAN, CallWait(t, deadline)
    PROVE  SignalInv'
<1>1. /\ \A u \in Threads : will_sleep[u] => pc[u] \in {"w_add", "w_check", "w_presleep"}
      /\ \A u \in Threads : pc[u] = "w_check" => sleepq.wchan[u]
      /\ \A u \in Threads : Abandoned(u) => \E v \in Threads : Owing(v, u)
      /\ \A u \in Threads : ~cancel_pending[u]
  BY DEF CallWait, Call, TestCancel, Goto, mutexVars, wakeVars, NoCancel, SignalInv
<1>4. \A u \in Threads : will_sleep'[u] => pc'[u] \in {"w_add", "w_check", "w_presleep"}
  BY <1>1 DEF CallWait, Call, TestCancel, Goto, mutexVars, wakeVars, TypeOK, ShouldCancel
<1>5. \A u \in Threads : pc'[u] = "w_check" => sleepq'.wchan[u]
  BY <1>1 DEF CallWait, Call, TestCancel, Goto, mutexVars, wakeVars, TypeOK, SleepqType,
     ShouldCancel, ChainInv
<1>6. ASSUME NEW u \in Threads, Abandoned(u)' PROVE Abandoned(u)
  BY <1>1, <1>6 DEF CallWait, Call, TestCancel, Goto, mutexVars, wakeVars, TypeOK, SleepqType,
     Abandoned, ShouldCancel
<1>7. ASSUME NEW u \in Threads, NEW v \in Threads, Owing(v, u), Abandoned(u)'
      PROVE Owing(v, u)'
  BY <1>1, <1>7, NoOneAssumption DEF CallWait, Call, TestCancel, Goto, mutexVars, wakeVars, TypeOK,
     Owing, RecursionInv, ShouldCancel
<1>9. ASSUME NEW u \in Threads, Abandoned(u)' PROVE \E v \in Threads : Owing(v, u)'
  BY <1>1, <1>6, <1>7, <1>9
<1> QED BY <1>4, <1>5, <1>9 DEF SignalInv

LEMMA SignalOwed ==
    ASSUME TypeOK, ReleaseHas, Sound(sleepq), QueuedPc, RecursionInv, ChainInv, SignalInv, NoCancel',
           NEW t \in Threads, NEW td \in Threads, Signal(t, td)
    PROVE  SignalInv'
<1>1. /\ \A u \in Threads : will_sleep[u] => pc[u] \in {"w_add", "w_check", "w_presleep"}
      /\ \A u \in Threads : pc[u] = "w_check" => sleepq.wchan[u]
      /\ \A u \in Threads : Abandoned(u) => \E v \in Threads : Owing(v, u)
      /\ \A u \in Threads : ~cancel_pending[u]
  BY DEF Signal, Call, waitVars, cancelVars, NoCancel, SignalInv
<1>2. Woken(t, <<td>>)
  BY SignalWakes
<1>10. /\ wake_sema \in [Threads -> Nat] /\ wake_sema' \in [Threads -> Nat]
       /\ \A u \in Threads : wake_sema'[u] >= wake_sema[u]
  BY <1>2 DEF Woken, TypeOK
<1>11. /\ pc[t] = "out" /\ pc'[t] \in {"out", "release"} /\ chain = NoOne
       /\ \A u \in Threads \ {t} : pc'[u] = pc[u]
  BY <1>2 DEF Woken, Signal, Call, TypeOK
<1>12. /\ owner' = owner /\ will_sleep' = will_sleep
  BY DEF Signal
<1>3. sleepq'.wchan = [sleepq.wchan EXCEPT ![td] = FALSE]
  <2>1. sleepq.wchan[td]
    BY DEF Signal, Sound, BlockedSound
  <2> QED BY <2>1, RemoveSound DEF Signal
<1>4. \A u \in Threads : will_sleep'[u] => pc'[u] \in {"w_add", "w_check", "w_presleep"}
  BY <1>1, <1>11, <1>12
<1>5. \A u \in Threads : pc'[u] = "w_check" => sleepq'.wchan[u]
  BY <1>11, NoOneAssumption DEF ChainInv
<1>6. ASSUME NEW u \in Threads, Abandoned(u)'
      PROVE Abandoned(u) \/ Listed(<<td>>, u)
  <2>1. u # t /\ pc'[u] = pc[u] /\ wake_sema[u] = 0
    BY <1>6, <1>10, <1>11 DEF Abandoned
  <2>2. u # td => ~sleepq.wchan[u]
    BY <1>3, <1>6 DEF Abandoned, TypeOK, SleepqType
  <2>3. u = td => Listed(<<td>>, u)
    BY DEF Listed
  <2> QED BY <1>6, <2>1, <2>2, <2>3 DEF Abandoned, Listed
<1>7. ASSUME NEW u \in Threads, NEW v \in Threads, Owing(v, u), wake_sema'[u] = 0
      PROVE \E w \in Threads : Owing(w, u)'
  <2>1. CASE v # t
    BY <1>2, <1>7, <2>1, SMTT(30) DEF Signal, Woken, Owing
  <2>2. CASE v = t
    <3>1. immediate[t] = <<>> /\ pc[t] = "out"
      BY DEF Signal, Call, ReleaseHas, TypeOK
    <3>2. Listed(defer_waiters[t], u) /\ owner = t /\ deferred
      BY <1>7, <2>2, <3>1 DEF Owing, Listed
    <3>3. Listed(defer_waiters'[t], u)
      BY <1>2, <1>7, <3>2 DEF Woken
    <3>4. deferred' = TRUE
      BY <1>2, <3>2 DEF Woken, TypeOK
    <3> QED BY <1>12, <3>2, <3>3, <3>4 DEF Owing
  <2> QED BY <2>1, <2>2
<1>8. ASSUME NEW u \in Threads, Listed(<<td>>, u), wake_sema'[u] = 0
      PROVE \E w \in Threads : Owing(w, u)'
  <2>1. Listed(immediate'[t], u) \/ (Listed(defer_waiters'[t], u) /\ owner = t /\ deferred' = TRUE)
    BY <1>2, <1>8 DEF Woken
  <2> QED BY <1>12, <2>1 DEF Owing
<1>9. ASSUME NEW u \in Threads, Abandoned(u)' PROVE \E v \in Threads : Owing(v, u)'
  <2>1. wake_sema'[u] = 0 /\ wake_sema[u] = 0
    BY <1>9, <1>10 DEF Abandoned
  <2>2. CASE Abandoned(u)
    BY <1>1, <1>7, <2>1, <2>2
  <2>3. CASE Listed(<<td>>, u)
    BY <1>8, <2>1, <2>3
  <2> QED BY <1>6, <1>9, <2>2, <2>3
<1> QED BY <1>4, <1>5, <1>9 DEF SignalInv

LEMMA BroadcastOwed ==
    ASSUME TypeOK, ReleaseHas, Sound(sleepq), QueuedPc, RecursionInv, ChainInv, SignalInv, NoCancel',
           NEW t \in Threads, Broadcast(t)
    PROVE  SignalInv'
<1>1. /\ \A u \in Threads : will_sleep[u] => pc[u] \in {"w_add", "w_check", "w_presleep"}
      /\ \A u \in Threads : pc[u] = "w_check" => sleepq.wchan[u]
      /\ \A u \in Threads : Abandoned(u) => \E v \in Threads : Owing(v, u)
      /\ \A u \in Threads : ~cancel_pending[u]
  BY DEF Broadcast, Call, waitVars, cancelVars, NoCancel, SignalInv
<1>2. Woken(t, sleepq.blocked)
  BY BroadcastWakes
<1>10. /\ wake_sema \in [Threads -> Nat] /\ wake_sema' \in [Threads -> Nat]
       /\ \A u \in Threads : wake_sema'[u] >= wake_sema[u]
  BY <1>2 DEF Woken, TypeOK
<1>11. /\ pc[t] = "out" /\ pc'[t] \in {"out", "release"} /\ chain = NoOne
       /\ \A u \in Threads \ {t} : pc'[u] = pc[u]
  BY <1>2 DEF Woken, Broadcast, Call, TypeOK
<1>12. /\ owner' = owner /\ will_sleep' = will_sleep
  BY DEF Broadcast
<1>3. \A u \in Threads : sleepq'.wchan[u] = FALSE
  BY DropSound DEF Broadcast
<1>4. \A u \in Threads : will_sleep'[u] => pc'[u] \in {"w_add", "w_check", "w_presleep"}
  BY <1>1, <1>11, <1>12
<1>5. \A u \in Threads : pc'[u] = "w_check" => sleepq'.wchan[u]
  BY <1>11, NoOneAssumption DEF ChainInv
<1>6. ASSUME NEW u \in Threads, Abandoned(u)'
      PROVE Abandoned(u) \/ Listed(sleepq.blocked, u)
  <2>1. u # t /\ pc'[u] = pc[u] /\ wake_sema[u] = 0
    BY <1>6, <1>10, <1>11 DEF Abandoned
  <2>2. sleepq.wchan[u] => \E i \in 1..Len(sleepq.blocked) : sleepq.blocked[i] = u
    BY DEF Sound, BlockedSound
  <2>3. sleepq.blocked \in Seq(Threads)
    BY DEF TypeOK, SleepqType
  <2> QED BY <1>6, <2>1, <2>2, <2>3 DEF Abandoned, Listed
<1>7. ASSUME NEW u \in Threads, NEW v \in Threads, Owing(v, u), wake_sema'[u] = 0
      PROVE \E w \in Threads : Owing(w, u)'
  <2>1. CASE v # t
    BY <1>2, <1>7, <2>1 DEF Broadcast, Woken, Owing
  <2>2. CASE v = t
    <3>1. immediate[t] = <<>> /\ pc[t] = "out"
      BY DEF Broadcast, Call, ReleaseHas, TypeOK
    <3>2. Listed(defer_waiters[t], u) /\ owner = t /\ deferred
      BY <1>7, <2>2, <3>1 DEF Owing, Listed
    <3>3. Listed(defer_waiters'[t], u)
      BY <1>2, <1>7, <3>2 DEF Woken
    <3>4. deferred' = TRUE
      BY <1>2, <3>2 DEF Woken, TypeOK
    <3> QED BY <1>12, <3>2, <3>3, <3>4 DEF Owing
  <2> QED BY <2>1, <2>2
<1>8. ASSUME NEW u \in Threads, Listed(sleepq.blocked, u), wake_sema'[u] = 0
      PROVE \E w \in Threads : Owing(w, u)'
  <2>1. Listed(immediate'[t], u) \/ (Listed(defer_waiters'[t], u) /\ owner = t /\ deferred' = TRUE)
    BY <1>2, <1>8 DEF Woken
  <2> QED BY <1>12, <2>1 DEF Owing
<1>9. ASSUME NEW u \in Threads, Abandoned(u)' PROVE \E v \in Threads : Owing(v, u)'
  <2>1. wake_sema'[u] = 0 /\ wake_sema[u] = 0
    BY <1>9, <1>10 DEF Abandoned
  <2>2. CASE Abandoned(u)
    BY <1>1, <1>7, <2>1, <2>2
  <2>3. CASE Listed(sleepq.blocked, u)
    BY <1>8, <2>1, <2>3
  <2> QED BY <1>6, <1>9, <2>2, <2>3
<1> QED BY <1>4, <1>5, <1>9 DEF SignalInv

LEMMA CancelOwed ==
    ASSUME TypeOK, ReleaseHas, Sound(sleepq), QueuedPc, RecursionInv, ChainInv, SignalInv, NoCancel',
           NEW t \in Threads, NEW td \in Cancellable, Cancel(t, td)
    PROVE  SignalInv'
<1>1. td \in Threads
  BY CondAssumption
<1> QED BY <1>1 DEF Cancel, TypeOK, NoCancel

LEMMA SetCancelStateOwed ==
    ASSUME TypeOK, ReleaseHas, Sound(sleepq), QueuedPc, RecursionInv, ChainInv, SignalInv, NoCancel',
           NEW t \in Threads, NEW enable \in BOOLEAN, SetCancelState(t, enable)
    PROVE  SignalInv'
<1>1. /\ \A u \in Threads : will_sleep[u] => pc[u] \in {"w_add", "w_check", "w_presleep"}
      /\ \A u \in Threads : pc[u] = "w_check" => sleepq.wchan[u]
      /\ \A u \in Threads : Abandoned(u) => \E v \in Threads : Owing(v, u)
      /\ \A u \in Threads : ~cancel_pending[u]
  BY DEF SetCancelState, Call, Goto, mutexVars, waitVars, wakeVars, NoCancel, SignalInv
<1>4. \A u \in Threads : will_sleep'[u] => pc'[u] \in {"w_add", "w_check", "w_presleep"}
  BY <1>1 DEF SetCancelState, Call, Goto, mutexVars, waitVars, wakeVars, TypeOK, ShouldCancel
<1>5. \A u \in Threads : pc'[u] = "w_check" => sleepq'.wchan[u]
  BY <1>1 DEF SetCancelState, Call, Goto, mutexVars, waitVars, wakeVars, TypeOK, SleepqType,
     ShouldCancel, ChainInv
<1>6. ASSUME NEW u \in Threads, Abandoned(u)' PROVE Abandoned(u)
  BY <1>1, <1>6 DEF SetCancelState, Call, Goto, mutexVars, waitVars, wakeVars, TypeOK, SleepqType,
     Abandoned, ShouldCancel
<1>7. ASSUME NEW u \in Threads, NEW v \in Threads, Owing(v, u), Abandoned(u)'
      PROVE Owing(v, u)'
  BY <1>1, <1>7, NoOneAssumption DEF SetCancelState, Call, Goto, mutexVars, waitVars, wakeVars,
     TypeOK, Owing, RecursionInv, ShouldCancel
<1>9. ASSUME NEW u \in Threads, Abandoned(u)' PROVE \E v \in Threads : Owing(v, u)'
  BY <1>1, <1>6, <1>7, <1>9
<1> QED BY <1>4, <1>5, <1>9 DEF SignalInv

LEMMA LockAcquireOwed ==
    ASSUME TypeOK, ReleaseHas, Sound(sleepq), QueuedPc, RecursionInv, ChainInv, SignalInv, NoCancel',
           NEW t \in Threads, LockAcquire(t)
    PROVE  SignalInv'
<1>1. /\ \A u \in Threads : will_sleep[u] => pc[u] \in {"w_add", "w_check", "w_presleep"}
      /\ \A u \in Threads : pc[u] = "w_check" => sleepq.wchan[u]
      /\ \A u \in Threads : Abandoned(u) => \E v \in Threads : Owing(v, u)
      /\ \A u \in Threads : ~cancel_pending[u]
  BY DEF LockAcquire, Goto, waitVars, wakeVars, cancelVars, NoCancel, SignalInv
<1>4. \A u \in Threads : will_sleep'[u] => pc'[u] \in {"w_add", "w_check", "w_presleep"}
  BY <1>1 DEF LockAcquire, Goto, waitVars, wakeVars, cancelVars, TypeOK, ShouldCancel
<1>5. \A u \in Threads : pc'[u] = "w_check" => sleepq'.wchan[u]
  BY <1>1 DEF LockAcquire, Goto, waitVars, wakeVars, cancelVars, TypeOK, SleepqType, ShouldCancel,
     ChainInv
<1>6. ASSUME NEW u \in Threads, Abandoned(u)' PROVE Abandoned(u)
  BY <1>1, <1>6 DEF LockAcquire, Goto, waitVars, wakeVars, cancelVars, TypeOK, SleepqType,
     Abandoned, ShouldCancel
<1>7. ASSUME NEW u \in Threads, NEW v \in Threads, Owing(v, u), Abandoned(u)'
      PROVE Owing(v, u)'
  BY <1>1, <1>7, NoOneAssumption DEF LockAcquire, Goto, waitVars, wakeVars, cancelVars, TypeOK,
     Owing, RecursionInv, ShouldCancel
<1>9. ASSUME NEW u \in Threads, Abandoned(u)' PROVE \E v \in Threads : Owing(v, u)'
  BY <1>1, <1>6, <1>7, <1>9
<1> QED BY <1>4, <1>5, <1>9 DEF SignalInv

LEMMA LockTimeoutOwed ==
    ASSUME TypeOK, ReleaseHas, Sound(sleepq), QueuedPc, RecursionInv, ChainInv, SignalInv, NoCancel',
           NEW t \in Threads, LockTimeout(t)
    PROVE  SignalInv'
<1>1. /\ \A u \in Threads : will_sleep[u] => pc[u] \in {"w_add", "w_check", "w_presleep"}
      /\ \A u \in Threads : pc[u] = "w_check" => sleepq.wchan[u]
      /\ \A u \in Threads : Abandoned(u) => \E v \in Threads : Owing(v, u)
      /\ \A u \in Threads : ~cancel_pending[u]
  BY DEF LockTimeout, Goto, mutexVars, waitVars, wakeVars, cancelVars, NoCancel, SignalInv
<1>4. \A u \in Threads : will_sleep'[u] => pc'[u] \in {"w_add", "w_check", "w_presleep"}
  BY <1>1 DEF LockTimeout, Goto, mutexVars, waitVars, wakeVars, cancelVars, TypeOK, ShouldCancel
<1>5. \A u \in Threads : pc'[u] = "w_check" => sleepq'.wchan[u]
  BY <1>1 DEF LockTimeout, Goto, mutexVars, waitVars, wakeVars, cancelVars, TypeOK, SleepqType,
     ShouldCancel, ChainInv
<1>6. ASSUME NEW u \in Threads, Abandoned(u)' PROVE Abandoned(u)
  BY <1>1, <1>6 DEF LockTimeout, Goto, mutexVars, waitVars, wakeVars, cancelVars, TypeOK,
     SleepqType, Abandoned, ShouldCancel
<1>7. ASSUME NEW u \in Threads, NEW v \in Threads, Owing(v, u), Abandoned(u)'
      PROVE Owing(v, u)'
  BY <1>1, <1>7, NoOneAssumption DEF LockTimeout, Goto, mutexVars, waitVars, wakeVars, cancelVars,
     TypeOK, Owing, RecursionInv, ShouldCancel
<1>9. ASSUME NEW u \in Threads, Abandoned(u)' PROVE \E v \in Threads : Owing(v, u)'
  BY <1>1, <1>6, <1>7, <1>9
<1> QED BY <1>4, <1>5, <1>9 DEF SignalInv

LEMMA UnlockWakeOwed ==
    ASSUME TypeOK, ReleaseHas, Sound(sleepq), QueuedPc, RecursionInv, ChainInv, SignalInv, NoCancel',
           NEW t \in Threads, UnlockWake(t)
    PROVE  SignalInv'
<1>1. /\ \A u \in Threads : will_sleep[u] => pc[u] \in {"w_add", "w_check", "w_presleep"}
      /\ \A u \in Threads : pc[u] = "w_check" => sleepq.wchan[u]
      /\ \A u \in Threads : Abandoned(u) => \E v \in Threads : Owing(v, u)
      /\ \A u \in Threads : ~cancel_pending[u]
  BY DEF UnlockWake, WakeAll, AfterUnlock, Goto, mutexVars, waitVars, cancelVars, NoCancel,
     SignalInv
<1>4. \A u \in Threads : will_sleep'[u] => pc'[u] \in {"w_add", "w_check", "w_presleep"}
  BY <1>1 DEF UnlockWake, WakeAll, AfterUnlock, Goto, mutexVars, waitVars, cancelVars, TypeOK,
     ShouldCancel
<1>5. \A u \in Threads : pc'[u] = "w_check" => sleepq'.wchan[u]
  BY <1>1 DEF UnlockWake, WakeAll, AfterUnlock, Goto, mutexVars, waitVars, cancelVars, TypeOK,
     SleepqType, ShouldCancel, ChainInv
<1>3. wake_sema' = Released(defer_waiters[t])
  BY DEF UnlockWake, WakeAll
<1>10. /\ \A u \in Threads : wake_sema'[u] >= wake_sema[u]
       /\ \A u \in Threads : Listed(defer_waiters[t], u) => wake_sema'[u] > 0
       /\ wake_sema \in [Threads -> Nat] /\ wake_sema' \in [Threads -> Nat]
  BY <1>3, ReleasedFacts DEF TypeOK
<1>6. ASSUME NEW u \in Threads, Abandoned(u)' PROVE Abandoned(u)
  <2>1. wake_sema[u] = 0
    BY <1>6, <1>10 DEF Abandoned
  <2> QED BY <1>6, <2>1 DEF UnlockWake, WakeAll, AfterUnlock, Goto, mutexVars, waitVars,
             cancelVars, TypeOK, Abandoned
<1>7. ASSUME NEW u \in Threads, NEW v \in Threads, Owing(v, u), Abandoned(u)'
      PROVE Owing(v, u)'
  <2>1. wake_sema'[u] = 0 /\ ~Listed(defer_waiters[t], u)
    BY <1>7, <1>10 DEF Abandoned
  <2> QED BY <1>7, <2>1 DEF UnlockWake, WakeAll, AfterUnlock, Goto, mutexVars, waitVars,
             cancelVars, TypeOK, Owing
<1>9. ASSUME NEW u \in Threads, Abandoned(u)' PROVE \E v \in Threads : Owing(v, u)'
  BY <1>1, <1>6, <1>7, <1>9
<1> QED BY <1>4, <1>5, <1>9 DEF SignalInv

LEMMA WaitUnlockOwed ==
    ASSUME TypeOK, ReleaseHas, Sound(sleepq), QueuedPc, RecursionInv, ChainInv, SignalInv, NoCancel',
           NEW t \in Threads, WaitUnlock(t)
    PROVE  SignalInv'
<1>1. /\ \A u \in Threads : will_sleep[u] => pc[u] \in {"w_add", "w_check", "w_presleep"}
      /\ \A u \in Threads : pc[u] = "w_check" => sleepq.wchan[u]
      /\ \A u \in Threads : Abandoned(u) => \E v \in Threads : Owing(v, u)
      /\ \A u \in Threads : ~cancel_pending[u]
  BY DEF WaitUnlock, Goto, cancelVars, NoCancel, SignalInv
<1>4. \A u \in Threads : will_sleep'[u] => pc'[u] \in {"w_add", "w_check", "w_presleep"}
  BY <1>1 DEF WaitUnlock, Goto, cancelVars, TypeOK, ShouldCancel
<1>5. \A u \in Threads : pc'[u] = "w_check" => sleepq'.wchan[u]
  BY <1>1 DEF WaitUnlock, Goto, cancelVars, TypeOK, SleepqType, ShouldCancel, ChainInv
<1>6. ASSUME NEW u \in Threads, Abandoned(u)' PROVE Abandoned(u)
  BY <1>1, <1>6 DEF WaitUnlock, Goto, cancelVars, TypeOK, SleepqType, Abandoned, ShouldCancel
<1>7. ASSUME NEW u \in Threads, NEW v \in Threads, Owing(v, u), Abandoned(u)'
      PROVE Owing(v, u)'
  BY <1>1, <1>7, NoOneAssumption DEF WaitUnlock, Goto, cancelVars, TypeOK, Owing, RecursionInv,
     ShouldCancel
<1>9. ASSUME NEW u \in Threads, Abandoned(u)' PROVE \E v \in Threads : Owing(v, u)'
  BY <1>1, <1>6, <1>7, <1>9
<1> QED BY <1>4, <1>5, <1>9 DEF SignalInv

LEMMA WaitAddOwed ==
    ASSUME TypeOK, ReleaseHas, Sound(sleepq), QueuedPc, RecursionInv, ChainInv, SignalInv, NoCancel',
           NEW t \in Threads, WaitAdd(t)
    PROVE  SignalInv'
<1>1. /\ \A u \in Threads : will_sleep[u] => pc[u] \in {"w_add", "w_check", "w_presleep"}
      /\ \A u \in Threads : pc[u] = "w_check" => sleepq.wchan[u]
      /\ \A u \in Threads : Abandoned(u) => \E v \in Threads : Owing(v, u)
      /\ \A u \in Threads : ~cancel_pending[u]
  BY DEF WaitAdd, ClearWake, Goto, mutexVars, cancelVars, NoCancel, SignalInv
<1>3. sleepq'.wchan = [sleepq.wchan EXCEPT ![t] = TRUE]
  BY AddSound DEF WaitAdd, QueuedPc
<1>4. \A u \in Threads : will_sleep'[u] => pc'[u] \in {"w_add", "w_check", "w_presleep"}
  BY <1>1, <1>3 DEF WaitAdd, ClearWake, Goto, mutexVars, cancelVars, TypeOK, ShouldCancel
<1>5. \A u \in Threads : pc'[u] = "w_check" => sleepq'.wchan[u]
  BY <1>1, <1>3 DEF WaitAdd, ClearWake, Goto, mutexVars, cancelVars, TypeOK, SleepqType,
     ShouldCancel, ChainInv
<1>6. ASSUME NEW u \in Threads, Abandoned(u)' PROVE Abandoned(u)
  BY <1>1, <1>6, <1>3 DEF WaitAdd, ClearWake, Goto, mutexVars, cancelVars, TypeOK, SleepqType,
     Abandoned, ShouldCancel
<1>7. ASSUME NEW u \in Threads, NEW v \in Threads, Owing(v, u), Abandoned(u)'
      PROVE Owing(v, u)'
  BY <1>1, <1>7, <1>3, NoOneAssumption DEF WaitAdd, ClearWake, Goto, mutexVars, cancelVars, TypeOK,
     Owing, RecursionInv, ShouldCancel
<1>9. ASSUME NEW u \in Threads, Abandoned(u)' PROVE \E v \in Threads : Owing(v, u)'
  BY <1>1, <1>6, <1>7, <1>9
<1> QED BY <1>4, <1>5, <1>9 DEF SignalInv

LEMMA WaitCheckOwed ==
    ASSUME TypeOK, ReleaseHas, Sound(sleepq), QueuedPc, RecursionInv, ChainInv, SignalInv, NoCancel',
           NEW t \in Threads, WaitCheck(t)
    PROVE  SignalInv'
<1>1. /\ \A u \in Threads : will_sleep[u] => pc[u] \in {"w_add", "w_check", "w_presleep"}
      /\ \A u \in Threads : pc[u] = "w_check" => sleepq.wchan[u]
      /\ \A u \in Threads : Abandoned(u) => \E v \in Threads : Owing(v, u)
      /\ \A u \in Threads : ~cancel_pending[u]
  BY DEF WaitCheck, Goto, mutexVars, wakeVars, cancelVars, NoCancel, SignalInv
<1>4. \A u \in Threads : will_sleep'[u] => pc'[u] \in {"w_add", "w_check", "w_presleep"}
  BY <1>1 DEF WaitCheck, Goto, mutexVars, wakeVars, cancelVars, TypeOK, ShouldCancel
<1>5. \A u \in Threads : pc'[u] = "w_check" => sleepq'.wchan[u]
  BY <1>1 DEF WaitCheck, Goto, mutexVars, wakeVars, cancelVars, TypeOK, SleepqType, ShouldCancel,
     ChainInv
<1>6. ASSUME NEW u \in Threads, Abandoned(u)' PROVE Abandoned(u)
  BY <1>1, <1>6 DEF WaitCheck, Goto, mutexVars, wakeVars, cancelVars, TypeOK, SleepqType,
     Abandoned, ShouldCancel
<1>7. ASSUME NEW u \in Threads, NEW v \in Threads, Owing(v, u), Abandoned(u)'
      PROVE Owing(v, u)'
  BY <1>1, <1>7, NoOneAssumption DEF WaitCheck, Goto, mutexVars, wakeVars, cancelVars, TypeOK,
     Owing, RecursionInv, ShouldCancel
<1>9. ASSUME NEW u \in Threads, Abandoned(u)' PROVE \E v \in Threads : Owing(v, u)'
  BY <1>1, <1>6, <1>7, <1>9
<1> QED BY <1>4, <1>5, <1>9 DEF SignalInv

LEMMA WaitPresleepOwed ==
    ASSUME TypeOK, ReleaseHas, Sound(sleepq), QueuedPc, RecursionInv, ChainInv, SignalInv, NoCancel',
           NEW t \in Threads, WaitPresleep(t)
    PROVE  SignalInv'
<1>1. /\ \A u \in Threads : will_sleep[u] => pc[u] \in {"w_add", "w_check", "w_presleep"}
      /\ \A u \in Threads : pc[u] = "w_check" => sleepq.wchan[u]
      /\ \A u \in Threads : Abandoned(u) => \E v \in Threads : Owing(v, u)
      /\ \A u \in Threads : ~cancel_pending[u]
  BY DEF WaitPresleep, WakeAll, Goto, mutexVars, waitVars, cancelVars, NoCancel, SignalInv
<1>4. \A u \in Threads : will_sleep'[u] => pc'[u] \in {"w_add", "w_check", "w_presleep"}
  BY <1>1 DEF WaitPresleep, WakeAll, Goto, mutexVars, waitVars, cancelVars, TypeOK, ShouldCancel
<1>5. \A u \in Threads : pc'[u] = "w_check" => sleepq'.wchan[u]
  BY <1>1 DEF WaitPresleep, WakeAll, Goto, mutexVars, waitVars, cancelVars, TypeOK, SleepqType,
     ShouldCancel, ChainInv
<1>3. wake_sema' = Released(defer_waiters[t])
  BY DEF WaitPresleep, WakeAll
<1>10. /\ \A u \in Threads : wake_sema'[u] >= wake_sema[u]
       /\ \A u \in Threads : Listed(defer_waiters[t], u) => wake_sema'[u] > 0
       /\ wake_sema \in [Threads -> Nat] /\ wake_sema' \in [Threads -> Nat]
  BY <1>3, ReleasedFacts DEF TypeOK
<1>6. ASSUME NEW u \in Threads, Abandoned(u)' PROVE Abandoned(u)
  <2>1. wake_sema[u] = 0
    BY <1>6, <1>10 DEF Abandoned
  <2> QED BY <1>6, <2>1 DEF WaitPresleep, WakeAll, Goto, mutexVars, waitVars, cancelVars, TypeOK,
             Abandoned
<1>7. ASSUME NEW u \in Threads, NEW v \in Threads, Owing(v, u), Abandoned(u)'
      PROVE Owing(v, u)'
  <2>1. wake_sema'[u] = 0 /\ ~Listed(defer_waiters[t], u)
    BY <1>7, <1>10 DEF Abandoned
  <2> QED BY <1>7, <2>1 DEF WaitPresleep, WakeAll, Goto, mutexVars, waitVars, cancelVars, TypeOK,
             Owing
<1>9. ASSUME NEW u \in Threads, Abandoned(u)' PROVE \E v \in Threads : Owing(v, u)'
  BY <1>1, <1>6, <1>7, <1>9
<1> QED BY <1>4, <1>5, <1>9 DEF SignalInv

LEMMA WaitAcquireOwed ==
    ASSUME TypeOK, ReleaseHas, Sound(sleepq), QueuedPc, RecursionInv, ChainInv, SignalInv, NoCancel',
           NEW t \in Threads, WaitAcquire(t)
    PROVE  SignalInv'
<1>1. /\ \A u \in Threads : will_sleep[u] => pc[u] \in {"w_add", "w_check", "w_presleep"}
      /\ \A u \in Threads : pc[u] = "w_check" => sleepq.wchan[u]
      /\ \A u \in Threads : Abandoned(u) => \E v \in Threads : Owing(v, u)
      /\ \A u \in Threads : ~cancel_pending[u]
  BY DEF WaitAcquire, Goto, mutexVars, waitVars, cancelVars, NoCancel, SignalInv
<1>4. \A u \in Threads : will_sleep'[u] => pc'[u] \in {"w_add", "w_check", "w_presleep"}
  BY <1>1 DEF WaitAcquire, Goto, mutexVars, waitVars, cancelVars, TypeOK, ShouldCancel
<1>5. \A u \in Threads : pc'[u] = "w_check" => sleepq'.wchan[u]
  BY <1>1 DEF WaitAcquire, Goto, mutexVars, waitVars, cancelVars, TypeOK, SleepqType, ShouldCancel,
     ChainInv
<1>6. ASSUME NEW u \in Threads, Abandoned(u)' PROVE Abandoned(u)
  BY <1>1, <1>6 DEF WaitAcquire, Goto, mutexVars, waitVars, cancelVars, TypeOK, SleepqType,
     Abandoned, ShouldCancel
<1>7. ASSUME NEW u \in Threads, NEW v \in Threads, Owing(v, u), Abandoned(u)'
      PROVE Owing(v, u)'
  BY <1>1, <1>7, NoOneAssumption DEF WaitAcquire, Goto, mutexVars, waitVars, cancelVars, TypeOK,
     Owing, RecursionInv, ShouldCancel
<1>9. ASSUME NEW u \in Threads, Abandoned(u)' PROVE \E v \in Threads : Owing(v, u)'
  BY <1>1, <1>6, <1>7, <1>9
<1> QED BY <1>4, <1>5, <1>9 DEF SignalInv

LEMMA WaitTimeoutOwed ==
    ASSUME TypeOK, ReleaseHas, Sound(sleepq), QueuedPc, RecursionInv, ChainInv, SignalInv, NoCancel',
           NEW t \in Threads, WaitTimeout(t)
    PROVE  SignalInv'
<1>1. /\ \A u \in Threads : will_sleep[u] => pc[u] \in {"w_add", "w_check", "w_presleep"}
      /\ \A u \in Threads : pc[u] = "w_check" => sleepq.wchan[u]
      /\ \A u \in Threads : Abandoned(u) => \E v \in Threads : Owing(v, u)
      /\ \A u \in Threads : ~cancel_pending[u]
  BY DEF WaitTimeout, Goto, mutexVars, wakeVars, cancelVars, NoCancel, SignalInv
<1>4. \A u \in Threads : will_sleep'[u] => pc'[u] \in {"w_add", "w_check", "w_presleep"}
  BY <1>1 DEF WaitTimeout, Goto, mutexVars, wakeVars, cancelVars, TypeOK, ShouldCancel
<1>5. \A u \in Threads : pc'[u] = "w_check" => sleepq'.wchan[u]
  BY <1>1 DEF WaitTimeout, Goto, mutexVars, wakeVars, cancelVars, TypeOK, SleepqType, ShouldCancel,
     ChainInv
<1>6. ASSUME NEW u \in Threads, Abandoned(u)' PROVE Abandoned(u)
  BY <1>1, <1>6 DEF WaitTimeout, Goto, mutexVars, wakeVars, cancelVars, TypeOK, SleepqType,
     Abandoned, ShouldCancel
<1>7. ASSUME NEW u \in Threads, NEW v \in Threads, Owing(v, u), Abandoned(u)'
      PROVE Owing(v, u)'
  BY <1>1, <1>7, NoOneAssumption DEF WaitTimeout, Goto, mutexVars, wakeVars, cancelVars, TypeOK,
     Owing, RecursionInv, ShouldCancel
<1>9. ASSUME NEW u \in Threads, Abandoned(u)' PROVE \E v \in Threads : Owing(v, u)'
  BY <1>1, <1>6, <1>7, <1>9
<1> QED BY <1>4, <1>5, <1>9 DEF SignalInv

LEMMA WaitServedOwed ==
    ASSUME TypeOK, ReleaseHas, Sound(sleepq), QueuedPc, RecursionInv, ChainInv, SignalInv, NoCancel',
           NEW t \in Threads, WaitServed(t)
    PROVE  SignalInv'
<1>1. /\ \A u \in Threads : will_sleep[u] => pc[u] \in {"w_add", "w_check", "w_presleep"}
      /\ \A u \in Threads : pc[u] = "w_check" => sleepq.wchan[u]
      /\ \A u \in Threads : Abandoned(u) => \E v \in Threads : Owing(v, u)
      /\ \A u \in Threads : ~cancel_pending[u]
  BY DEF WaitServed, Goto, mutexVars, wakeVars, cancelVars, NoCancel, SignalInv
<1>4. \A u \in Threads : will_sleep'[u] => pc'[u] \in {"w_add", "w_check", "w_presleep"}
  BY <1>1 DEF WaitServed, Goto, mutexVars, wakeVars, cancelVars, TypeOK, ShouldCancel
<1>5. \A u \in Threads : pc'[u] = "w_check" => sleepq'.wchan[u]
  BY <1>1 DEF WaitServed, Goto, mutexVars, wakeVars, cancelVars, TypeOK, SleepqType, ShouldCancel,
     ChainInv
<1>6. ASSUME NEW u \in Threads, Abandoned(u)' PROVE Abandoned(u)
  BY <1>1, <1>6 DEF WaitServed, Goto, mutexVars, wakeVars, cancelVars, TypeOK, SleepqType,
     Abandoned, ShouldCancel
<1>7. ASSUME NEW u \in Threads, NEW v \in Threads, Owing(v, u), Abandoned(u)'
      PROVE Owing(v, u)'
  BY <1>1, <1>7, NoOneAssumption DEF WaitServed, Goto, mutexVars, wakeVars, cancelVars, TypeOK,
     Owing, RecursionInv, ShouldCancel
<1>9. ASSUME NEW u \in Threads, Abandoned(u)' PROVE \E v \in Threads : Owing(v, u)'
  BY <1>1, <1>6, <1>7, <1>9
<1> QED BY <1>4, <1>5, <1>9 DEF SignalInv

LEMMA WaitGiveUpOwed ==
    ASSUME TypeOK, ReleaseHas, Sound(sleepq), QueuedPc, RecursionInv, ChainInv, SignalInv, NoCancel',
           NEW t \in Threads, WaitGiveUp(t)
    PROVE  SignalInv'
<1>1. /\ \A u \in Threads : will_sleep[u] => pc[u] \in {"w_add", "w_check", "w_presleep"}
      /\ \A u \in Threads : pc[u] = "w_check" => sleepq.wchan[u]
      /\ \A u \in Threads : Abandoned(u) => \E v \in Threads : Owing(v, u)
      /\ \A u \in Threads : ~cancel_pending[u]
  BY DEF WaitGiveUp, Goto, mutexVars, wakeVars, cancelVars, NoCancel, SignalInv
<1>3. sleepq'.wchan = [sleepq.wchan EXCEPT ![t] = FALSE]
  BY RemoveSound DEF WaitGiveUp
<1>4. \A u \in Threads : will_sleep'[u] => pc'[u] \in {"w_add", "w_check", "w_presleep"}
  BY <1>1, <1>3 DEF WaitGiveUp, Goto, mutexVars, wakeVars, cancelVars, TypeOK, ShouldCancel
<1>5. \A u \in Threads : pc'[u] = "w_check" => sleepq'.wchan[u]
  BY <1>1, <1>3 DEF WaitGiveUp, Goto, mutexVars, wakeVars, cancelVars, TypeOK, SleepqType,
     ShouldCancel, ChainInv
<1>6. ASSUME NEW u \in Threads, Abandoned(u)' PROVE Abandoned(u)
  BY <1>1, <1>6, <1>3 DEF WaitGiveUp, Goto, mutexVars, wakeVars, cancelVars, TypeOK, SleepqType,
     Abandoned, ShouldCancel
<1>7. ASSUME NEW u \in Threads, NEW v \in Threads, Owing(v, u), Abandoned(u)'
      PROVE Owing(v, u)'
  BY <1>1, <1>7, <1>3, NoOneAssumption DEF WaitGiveUp, Goto, mutexVars, wakeVars, cancelVars,
     TypeOK, Owing, RecursionInv, ShouldCancel
<1>9. ASSUME NEW u \in Threads, Abandoned(u)' PROVE \E v \in Threads : Owing(v, u)'
  BY <1>1, <1>6, <1>7, <1>9
<1> QED BY <1>4, <1>5, <1>9 DEF SignalInv

LEMMA WaitAgainOwed ==
    ASSUME TypeOK, ReleaseHas, Sound(sleepq), QueuedPc, RecursionInv, ChainInv, SignalInv, NoCancel',
           NEW t \in Threads, WaitAgain(t)
    PROVE  SignalInv'
<1>1. /\ \A u \in Threads : will_sleep[u] => pc[u] \in {"w_add", "w_check", "w_presleep"}
      /\ \A u \in Threads : pc[u] = "w_check" => sleepq.wchan[u]
      /\ \A u \in Threads : Abandoned(u) => \E v \in Threads : Owing(v, u)
      /\ \A u \in Threads : ~cancel_pending[u]
  BY DEF WaitAgain, ClearWake, Goto, mutexVars, waitVars, cancelVars, NoCancel, SignalInv
<1>4. \A u \in Threads : will_sleep'[u] => pc'[u] \in {"w_add", "w_check", "w_presleep"}
  BY <1>1 DEF WaitAgain, ClearWake, Goto, mutexVars, waitVars, cancelVars, TypeOK, ShouldCancel
<1>5. \A u \in Threads : pc'[u] = "w_check" => sleepq'.wchan[u]
  BY <1>1 DEF WaitAgain, ClearWake, Goto, mutexVars, waitVars, cancelVars, TypeOK, SleepqType,
     ShouldCancel, ChainInv
<1>6. ASSUME NEW u \in Threads, Abandoned(u)' PROVE Abandoned(u)
  BY <1>1, <1>6 DEF WaitAgain, ClearWake, Goto, mutexVars, waitVars, cancelVars, TypeOK,
     SleepqType, Abandoned, ShouldCancel
<1>7. ASSUME NEW u \in Threads, NEW v \in Threads, Owing(v, u), Abandoned(u)'
      PROVE Owing(v, u)'
  BY <1>1, <1>7, NoOneAssumption DEF WaitAgain, ClearWake, Goto, mutexVars, waitVars, cancelVars,
     TypeOK, Owing, RecursionInv, ShouldCancel
<1>9. ASSUME NEW u \in Threads, Abandoned(u)' PROVE \E v \in Threads : Owing(v, u)'
  BY <1>1, <1>6, <1>7, <1>9
<1> QED BY <1>4, <1>5, <1>9 DEF SignalInv

LEMMA WaitRelockOwed ==
    ASSUME TypeOK, ReleaseHas, Sound(sleepq), QueuedPc, RecursionInv, ChainInv, SignalInv, NoCancel',
           NEW t \in Threads, WaitRelock(t)
    PROVE  SignalInv'
<1>1. /\ \A u \in Threads : will_sleep[u] => pc[u] \in {"w_add", "w_check", "w_presleep"}
      /\ \A u \in Threads : pc[u] = "w_check" => sleepq.wchan[u]
      /\ \A u \in Threads : Abandoned(u) => \E v \in Threads : Owing(v, u)
      /\ \A u \in Threads : ~cancel_pending[u]
  BY DEF WaitRelock, TestCancel, Goto, waitVars, wakeVars, NoCancel, SignalInv
<1>4. \A u \in Threads : will_sleep'[u] => pc'[u] \in {"w_add", "w_check", "w_presleep"}
  BY <1>1 DEF WaitRelock, TestCancel, Goto, waitVars, wakeVars, TypeOK, ShouldCancel
<1>5. \A u \in Threads : pc'[u] = "w_check" => sleepq'.wchan[u]
  BY <1>1 DEF WaitRelock, TestCancel, Goto, waitVars, wakeVars, TypeOK, SleepqType, ShouldCancel,
     ChainInv
<1>6. ASSUME NEW u \in Threads, Abandoned(u)' PROVE Abandoned(u)
  BY <1>1, <1>6 DEF WaitRelock, TestCancel, Goto, waitVars, wakeVars, TypeOK, SleepqType,
     Abandoned, ShouldCancel
<1>7. ASSUME NEW u \in Threads, NEW v \in Threads, Owing(v, u), Abandoned(u)'
      PROVE Owing(v, u)'
  BY <1>1, <1>7, NoOneAssumption DEF WaitRelock, TestCancel, Goto, waitVars, wakeVars, TypeOK,
     Owing, RecursionInv, ShouldCancel
<1>9. ASSUME NEW u \in Threads, Abandoned(u)' PROVE \E v \in Threads : Owing(v, u)'
  BY <1>1, <1>6, <1>7, <1>9
<1> QED BY <1>4, <1>5, <1>9 DEF SignalInv

LEMMA ReleaseOwed ==
    ASSUME TypeOK, ReleaseHas, Sound(sleepq), QueuedPc, RecursionInv, ChainInv, SignalInv, NoCancel',
           NEW t \in Threads, Release(t)
    PROVE  SignalInv'
<1>1. /\ \A u \in Threads : will_sleep[u] => pc[u] \in {"w_add", "w_check", "w_presleep"}
      /\ \A u \in Threads : pc[u] = "w_check" => sleepq.wchan[u]
      /\ \A u \in Threads : Abandoned(u) => \E v \in Threads : Owing(v, u)
      /\ \A u \in Threads : ~cancel_pending[u]
  BY DEF Release, Goto, mutexVars, waitVars, cancelVars, NoCancel, SignalInv
<1>4. \A u \in Threads : will_sleep'[u] => pc'[u] \in {"w_add", "w_check", "w_presleep"}
  BY <1>1 DEF Release, Goto, mutexVars, waitVars, cancelVars, TypeOK, ShouldCancel
<1>5. \A u \in Threads : pc'[u] = "w_check" => sleepq'.wchan[u]
  BY <1>1 DEF Release, Goto, mutexVars, waitVars, cancelVars, TypeOK, SleepqType, ShouldCancel,
     ChainInv
<1>6. ASSUME NEW u \in Threads, Abandoned(u)' PROVE Abandoned(u)
  BY <1>1, <1>6, SMTT(30) DEF Release, Goto, mutexVars, waitVars, cancelVars, TypeOK, SleepqType, Abandoned,
     ShouldCancel
<1>7. ASSUME NEW u \in Threads, NEW v \in Threads, Owing(v, u), Abandoned(u)'
      PROVE Owing(v, u)'
  <2>1. PICK l : l = immediate[t]
    OBVIOUS
  <2>2. l \in Seq(Threads) /\ l # <<>> /\ Head(l) = l[1] /\ Tail(l) \in Seq(Threads)
    BY <2>1 DEF Release, TypeOK, ReleaseHas
  <2>3. wake_sema'[u] = 0 /\ wake_sema' = [wake_sema EXCEPT ![Head(l)] = @ + 1]
    BY <1>7, <2>1 DEF Abandoned, Release
  <2>4. u # Head(l)
    <3>1. PICK h \in Threads : h = Head(l)
      BY <2>2
    <3>2. wake_sema' = [wake_sema EXCEPT ![h] = wake_sema[h] + 1] /\ wake_sema \in [Threads -> Nat]
      BY <2>3, <3>1 DEF TypeOK
    <3>3. wake_sema'[h] > 0
      BY <3>2
    <3> QED BY <2>3, <3>1, <3>3
  <2>5. Listed(l, u) => Listed(Tail(l), u)
    <3>1. ASSUME NEW i \in 1..Len(l), l[i] = u PROVE Listed(Tail(l), u)
      <4>1. i # 1
        BY <2>2, <2>4, <3>1
      <4>2. i - 1 \in DOMAIN Tail(l) /\ Tail(l)[i - 1] = u
        BY <2>2, <3>1, <4>1
      <4> QED BY <4>2 DEF Listed
    <3> QED BY <2>2, <3>1 DEF Listed
  <2>6. immediate' = [immediate EXCEPT ![t] = Tail(l)]
    BY <2>1 DEF Release
  <2>7. Listed(immediate[v], u) => Listed(immediate'[v], u)
    BY <2>1, <2>5, <2>6 DEF TypeOK
  <2> QED BY <1>7, <2>7 DEF Release, Goto, mutexVars, TypeOK, Owing
<1>9. ASSUME NEW u \in Threads, Abandoned(u)' PROVE \E v \in Threads : Owing(v, u)'
  BY <1>1, <1>6, <1>7, <1>9
<1> QED BY <1>4, <1>5, <1>9 DEF SignalInv

LEMMA ExitOwed ==
    ASSUME TypeOK, ReleaseHas, Sound(sleepq), QueuedPc, RecursionInv, ChainInv, SignalInv, NoCancel',
           NEW t \in Threads, Exit(t)
    PROVE  SignalInv'
<1>1. /\ \A u \in Threads : will_sleep[u] => pc[u] \in {"w_add", "w_check", "w_presleep"}
      /\ \A u \in Threads : pc[u] = "w_check" => sleepq.wchan[u]
      /\ \A u \in Threads : Abandoned(u) => \E v \in Threads : Owing(v, u)
      /\ \A u \in Threads : ~cancel_pending[u]
  BY DEF Exit, Goto, mutexVars, waitVars, wakeVars, cancelVars, NoCancel, SignalInv
<1>4. \A u \in Threads : will_sleep'[u] => pc'[u] \in {"w_add", "w_check", "w_presleep"}
  BY <1>1 DEF Exit, Goto, mutexVars, waitVars, wakeVars, cancelVars, TypeOK, ShouldCancel
<1>5. \A u \in Threads : pc'[u] = "w_check" => sleepq'.wchan[u]
  BY <1>1 DEF Exit, Goto, mutexVars, waitVars, wakeVars, cancelVars, TypeOK, SleepqType,
     ShouldCancel, ChainInv
<1>6. ASSUME NEW u \in Threads, Abandoned(u)' PROVE Abandoned(u)
  BY <1>1, <1>6 DEF Exit, Goto, mutexVars, waitVars, wakeVars, cancelVars, TypeOK, SleepqType,
     Abandoned, ShouldCancel
<1>7. ASSUME NEW u \in Threads, NEW v \in Threads, Owing(v, u), Abandoned(u)'
      PROVE Owing(v, u)'
  BY <1>1, <1>7, NoOneAssumption DEF Exit, Goto, mutexVars, waitVars, wakeVars, cancelVars, TypeOK,
     Owing, RecursionInv, ShouldCancel
<1>9. ASSUME NEW u \in Threads, Abandoned(u)' PROVE \E v \in Threads : Owing(v, u)'
  BY <1>1, <1>6, <1>7, <1>9
<1> QED BY <1>4, <1>5, <1>9 DEF SignalInv

LEMMA UnlockOwed ==
    ASSUME TypeOK, ReleaseHas, Sound(sleepq), QueuedPc, RecursionInv, ChainInv, SignalInv, NoCancel',
           NEW t \in Threads, Unlock(t)
    PROVE  SignalInv'
<1>1. /\ \A u \in Threads : will_sleep[u] => pc[u] \in {"w_add", "w_check", "w_presleep"}
      /\ \A u \in Threads : pc[u] = "w_check" => sleepq.wchan[u]
      /\ \A u \in Threads : Abandoned(u) => \E v \in Threads : Owing(v, u)
      /\ \A u \in Threads : ~cancel_pending[u]
  BY DEF Unlock, AfterUnlock, Goto, waitVars, wakeVars, cancelVars, NoCancel, SignalInv
<1>4. \A u \in Threads : will_sleep'[u] => pc'[u] \in {"w_add", "w_check", "w_presleep"}
  BY <1>1 DEF Unlock, AfterUnlock, Goto, waitVars, wakeVars, cancelVars, TypeOK, ShouldCancel
<1>5. \A u \in Threads : pc'[u] = "w_check" => sleepq'.wchan[u]
  BY <1>1 DEF Unlock, AfterUnlock, Goto, waitVars, wakeVars, cancelVars, TypeOK, SleepqType,
     ShouldCancel, ChainInv
<1>6. ASSUME NEW u \in Threads, Abandoned(u)' PROVE Abandoned(u)
  BY <1>1, <1>6 DEF Unlock, AfterUnlock, Goto, waitVars, wakeVars, cancelVars, TypeOK, SleepqType,
     Abandoned, ShouldCancel
<1>7. ASSUME NEW u \in Threads, NEW v \in Threads, Owing(v, u), Abandoned(u)'
      PROVE Owing(v, u)'
  BY <1>1, <1>7, NoOneAssumption DEF Unlock, AfterUnlock, Goto, waitVars, wakeVars, cancelVars,
     TypeOK, Owing, RecursionInv, ShouldCancel
<1>9. ASSUME NEW u \in Threads, Abandoned(u)' PROVE \E v \in Threads : Owing(v, u)'
  BY <1>1, <1>6, <1>7, <1>9
<1> QED BY <1>4, <1>5, <1>9 DEF SignalInv

LEMMA SignalStep ==
    ASSUME TypeOK, ReleaseHas, Sound(sleepq), QueuedPc, RecursionInv, ChainInv, SignalInv, [Next]_vars
    PROVE  SignalInv'
<1>1. CASE ~NoCancel'
  BY <1>1 DEF SignalInv
<1>2. CASE NoCancel' /\ Next
  <2>1. ASSUME NEW t \in Threads, Calls(t) PROVE SignalInv'
    BY <1>2, <2>1, MutexLockOwed, CallWaitOwed, SignalOwed, BroadcastOwed, CancelOwed,
       SetCancelStateOwed DEF Calls
  <2>2. ASSUME NEW t \in Threads, Step(t) PROVE SignalInv'
    BY <1>2, <2>2, LockAcquireOwed, LockTimeoutOwed, UnlockWakeOwed, WaitUnlockOwed, WaitAddOwed,
       WaitCheckOwed, WaitPresleepOwed, WaitAcquireOwed, WaitTimeoutOwed, WaitServedOwed,
       WaitGiveUpOwed, WaitAgainOwed, WaitRelockOwed, ReleaseOwed, ExitOwed DEF Step
  <2> QED BY <1>2, <2>1, <2>2, UnlockOwed DEF Next
<1>3. CASE UNCHANGED vars
  <2>1. /\ pc' = pc /\ sleepq' = sleepq /\ will_sleep' = will_sleep /\ wake_sema' = wake_sema
        /\ immediate' = immediate /\ defer_waiters' = defer_waiters /\ owner' = owner
        /\ deferred' = deferred /\ cancel_pending' = cancel_pending
    BY <1>3 DEF vars, mutexVars, wakeVars, cancelVars
  <2> QED BY <2>1 DEF SignalInv, NoCancel, Abandoned, Owing
<1> QED BY <1>1, <1>2, <1>3

LEMMA TypeStep ==
    ASSUME TypeOK, ReleaseHas, RecursionInv, Sound(sleepq), QueuedPc, [Next]_vars
    PROVE  TypeOK' /\ ReleaseHas'
<1>1. ControlOK /\ CountsOK /\ PcOK /\ ListsOK
  BY TypeParts
<1>2. ControlOK' /\ CountsOK' /\ PcOK' /\ ListsOK' /\ ReleaseHas'
  BY <1>1, ControlStep, CountsStep, PcStep, ListsStep
<1>3. SleepqType(sleepq')
  BY QueueStep DEF Sound
<1> QED BY <1>2, <1>3 DEF TypeOK, ControlOK, CountsOK, PcOK, ListsOK

-----------------------------------------------------------------------------
(* The theorems. *)

\* The inductive invariant.
IndInv ==
    /\ TypeOK /\ ReleaseHas
    /\ Sound(sleepq) /\ QueuedPc
    /\ RecursionInv
    /\ ChainInv /\ SignalInv

LEMMA InitInv == Init => IndInv
<1> SUFFICES ASSUME Init PROVE IndInv
  OBVIOUS
<1>1. Sound(sleepq) /\ QueuedPc
  <2>1. Sound(sleepq)
    BY InitSound DEF Init
  <2> QED BY <2>1 DEF Init, SleepqInit, QueuedPc
<1>2. TypeOK /\ ReleaseHas
  <2>1. ControlOK /\ PcOK
    BY DEF Init, ControlOK, PcOK, PcStates
  <2>4. CountsOK
    BY CondAssumption DEF Init, CountsOK
  <2>2. ListsOK
    BY CondAssumption DEF Init, ListsOK
  <2>3. SleepqType(sleepq)
    BY <1>1 DEF Sound
  <2> QED BY <2>1, <2>2, <2>3, <2>4, TypeParts DEF Init, ReleaseHas
<1>3. RecursionInv /\ ChainInv
  BY NoOneAssumption DEF Init, RecursionInv, RecursionRestored, ChainInv, Waiting
<1>4. SignalInv
  BY DEF Init, SignalInv, Abandoned
<1> QED BY <1>1, <1>2, <1>3, <1>4 DEF IndInv

LEMMA Invariance == Spec => []IndInv
<1>1. IndInv /\ [Next]_vars => IndInv'
  BY TypeStep, QueueStep, RecursionStep, ChainStep, SignalStep DEF IndInv
<1> QED BY InitInv, <1>1, PTL DEF Spec

\* Every variable keeps its type; no thread's array of deferred waiters overflows.
THEOREM TypeCorrect == Spec => []TypeOK
<1>1. IndInv => TypeOK
  BY DEF IndInv
<1> QED BY <1>1, Invariance, PTL

\* SleepqAdd, SleepqRemove and SleepqDrop, in any order the condition variable calls them, lose no
\* queue object and share none, and the queue lists exactly the threads with a wait channel.
THEOREM SleepQueueSoundness == Spec => []SleepQueueSound
<1>1. IndInv => SleepQueueSound
  BY DEF IndInv, Sound, SleepQueueSound
<1> QED BY <1>1, Invariance, PTL

\* CvUnlock and CvLock carry the recursion count over a wait.
THEOREM RecursionKept == Spec => []RecursionRestored
<1>1. IndInv => RecursionRestored
  BY DEF IndInv, RecursionInv
<1> QED BY <1>1, Invariance, PTL

\* While nobody is canceled, a waiter that was taken off the queue and sleeps is owed its release.
THEOREM NoSignalLost == Spec => []SignalNotLost
<1>1. IndInv => SignalNotLost
  BY DEF IndInv, SignalInv, NoCancel, SignalNotLost, Taken, Abandoned, Owing, Owes, Listed
<1> QED BY <1>1, Invariance, PTL

=============================================================================
