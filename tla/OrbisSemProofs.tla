--------------------------- MODULE OrbisSemProofs ---------------------------
(***************************************************************************)
(* Proofs about the kernel semaphore for every set of threads, priorities, *)
(* argument values and number of calls.                                    *)
(***************************************************************************)
EXTENDS OrbisSem, SequenceTheorems, TLAPS

-----------------------------------------------------------------------------
(* The wait list is a std::list in the code and a sequence here. *)

\* list.erase(it): the elements behind the erased one move up by one.
LEMMA RemoveAtFacts ==
    ASSUME NEW S, NEW s \in Seq(S), NEW i \in 1..Len(s)
    PROVE  /\ RemoveAt(s, i) \in Seq(S)
           /\ Len(RemoveAt(s, i)) = Len(s) - 1
           /\ \A j \in 1..(Len(s) - 1) :
                 RemoveAt(s, i)[j] = IF j < i THEN s[j] ELSE s[j + 1]
  <1> DEFINE a == SubSeq(s, 1, i - 1)
             b == SubSeq(s, i + 1, Len(s))
  <1>1. a \in Seq(S) /\ Len(a) = i - 1 /\ \A j \in 1..(i - 1) : a[j] = s[j]
    OBVIOUS
  <1>2. b \in Seq(S) /\ Len(b) = Len(s) - i /\ \A j \in 1..(Len(s) - i) : b[j] = s[j + i]
    OBVIOUS
  <1>3. RemoveAt(s, i) = a \o b
    BY DEF RemoveAt
  <1> HIDE DEF a, b
  <1>4. a \o b \in Seq(S) /\ Len(a \o b) = Len(s) - 1
    <2>1. a \o b \in Seq(S) /\ Len(a \o b) = Len(a) + Len(b)
      BY <1>1, <1>2, ConcatProperties, Zenon
    <2> QED
      BY <1>1, <1>2, <2>1
  <1>5. ASSUME NEW j \in 1..(Len(s) - 1)
        PROVE  (a \o b)[j] = IF j < i THEN s[j] ELSE s[j + 1]
    <2>1. CASE j < i
      BY <1>1, <1>2, <2>1
    <2>2. CASE ~(j < i)
      <3>1. (a \o b)[j] = b[j - (i - 1)]
        BY <1>1, <1>2, <2>2
      <3>2. b[j - (i - 1)] = s[j + 1]
        BY <1>2, <2>2
      <3> QED
        BY <2>2, <3>1, <3>2
    <2> QED
      BY <2>1, <2>2
  <1> QED
    BY <1>3, <1>4, <1>5

\* list.insert(it, x): the elements from position i on move down by one.
LEMMA InsertAtFacts ==
    ASSUME NEW S, NEW s \in Seq(S), NEW x \in S, NEW i \in 1..(Len(s) + 1)
    PROVE  /\ InsertAt(s, i, x) \in Seq(S)
           /\ Len(InsertAt(s, i, x)) = Len(s) + 1
           /\ \A j \in 1..(Len(s) + 1) :
                 InsertAt(s, i, x)[j] = IF j < i THEN s[j] ELSE IF j = i THEN x ELSE s[j - 1]
  <1> DEFINE a == SubSeq(s, 1, i - 1)
             b == SubSeq(s, i, Len(s))
  <1>1. a \in Seq(S) /\ Len(a) = i - 1 /\ \A j \in 1..(i - 1) : a[j] = s[j]
    OBVIOUS
  <1>2. b \in Seq(S) /\ Len(b) = Len(s) - i + 1
          /\ \A j \in 1..(Len(s) - i + 1) : b[j] = s[j + i - 1]
    OBVIOUS
  <1> DEFINE c == a \o <<x>>
  <1>3. InsertAt(s, i, x) = c \o b
    BY DEF InsertAt
  <1>4. c \in Seq(S) /\ Len(c) = i /\ \A j \in 1..i : c[j] = IF j < i THEN s[j] ELSE x
    <2> HIDE DEF a
    <2> QED
      BY <1>1
  <1> HIDE DEF a, b, c
  <1>5. c \o b \in Seq(S) /\ Len(c \o b) = Len(s) + 1
    <2>1. c \o b \in Seq(S) /\ Len(c \o b) = Len(c) + Len(b)
      BY <1>4, <1>2, ConcatProperties, Zenon
    <2> QED
      BY <1>2, <1>4, <2>1
  <1>6. ASSUME NEW j \in 1..(Len(s) + 1)
        PROVE  (c \o b)[j] = IF j < i THEN s[j] ELSE IF j = i THEN x ELSE s[j - 1]
    <2>1. CASE j <= i
      BY <1>4, <1>2, <2>1
    <2>2. CASE ~(j <= i)
      <3>1. (c \o b)[j] = b[j - i]
        BY <1>4, <1>2, <2>2
      <3>2. b[j - i] = s[j - 1]
        BY <1>2, <2>2
      <3> QED
        BY <2>2, <3>1, <3>2
    <2> QED
      BY <2>1, <2>2
  <1> QED
    BY <1>3, <1>5, <1>6

-----------------------------------------------------------------------------

\* Signal's loop is the only code that holds the mutex between two steps.
HolderInv == \A t \in Threads : pc[t] = "signal" <=> mutex = t

\* The call record says what a thread is doing, and nobody calls a method before the object exists.
CallInv ==
    \A t \in Threads :
        /\ InWait(t) => call[t].op = "wait"
        /\ pc[t] = "idle" => call[t].op = "none"
        /\ pc[t] = "signal" => call[t].op = "signal"
        /\ pc[t] = "erase" => call[t].op = "delete"
        /\ slot = "free" => pc[t] = "idle"

\* NoEligibleSleeper strengthened to the middle of Signal's loop: the waiters in front of the
\* iterator cannot be served with the tokens left.
ServedPrefix ==
    \A i \in 1..Len(wait_list) :
        (mutex = NoOne \/ i < it) => call[wait_list[i]].n > token_count

\* OneVerdict strengthened: outside Wait there is no WaitingThread, and one without a verdict
\* has no permit.
VerdictInv ==
    \A t \in Threads :
        /\ ~InWait(t) => was[t] = {}
        /\ \A f, g \in was[t] : f = g
        /\ was[t] = {} => sem[t] = 0
        /\ pc[t] = "sleep" /\ was[t] # {} => sem[t] = 1
        /\ sem[t] <= 1

\* What a thread has paid at every point of its call.
DebitInv ==
    \A t \in Threads :
        /\ pc[t] = "lock" => debits[t] = 0
        /\ InWait(t) => debits[t] = IF "signaled" \in was[t] THEN 1 ELSE 0

IndInv ==
    TypeOK /\ HolderInv /\ CallInv /\ ListSound /\ ServedPrefix /\ VerdictInv /\ DebitInv

-----------------------------------------------------------------------------
LEMMA ArgumentFacts ==
    /\ \A n \in Needs : n \in Nat
    /\ \A n \in SignalCounts \cup SetCounts : n \in Int
    /\ \A n \in Timeouts : n \in Nat
    /\ NoTimeout \in Int
  BY CountAssumption, TimeAssumption DEF NoTimeout

LEMMA CallFacts ==
    /\ \A c \in Calls : c.n \in Int
    /\ \A c \in Calls : c.timeout \in Timeouts \cup {NoTimeout}
    /\ \A c \in Calls : c.op # "none"
    /\ \A c \in Calls : c.op \in {"wait", "poll"} => c.n \in Nat
    /\ NoCall.op = "none" /\ NoCall.n = 0 /\ NoCall.timeout = NoTimeout
  <1>1. \A c \in Calls : c.n \in Int
    BY ArgumentFacts DEF Calls
  <1>2. \A c \in Calls : c.timeout \in Timeouts \cup {NoTimeout}
    BY DEF Calls
  <1>3. \A c \in Calls : c.op # "none"
    BY DEF Calls
  <1>4. \A c \in Calls : c.op \in {"wait", "poll"} => c.n \in Nat
    BY ArgumentFacts DEF Calls
  <1> QED
    BY <1>1, <1>2, <1>3, <1>4 DEF NoCall

LEMMA TypedCall ==
    ASSUME TypeOK, NEW u \in Threads
    PROVE  /\ call[u].n \in Int
           /\ call[u].timeout \in Timeouts \cup {NoTimeout}
           /\ call[u].op \in {"wait", "poll"} => call[u].n \in Nat
  <1>1. call[u] \in Calls \cup {NoCall}
    BY DEF TypeOK
  <1> QED
    BY <1>1, CallFacts

LEMMA GetResultFacts ==
    ASSUME NEW flags \in SUBSET Flags, \A f, g \in flags : f = g
    PROVE  /\ GetResult(flags) \in Results
           /\ GetResult(flags) = "ETIMEDOUT" <=> flags = {}
           /\ GetResult(flags) = "OK" <=> "signaled" \in flags
  BY DEF GetResult, Flags, Results

LEMMA InitInd == Init => IndInv
  <1> SUFFICES ASSUME Init PROVE IndInv
    OBVIOUS
  <1>1. TypeOK
    <2>1. result \in [Threads -> Results] /\ was \in [Threads -> SUBSET Flags]
      BY DEF Init, Results
    <2>2. call \in [Threads -> Calls \cup {NoCall}]
      <3>1. call = [t \in Threads |-> NoCall]
        BY DEF Init
      <3>2. NoCall \in Calls \cup {NoCall}
        OBVIOUS
      <3> QED
        BY <3>1, <3>2, Zenon
    <2>3. budget \in 0..MaxCalls
      BY CallAssumption DEF Init
    <2>4. /\ pc \in [Threads -> {"idle", "lock", "sleep", "relock", "signal", "erase"}]
          /\ sem \in [Threads -> Nat] /\ elapsed \in [Threads -> Nat]
      BY DEF Init
    <2>5. remaining \in [Threads -> Nat] /\ debits \in [Threads -> Nat]
      BY DEF Init
    <2>6. wait_list \in Seq(Threads)
      BY DEF Init
    <2>7. mutex \in Threads \cup {NoOne} /\ it \in Nat \ {0}
      BY DEF Init
    <2>8. is_fifo \in BOOLEAN
      BY Zenon DEF Init
    <2>9. /\ slot \in {"free", "live", "erased"}
          /\ token_count \in Int /\ max_count \in Int /\ init_count \in Int
      BY DEF Init
    <2> QED
      BY <2>1, <2>2, <2>3, <2>4, <2>5, <2>6, <2>7, <2>8, <2>9 DEF TypeOK
  <1>2. HolderInv /\ CallInv /\ ListSound /\ ServedPrefix
    BY CallFacts, ThreadAssumption
    DEF Init, HolderInv, CallInv, ListSound, ServedPrefix, Queued, InWait
  <1>3. VerdictInv /\ DebitInv
    BY DEF Init, VerdictInv, DebitInv, InWait
  <1> QED
    BY <1>1, <1>2, <1>3 DEF IndInv

\* A step of a thread that is not in Wait before or after it leaves the waiters alone.
LEMMA OutsideWait ==
    ASSUME IndInv, NEW t \in Threads, ~InWait(t), ~InWait(t)',
           pc'[t] = "idle" => call'[t].op = "none",
           pc'[t] = "lock" => debits'[t] = 0,
           pc'[t] = "signal" => call'[t].op = "signal",
           pc'[t] = "erase" => call'[t].op = "delete",
           slot' = "free" => slot = "free" /\ pc'[t] = "idle",
           \A u \in Threads \ {t} : /\ pc'[u] = pc[u] /\ call'[u] = call[u]
                                    /\ debits'[u] = debits[u],
           UNCHANGED <<wait_list, was, sem>>
    PROVE  ListSound' /\ VerdictInv' /\ DebitInv' /\ CallInv'
  <1>1. \A u \in Threads : InWait(u)' <=> InWait(u)
    BY DEF InWait
  <1>2. ListSound'
    BY <1>1 DEF IndInv, ListSound, Queued
  <1>3. VerdictInv'
    BY <1>1 DEF IndInv, VerdictInv, InWait
  <1>4. DebitInv'
    BY <1>1 DEF IndInv, DebitInv
  <1>5. CallInv'
    BY <1>1 DEF IndInv, CallInv
  <1> QED
    BY <1>2, <1>3, <1>4, <1>5

\* While the list stands still, tokens that only become fewer serve nobody.
LEMMA ServedFrame ==
    ASSUME IndInv, UNCHANGED <<wait_list, mutex, it>>,
           token_count' \in Int, token_count' <= token_count,
           \A u \in Threads : InWait(u) => call'[u] = call[u]
    PROVE  ServedPrefix'
  <1> SUFFICES ASSUME NEW i \in 1..Len(wait_list), mutex = NoOne \/ i < it
               PROVE  call'[wait_list[i]].n > token_count'
    BY DEF ServedPrefix
  <1>1. wait_list[i] \in Threads
    BY DEF IndInv, TypeOK
  <1>2. InWait(wait_list[i])
    BY <1>1 DEF IndInv, ListSound, Queued
  <1>3. call[wait_list[i]].n > token_count
    BY DEF IndInv, ServedPrefix
  <1>4. call[wait_list[i]].n \in Int /\ token_count \in Int
    <2>1. call[wait_list[i]] \in Calls \cup {NoCall} /\ token_count \in Int
      BY <1>1 DEF IndInv, TypeOK
    <2> QED
      BY <2>1, CallFacts
  <1>5. call'[wait_list[i]] = call[wait_list[i]]
    BY <1>1, <1>2
  <1> QED
    BY <1>3, <1>4, <1>5

LEMMA EnterCallInd ==
    ASSUME IndInv, NEW t \in Threads, NEW c \in Calls, EnterCall(t, c)
    PROVE  IndInv'
  <1>1. TypeOK'
    <2>1. pc' \in [Threads -> {"idle", "lock", "sleep", "relock", "signal", "erase"}]
      BY DEF IndInv, TypeOK, EnterCall
    <2>2. call' \in [Threads -> Calls \cup {NoCall}]
      BY DEF IndInv, TypeOK, EnterCall
    <2>3. debits' \in [Threads -> Nat] /\ remaining' \in [Threads -> Nat]
      BY DEF IndInv, TypeOK, EnterCall
    <2>4. result' \in [Threads -> Results]
      BY DEF Results, IndInv, TypeOK, EnterCall
    <2>5. budget' \in 0..MaxCalls
      BY CallAssumption DEF IndInv, TypeOK, EnterCall
    <2> QED
      BY <2>1, <2>2, <2>3, <2>4, <2>5 DEF IndInv, TypeOK, EnterCall, objectVars, waiterVars
  <1>2. ListSound' /\ VerdictInv' /\ DebitInv' /\ CallInv'
    <2>1. ~InWait(t) /\ ~InWait(t)' /\ UNCHANGED <<wait_list, was, sem>>
      BY DEF IndInv, TypeOK, InWait, EnterCall, waiterVars
    <2>2. /\ pc'[t] = "idle" => call'[t].op = "none"
          /\ pc'[t] = "lock" => debits'[t] = 0
          /\ pc'[t] = "signal" => call'[t].op = "signal"
          /\ pc'[t] = "erase" => call'[t].op = "delete"
          /\ slot' = "free" => slot = "free" /\ pc'[t] = "idle"
      BY CallFacts DEF IndInv, TypeOK, CallInv, DebitInv, EnterCall, objectVars
    <2>3. \A u \in Threads \ {t} : /\ pc'[u] = pc[u] /\ call'[u] = call[u]
                                   /\ debits'[u] = debits[u]
      BY DEF IndInv, TypeOK, EnterCall
    <2> QED
      BY <2>1, <2>2, <2>3, OutsideWait
  <1>3. HolderInv'
    BY ThreadAssumption DEF IndInv, TypeOK, HolderInv, EnterCall
  <1>4. ServedPrefix'
    <2>1. UNCHANGED <<wait_list, mutex, it>> /\ token_count' \in Int /\ token_count' <= token_count
      BY DEF IndInv, TypeOK, EnterCall
    <2>2. \A u \in Threads : InWait(u) => call'[u] = call[u]
      BY DEF IndInv, TypeOK, InWait, EnterCall
    <2> QED
      BY <2>1, <2>2, ServedFrame
  <1> QED
    BY <1>1, <1>2, <1>3, <1>4 DEF IndInv

LEMMA CreateSemaInd ==
    ASSUME IndInv, NEW t \in Threads, NEW i \in InitCounts, NEW m \in MaxCounts,
           NEW f \in BOOLEAN, CreateSema(t, i, m, f)
    PROVE  IndInv'
  <1>1. TypeOK'
    <2>1. slot' \in {"free", "live", "erased"} /\ is_fifo' \in BOOLEAN
      BY DEF IndInv, TypeOK, CreateSema, objectVars
    <2>2. token_count' \in Int /\ init_count' \in Int /\ max_count' \in Int
      BY CountAssumption DEF IndInv, TypeOK, CreateSema, objectVars
    <2>3. result' \in [Threads -> Results]
      BY DEF IndInv, TypeOK, CreateSema, Results
    <2> QED
      BY <2>1, <2>2, <2>3 DEF IndInv, TypeOK, CreateSema, objectVars, waiterVars
  <1>2. ListSound' /\ VerdictInv' /\ DebitInv' /\ CallInv'
    <2>1. ~InWait(t) /\ ~InWait(t)' /\ UNCHANGED <<wait_list, was, sem>>
      BY DEF IndInv, TypeOK, InWait, CreateSema, waiterVars
    <2>2. /\ pc'[t] = "idle" => call'[t].op = "none"
          /\ pc'[t] = "lock" => debits'[t] = 0
          /\ pc'[t] = "signal" => call'[t].op = "signal"
          /\ pc'[t] = "erase" => call'[t].op = "delete"
          /\ slot' = "free" => slot = "free" /\ pc'[t] = "idle"
      BY CallFacts DEF IndInv, TypeOK, CallInv, DebitInv, CreateSema, objectVars
    <2>3. \A u \in Threads \ {t} : /\ pc'[u] = pc[u] /\ call'[u] = call[u]
                                   /\ debits'[u] = debits[u]
      BY DEF IndInv, TypeOK, CreateSema
    <2> QED
      BY <2>1, <2>2, <2>3, OutsideWait
  <1>3. HolderInv'
    BY ThreadAssumption DEF IndInv, TypeOK, HolderInv, CreateSema
  <1>4. ServedPrefix'
    <2>1. \A u \in Threads : ~Queued(u)
      BY DEF IndInv, CallInv, ListSound, InWait, CreateSema
    <2>2. \A j \in 1..Len(wait_list) : wait_list[j] \in Threads
      BY DEF IndInv, TypeOK
    <2>3. wait_list' = wait_list
      BY DEF CreateSema
    <2> QED
      BY <2>1, <2>2, <2>3 DEF ServedPrefix, Queued
  <1> QED
    BY <1>1, <1>2, <1>3, <1>4 DEF IndInv

LEMMA WaitFastInd ==
    ASSUME IndInv, NEW t \in Threads, WaitFast(t)
    PROVE  IndInv'
  <1>1. TypeOK'
    <2>1. pc' \in [Threads -> {"idle", "lock", "sleep", "relock", "signal", "erase"}]
      BY DEF IndInv, TypeOK, WaitFast, Return
    <2>2. call' \in [Threads -> Calls \cup {NoCall}]
      BY DEF IndInv, TypeOK, WaitFast, Return
    <2>3. token_count' \in Int
      BY TypedCall DEF IndInv, TypeOK, WaitFast
    <2>4. debits' \in [Threads -> Nat]
      <3>1. debits' = debits \/ debits' = [debits EXCEPT ![t] = @ + 1]
        BY DEF WaitFast
      <3>2. debits \in [Threads -> Nat]
        BY DEF IndInv, TypeOK
      <3> QED
        BY <3>1, <3>2
    <2>5. result' \in [Threads -> Results]
      BY DEF IndInv, TypeOK, WaitFast, Return, Results
    <2> QED
      BY <2>1, <2>2, <2>3, <2>4, <2>5 DEF IndInv, TypeOK, WaitFast, Return, objectVars, waiterVars
  <1>2. ListSound' /\ VerdictInv' /\ DebitInv' /\ CallInv'
    <2>1. ~InWait(t) /\ ~InWait(t)' /\ UNCHANGED <<wait_list, was, sem>>
      BY DEF IndInv, TypeOK, InWait, WaitFast, Return, waiterVars
    <2>2. /\ pc'[t] = "idle" => call'[t].op = "none"
          /\ pc'[t] = "lock" => debits'[t] = 0
          /\ pc'[t] = "signal" => call'[t].op = "signal"
          /\ pc'[t] = "erase" => call'[t].op = "delete"
          /\ slot' = "free" => slot = "free" /\ pc'[t] = "idle"
      BY CallFacts DEF IndInv, TypeOK, CallInv, DebitInv, WaitFast, Return, objectVars
    <2>3. \A u \in Threads \ {t} : /\ pc'[u] = pc[u] /\ call'[u] = call[u]
                                   /\ debits'[u] = debits[u]
      BY DEF IndInv, TypeOK, WaitFast, Return
    <2> QED
      BY <2>1, <2>2, <2>3, OutsideWait
  <1>3. HolderInv'
    BY ThreadAssumption DEF IndInv, TypeOK, HolderInv, WaitFast, Return
  <1>4. ServedPrefix'
    <2>1. call[t].n \in Nat
      BY TypedCall DEF IndInv, WaitFast
    <2>2. UNCHANGED <<wait_list, mutex, it>> /\ token_count' \in Int /\ token_count' <= token_count
      BY <2>1 DEF IndInv, TypeOK, WaitFast
    <2>3. \A u \in Threads : InWait(u) => call'[u] = call[u]
      BY DEF IndInv, TypeOK, InWait, WaitFast, Return
    <2> QED
      BY <2>2, <2>3, ServedFrame
  <1> QED
    BY <1>1, <1>2, <1>3, <1>4 DEF IndInv

LEMMA SignalEnterInd ==
    ASSUME IndInv, NEW t \in Threads, SignalEnter(t)
    PROVE  IndInv'
  <1>1. TypeOK'
    <2>1. pc' \in [Threads -> {"idle", "lock", "sleep", "relock", "signal", "erase"}]
      <3>1. pc' = [pc EXCEPT ![t] = "idle"] \/ pc' = [pc EXCEPT ![t] = "signal"]
        BY DEF SignalEnter, Return
      <3> QED
        BY <3>1 DEF IndInv, TypeOK
    <2>2. call' \in [Threads -> Calls \cup {NoCall}]
      BY DEF IndInv, TypeOK, SignalEnter, Return
    <2>3. token_count' \in Int
      <3>1. Add32(token_count, call[t].n) \in Int
        <4>1. call[t].n \in Int /\ token_count \in Int /\ IntMax \in Nat
          BY CountAssumption, TypedCall DEF IndInv, TypeOK
        <4> QED
          BY <4>1 DEF Add32
      <3> QED
        BY <3>1 DEF IndInv, TypeOK, SignalEnter
    <2>4. mutex' \in Threads \cup {NoOne} /\ it' \in Nat \ {0}
      BY DEF IndInv, TypeOK, SignalEnter, Return
    <2>5. result' \in [Threads -> Results]
      BY DEF IndInv, TypeOK, SignalEnter, Return, Results
    <2> QED
      BY <2>1, <2>2, <2>3, <2>4, <2>5 DEF IndInv, TypeOK, SignalEnter, Return, objectVars, waiterVars
  <1>2. ListSound' /\ VerdictInv' /\ DebitInv' /\ CallInv'
    <2>1. ~InWait(t) /\ ~InWait(t)' /\ UNCHANGED <<wait_list, was, sem>>
      BY DEF IndInv, TypeOK, InWait, SignalEnter, Return, waiterVars
    <2>2. /\ pc'[t] = "idle" => call'[t].op = "none"
          /\ pc'[t] = "lock" => debits'[t] = 0
          /\ pc'[t] = "signal" => call'[t].op = "signal"
          /\ pc'[t] = "erase" => call'[t].op = "delete"
          /\ slot' = "free" => slot = "free" /\ pc'[t] = "idle"
      BY CallFacts DEF IndInv, TypeOK, CallInv, DebitInv, SignalEnter, Return, objectVars
    <2>3. \A u \in Threads \ {t} : /\ pc'[u] = pc[u] /\ call'[u] = call[u]
                                   /\ debits'[u] = debits[u]
      BY DEF IndInv, TypeOK, SignalEnter, Return
    <2> QED
      BY <2>1, <2>2, <2>3, OutsideWait
  <1>3. HolderInv'
    BY ThreadAssumption DEF IndInv, TypeOK, HolderInv, SignalEnter, Return
  <1>4. ServedPrefix'
    <2>1. CASE mutex' = t /\ it' = 1
      BY <2>1, ThreadAssumption DEF ServedPrefix
    <2>2. CASE UNCHANGED <<token_count, mutex, it>>
      <3>1. UNCHANGED wait_list /\ token_count \in Int /\ token_count <= token_count
        BY DEF IndInv, TypeOK, SignalEnter
      <3>2. \A u \in Threads : InWait(u) => call'[u] = call[u]
        BY DEF IndInv, TypeOK, InWait, SignalEnter, Return
      <3> QED
        BY <2>2, <3>1, <3>2, ServedFrame
    <2> QED
      BY <2>1, <2>2 DEF SignalEnter
  <1> QED
    BY <1>1, <1>2, <1>3, <1>4 DEF IndInv

LEMMA SignalSkipInd ==
    ASSUME IndInv, NEW t \in Threads, SignalSkip(t)
    PROVE  IndInv'
  <1>1. TypeOK'
    <2>1. it' \in Nat \ {0}
      BY DEF IndInv, TypeOK, SignalSkip
    <2> QED
      BY <2>1 DEF IndInv, TypeOK, SignalSkip, objectVars, waiterVars
  <1>2. ListSound' /\ VerdictInv' /\ DebitInv' /\ CallInv'
    <2>1. ~InWait(t) /\ ~InWait(t)' /\ UNCHANGED <<wait_list, was, sem>>
      BY DEF IndInv, TypeOK, InWait, SignalSkip, waiterVars
    <2>2. /\ pc'[t] = "idle" => call'[t].op = "none"
          /\ pc'[t] = "lock" => debits'[t] = 0
          /\ pc'[t] = "signal" => call'[t].op = "signal"
          /\ pc'[t] = "erase" => call'[t].op = "delete"
          /\ slot' = "free" => slot = "free" /\ pc'[t] = "idle"
      BY CallFacts DEF IndInv, TypeOK, CallInv, DebitInv, SignalSkip, objectVars
    <2>3. \A u \in Threads \ {t} : /\ pc'[u] = pc[u] /\ call'[u] = call[u]
                                   /\ debits'[u] = debits[u]
      BY DEF IndInv, TypeOK, SignalSkip
    <2> QED
      BY <2>1, <2>2, <2>3, OutsideWait
  <1>3. HolderInv'
    BY ThreadAssumption DEF IndInv, TypeOK, HolderInv, SignalSkip
  <1>4. ServedPrefix'
    <2>1. UNCHANGED <<wait_list, token_count, mutex, call>> /\ it' = it + 1
      BY DEF SignalSkip
    <2>2. mutex # NoOne /\ call[wait_list[it]].n > token_count /\ it \in Nat
      BY ThreadAssumption DEF IndInv, TypeOK, HolderInv, SignalSkip
    <2>3. \A i \in 1..Len(wait_list) : i < it + 1 => i < it \/ i = it
      BY <2>2
    <2> QED
      BY <2>1, <2>2, <2>3 DEF IndInv, ServedPrefix
  <1> QED
    BY <1>1, <1>2, <1>3, <1>4 DEF IndInv

LEMMA SignalReturnInd ==
    ASSUME IndInv, NEW t \in Threads, SignalReturn(t)
    PROVE  IndInv'
  <1>1. TypeOK'
    <2>1. pc' \in [Threads -> {"idle", "lock", "sleep", "relock", "signal", "erase"}]
      BY DEF IndInv, TypeOK, SignalReturn, Return
    <2>2. call' \in [Threads -> Calls \cup {NoCall}]
      BY DEF IndInv, TypeOK, SignalReturn, Return
    <2>3. mutex' \in Threads \cup {NoOne}
      BY DEF IndInv, TypeOK, SignalReturn, Return
    <2>4. result' \in [Threads -> Results]
      BY DEF IndInv, TypeOK, SignalReturn, Return, Results
    <2> QED
      BY <2>1, <2>2, <2>3, <2>4 DEF IndInv, TypeOK, SignalReturn, objectVars, waiterVars
  <1>2. ListSound' /\ VerdictInv' /\ DebitInv' /\ CallInv'
    <2>1. ~InWait(t) /\ ~InWait(t)' /\ UNCHANGED <<wait_list, was, sem>>
      BY DEF IndInv, TypeOK, InWait, SignalReturn, Return, waiterVars
    <2>2. /\ pc'[t] = "idle" => call'[t].op = "none"
          /\ pc'[t] = "lock" => debits'[t] = 0
          /\ pc'[t] = "signal" => call'[t].op = "signal"
          /\ pc'[t] = "erase" => call'[t].op = "delete"
          /\ slot' = "free" => slot = "free" /\ pc'[t] = "idle"
      BY CallFacts DEF IndInv, TypeOK, CallInv, DebitInv, SignalReturn, Return, objectVars
    <2>3. \A u \in Threads \ {t} : /\ pc'[u] = pc[u] /\ call'[u] = call[u]
                                   /\ debits'[u] = debits[u]
      BY DEF IndInv, TypeOK, SignalReturn, Return
    <2> QED
      BY <2>1, <2>2, <2>3, OutsideWait
  <1>3. HolderInv'
    BY ThreadAssumption DEF IndInv, TypeOK, HolderInv, SignalReturn, Return
  <1>4. ServedPrefix'
    <2>1. UNCHANGED <<wait_list, token_count>> /\ it > Len(wait_list) /\ it \in Nat
          /\ Len(wait_list) \in Nat
      BY DEF IndInv, TypeOK, SignalReturn, Return
    <2>2. \A i \in 1..Len(wait_list) : call[wait_list[i]].n > token_count
      BY <2>1 DEF IndInv, ServedPrefix
    <2>3. \A i \in 1..Len(wait_list) : wait_list[i] \in Threads /\ InWait(wait_list[i])
      <3>1. \A i \in 1..Len(wait_list) : wait_list[i] \in Threads
        BY DEF IndInv, TypeOK
      <3> QED
        BY <3>1, Zenon DEF IndInv, ListSound, Queued
    <2>4. \A u \in Threads : InWait(u) => call'[u] = call[u]
      BY DEF IndInv, TypeOK, InWait, SignalReturn, Return
    <2> QED
      BY <2>1, <2>2, <2>3, <2>4 DEF ServedPrefix
  <1> QED
    BY <1>1, <1>2, <1>3, <1>4 DEF IndInv

LEMMA EraseInd ==
    ASSUME IndInv, NEW t \in Threads, Erase(t)
    PROVE  IndInv'
  <1>1. TypeOK'
    <2>1. pc' \in [Threads -> {"idle", "lock", "sleep", "relock", "signal", "erase"}]
      BY DEF IndInv, TypeOK, Erase, Return
    <2>2. call' \in [Threads -> Calls \cup {NoCall}]
      BY DEF IndInv, TypeOK, Erase, Return
    <2>3. slot' \in {"free", "live", "erased"}
      BY DEF IndInv, TypeOK, Erase, Return
    <2>4. result' \in [Threads -> Results]
      BY DEF IndInv, TypeOK, Erase, Return, Results
    <2> QED
      BY <2>1, <2>2, <2>3, <2>4 DEF IndInv, TypeOK, Erase, Return, objectVars, waiterVars
  <1>2. ListSound' /\ VerdictInv' /\ DebitInv' /\ CallInv'
    <2>1. ~InWait(t) /\ ~InWait(t)' /\ UNCHANGED <<wait_list, was, sem>>
      BY DEF IndInv, TypeOK, InWait, Erase, Return, waiterVars
    <2>2. /\ pc'[t] = "idle" => call'[t].op = "none"
          /\ pc'[t] = "lock" => debits'[t] = 0
          /\ pc'[t] = "signal" => call'[t].op = "signal"
          /\ pc'[t] = "erase" => call'[t].op = "delete"
          /\ slot' = "free" => slot = "free" /\ pc'[t] = "idle"
      BY CallFacts DEF IndInv, TypeOK, CallInv, DebitInv, Erase, Return, objectVars
    <2>3. \A u \in Threads \ {t} : /\ pc'[u] = pc[u] /\ call'[u] = call[u]
                                   /\ debits'[u] = debits[u]
      BY DEF IndInv, TypeOK, Erase, Return
    <2> QED
      BY <2>1, <2>2, <2>3, OutsideWait
  <1>3. HolderInv'
    BY ThreadAssumption DEF IndInv, TypeOK, HolderInv, Erase, Return
  <1>4. ServedPrefix'
    <2>1. UNCHANGED <<wait_list, mutex, it>> /\ token_count' \in Int /\ token_count' <= token_count
      BY DEF IndInv, TypeOK, Erase, Return
    <2>2. \A u \in Threads : InWait(u) => call'[u] = call[u]
      BY DEF IndInv, TypeOK, InWait, Erase, Return
    <2> QED
      BY <2>1, <2>2, ServedFrame
  <1> QED
    BY <1>1, <1>2, <1>3, <1>4 DEF IndInv

-----------------------------------------------------------------------------
\* Erasing one node takes exactly that thread from the list.
LEMMA RemoveQueued ==
    ASSUME IndInv, NEW i \in 1..Len(wait_list), wait_list' = RemoveAt(wait_list, i)
    PROVE  /\ wait_list' \in Seq(Threads)
           /\ \A u \in Threads : Queued(u)' <=> Queued(u) /\ u # wait_list[i]
           /\ \A j, k \in 1..Len(wait_list') : wait_list'[j] = wait_list'[k] => j = k
           /\ Len(wait_list') = Len(wait_list) - 1
           /\ \A j \in 1..Len(wait_list') :
                 wait_list'[j] = IF j < i THEN wait_list[j] ELSE wait_list[j + 1]
  <1>1. wait_list \in Seq(Threads)
    BY DEF IndInv, TypeOK
  <1>2. \A j, k \in 1..Len(wait_list) : wait_list[j] = wait_list[k] => j = k
    BY DEF IndInv, ListSound
  <1>3. /\ wait_list' \in Seq(Threads) /\ Len(wait_list') = Len(wait_list) - 1
        /\ \A j \in 1..Len(wait_list') :
              wait_list'[j] = IF j < i THEN wait_list[j] ELSE wait_list[j + 1]
    BY <1>1, RemoveAtFacts
  <1>4. \A j, k \in 1..Len(wait_list') : wait_list'[j] = wait_list'[k] => j = k
    BY <1>1, <1>2, <1>3
  <1>5. ASSUME NEW u \in Threads PROVE Queued(u)' <=> Queued(u) /\ u # wait_list[i]
    <2>1. ASSUME Queued(u)' PROVE Queued(u) /\ u # wait_list[i]
      BY <1>1, <1>2, <1>3, <2>1 DEF Queued
    <2>2. ASSUME Queued(u), u # wait_list[i] PROVE Queued(u)'
      <3>1. PICK k \in 1..Len(wait_list) : wait_list[k] = u
        BY <2>2 DEF Queued
      <3>2. CASE k < i
        BY <1>1, <1>3, <3>1, <3>2 DEF Queued
      <3>3. CASE k > i
        <4>1. k - 1 \in 1..Len(wait_list') /\ wait_list'[k - 1] = u
          BY <1>1, <1>3, <3>1, <3>3
        <4> QED
          BY <4>1 DEF Queued
      <3> QED
        BY <1>1, <2>2, <3>1, <3>2, <3>3
    <2> QED
      BY <2>1, <2>2
  <1> QED
    BY <1>3, <1>4, <1>5

\* What ListSound says of the thread behind a node.
LEMMA NodeFacts ==
    ASSUME IndInv, NEW i \in 1..Len(wait_list)
    PROVE  /\ wait_list[i] \in Threads /\ Queued(wait_list[i])
           /\ InWait(wait_list[i]) /\ was[wait_list[i]] = {}
           /\ sem[wait_list[i]] = 0 /\ debits[wait_list[i]] = 0
           /\ call[wait_list[i]].op = "wait"
           /\ call[wait_list[i]].n \in Nat /\ token_count \in Int
  <1>1. wait_list[i] \in Threads /\ token_count \in Int
    BY DEF IndInv, TypeOK
  <1>2. Queued(wait_list[i])
    BY DEF Queued
  <1>3. InWait(wait_list[i]) /\ was[wait_list[i]] = {}
    BY <1>1, <1>2 DEF IndInv, ListSound
  <1>4. sem[wait_list[i]] = 0 /\ debits[wait_list[i]] = 0
    BY <1>1, <1>3 DEF IndInv, VerdictInv, DebitInv
  <1>5. call[wait_list[i]].op = "wait"
    BY <1>1, <1>3 DEF IndInv, CallInv
  <1>6. call[wait_list[i]].n \in Nat
    BY <1>1, <1>5, TypedCall DEF IndInv
  <1> QED
    BY <1>1, <1>2, <1>3, <1>4, <1>5, <1>6

LEMMA SemAcquireInd ==
    ASSUME IndInv, NEW t \in Threads, SemAcquire(t)
    PROVE  IndInv'
  <1>0. elapsed' \in [Threads -> Nat]
    <2>1. \A e \in 0..(call[t].timeout + Overrun) \cup {0} : e \in Nat
      BY TypedCall, ArgumentFacts, TimeAssumption DEF IndInv
    <2>2. Timed(t) => call[t].timeout \in Nat
      BY TypedCall, ArgumentFacts DEF IndInv, Timed
    <2>3. \E e \in Nat : elapsed' = [elapsed EXCEPT ![t] = e]
      BY <2>1, <2>2, TimeAssumption DEF SemAcquire
    <2> QED
      BY <2>3 DEF IndInv, TypeOK
  <1>1. TypeOK'
    <2>1. pc' \in [Threads -> {"idle", "lock", "sleep", "relock", "signal", "erase"}]
      BY DEF IndInv, TypeOK, SemAcquire
    <2>2. sem' \in [Threads -> Nat]
      BY DEF IndInv, TypeOK, SemAcquire
    <2> QED
      BY <1>0, <2>1, <2>2 DEF IndInv, TypeOK, SemAcquire, objectVars
  <1>2. /\ pc[t] = "sleep" /\ pc' = [pc EXCEPT ![t] = "relock"] /\ sem[t] > 0
        /\ UNCHANGED <<slot, wait_list, token_count, mutex, it, call, was, debits>>
        /\ sem' = [sem EXCEPT ![t] = @ - 1]
    BY DEF SemAcquire, objectVars, IndInv, TypeOK
  <1>3. \A u \in Threads : InWait(u)' <=> InWait(u)
    BY <1>2 DEF IndInv, TypeOK, InWait
  <1>4. ListSound' /\ HolderInv' /\ CallInv'
    <2>1. ListSound'
      BY <1>2, <1>3 DEF IndInv, ListSound, Queued
    <2>2. HolderInv'
      BY <1>2 DEF IndInv, TypeOK, HolderInv
    <2>3. CallInv'
      BY <1>2, <1>3 DEF IndInv, TypeOK, CallInv
    <2> QED
      BY <2>1, <2>2, <2>3
  <1>5. VerdictInv'
    <2>1. \A u \in Threads \ {t} : sem'[u] = sem[u] /\ (pc'[u] = "sleep" => pc[u] = "sleep")
      BY <1>2 DEF IndInv, TypeOK
    <2>2. sem'[t] = 0 /\ pc'[t] = "relock" /\ InWait(t)
      BY <1>2 DEF IndInv, TypeOK, VerdictInv, InWait
    <2> QED
      BY <1>2, <1>3, <2>1, <2>2 DEF IndInv, VerdictInv
  <1>6. DebitInv' /\ ServedPrefix'
    <2>1. DebitInv'
      BY <1>2, <1>3 DEF IndInv, TypeOK, DebitInv
    <2>2. ServedPrefix'
      BY <1>2 DEF IndInv, ServedPrefix
    <2> QED
      BY <2>1, <2>2
  <1> QED
    BY <1>1, <1>4, <1>5, <1>6 DEF IndInv

LEMMA SemTimeoutInd ==
    ASSUME IndInv, NEW t \in Threads, SemTimeout(t)
    PROVE  IndInv'
  <1>0. elapsed' \in [Threads -> Nat]
    <2>1. call[t].timeout \in Nat
      BY TypedCall, ArgumentFacts DEF IndInv, Timed, SemTimeout
    <2>2. PICK e \in call[t].timeout..(call[t].timeout + Overrun) :
             elapsed' = [elapsed EXCEPT ![t] = e]
      BY DEF SemTimeout
    <2>3. e \in Nat
      BY <2>1, <2>2, TimeAssumption
    <2> QED
      BY <2>2, <2>3 DEF IndInv, TypeOK
  <1>1. TypeOK'
    <2>1. pc' \in [Threads -> {"idle", "lock", "sleep", "relock", "signal", "erase"}]
      BY DEF IndInv, TypeOK, SemTimeout
    <2> QED
      BY <1>0, <2>1 DEF IndInv, TypeOK, SemTimeout, objectVars
  <1>2. /\ pc[t] = "sleep" /\ pc' = [pc EXCEPT ![t] = "relock"] /\ sem[t] = 0
        /\ UNCHANGED <<slot, wait_list, token_count, mutex, it, call, was, debits>>
        /\ sem' = [sem EXCEPT ![t] = @]
    BY DEF SemTimeout, objectVars, IndInv, TypeOK
  <1>3. \A u \in Threads : InWait(u)' <=> InWait(u)
    BY <1>2 DEF IndInv, TypeOK, InWait
  <1>4. ListSound' /\ HolderInv' /\ CallInv'
    <2>1. ListSound'
      BY <1>2, <1>3 DEF IndInv, ListSound, Queued
    <2>2. HolderInv'
      BY <1>2 DEF IndInv, TypeOK, HolderInv
    <2>3. CallInv'
      BY <1>2, <1>3 DEF IndInv, TypeOK, CallInv
    <2> QED
      BY <2>1, <2>2, <2>3
  <1>5. VerdictInv'
    <2>1. \A u \in Threads \ {t} : sem'[u] = sem[u] /\ (pc'[u] = "sleep" => pc[u] = "sleep")
      BY <1>2 DEF IndInv, TypeOK
    <2>2. sem'[t] = 0 /\ pc'[t] = "relock" /\ InWait(t)
      BY <1>2 DEF IndInv, TypeOK, VerdictInv, InWait
    <2> QED
      BY <1>2, <1>3, <2>1, <2>2 DEF IndInv, VerdictInv
  <1>6. DebitInv' /\ ServedPrefix'
    <2>1. DebitInv'
      BY <1>2, <1>3 DEF IndInv, TypeOK, DebitInv
    <2>2. ServedPrefix'
      BY <1>2 DEF IndInv, ServedPrefix
    <2> QED
      BY <2>1, <2>2
  <1> QED
    BY <1>1, <1>4, <1>5, <1>6 DEF IndInv

\* Where everybody is after an insertion.
LEMMA InsertQueued ==
    ASSUME IndInv, NEW t \in Threads, NEW i \in 1..(Len(wait_list) + 1)
    PROVE  /\ wait_list \in Seq(Threads) /\ InsertAt(wait_list, i, t) \in Seq(Threads)
           /\ Len(InsertAt(wait_list, i, t)) = Len(wait_list) + 1
           /\ \A j \in 1..(Len(wait_list) + 1) :
                 InsertAt(wait_list, i, t)[j] = IF j < i THEN wait_list[j]
                                                ELSE IF j = i THEN t ELSE wait_list[j - 1]
  <1>1. wait_list \in Seq(Threads)
    BY DEF IndInv, TypeOK
  <1>2. /\ InsertAt(wait_list, i, t) \in Seq(Threads)
        /\ Len(InsertAt(wait_list, i, t)) = Len(wait_list) + 1
    BY <1>1, InsertAtFacts, SMTT(60)
  <1>3. \A j \in 1..(Len(wait_list) + 1) :
           InsertAt(wait_list, i, t)[j] =
               IF j < i THEN wait_list[j] ELSE IF j = i THEN t ELSE wait_list[j - 1]
    BY <1>1, InsertAtFacts, SMTT(60)
  <1> QED
    BY <1>1, <1>2, <1>3

LEMMA WaitEnqueueInd ==
    ASSUME IndInv, NEW t \in Threads, WaitEnqueue(t)
    PROVE  IndInv'
  <1>0. PICK i \in 1..(Len(wait_list) + 1) : wait_list' = InsertAt(wait_list, i, t)
    BY DEF WaitEnqueue
  <1>1. /\ wait_list' \in Seq(Threads) /\ wait_list \in Seq(Threads)
        /\ Len(wait_list') = Len(wait_list) + 1
        /\ \A j \in 1..Len(wait_list') :
              wait_list'[j] = IF j < i THEN wait_list[j]
                              ELSE IF j = i THEN t ELSE wait_list[j - 1]
    <2>1. /\ wait_list \in Seq(Threads) /\ InsertAt(wait_list, i, t) \in Seq(Threads)
          /\ Len(InsertAt(wait_list, i, t)) = Len(wait_list) + 1
          /\ \A j \in 1..(Len(wait_list) + 1) :
                InsertAt(wait_list, i, t)[j] = IF j < i THEN wait_list[j]
                                               ELSE IF j = i THEN t ELSE wait_list[j - 1]
      BY InsertQueued, Zenon
    <2> QED
      BY <1>0, <2>1
  <1>2. /\ pc[t] = "lock" /\ pc' = [pc EXCEPT ![t] = "sleep"] /\ mutex = NoOne
        /\ call[t].op = "wait" /\ token_count < call[t].n
        /\ was' = [was EXCEPT ![t] = {}] /\ sem' = [sem EXCEPT ![t] = 0]
        /\ UNCHANGED <<slot, token_count, mutex, it, call, debits>>
    BY DEF WaitEnqueue, objectVars
  <1>3. TypeOK'
    <2>1. pc' \in [Threads -> {"idle", "lock", "sleep", "relock", "signal", "erase"}]
      BY <1>2 DEF IndInv, TypeOK
    <2>2. was' \in [Threads -> SUBSET Flags] /\ sem' \in [Threads -> Nat]
      BY <1>2 DEF IndInv, TypeOK
    <2> QED
      BY <1>1, <2>1, <2>2 DEF IndInv, TypeOK, WaitEnqueue, objectVars
  <1>4. \A u \in Threads \ {t} : /\ InWait(u)' <=> InWait(u)
                                 /\ was'[u] = was[u] /\ sem'[u] = sem[u] /\ pc'[u] = pc[u]
    BY <1>2 DEF IndInv, TypeOK, InWait
  <1>5. was'[t] = {} /\ sem'[t] = 0 /\ pc'[t] = "sleep" /\ ~InWait(t) /\ InWait(t)'
    BY <1>2 DEF IndInv, TypeOK, InWait
  <1>6. ~Queued(t)
    BY <1>5 DEF IndInv, ListSound
  <1>7. Queued(t)' /\ \A u \in Threads \ {t} : Queued(u)' <=> Queued(u)
    <2>1. Queued(t)'
      BY <1>1 DEF Queued
    <2>2. ASSUME NEW u \in Threads, Queued(u)', u # t PROVE Queued(u)
      <3>1. PICK j \in 1..Len(wait_list') : wait_list'[j] = u
        BY <2>2 DEF Queued
      <3>2. j # i
        BY <1>1, <2>2, <3>1
      <3>3. CASE j < i
        BY <1>1, <3>1, <3>3 DEF Queued
      <3>4. CASE j > i
        <4>1. j - 1 \in 1..Len(wait_list) /\ wait_list[j - 1] = u
          BY <1>1, <3>1, <3>4
        <4> QED
          BY <4>1 DEF Queued
      <3> QED
        BY <1>1, <3>2, <3>3, <3>4
    <2>3. ASSUME NEW u \in Threads, Queued(u) PROVE Queued(u)'
      <3>1. PICK j \in 1..Len(wait_list) : wait_list[j] = u
        BY <2>3 DEF Queued
      <3>2. CASE j < i
        BY <1>1, <3>1, <3>2 DEF Queued
      <3>3. CASE j >= i
        <4>1. j + 1 \in 1..Len(wait_list') /\ wait_list'[j + 1] = u
          BY <1>1, <3>1, <3>3
        <4> QED
          BY <4>1 DEF Queued
      <3> QED
        BY <1>1, <3>1, <3>2, <3>3
    <2> QED
      BY <2>1, <2>2, <2>3
  <1>8. ListSound'
    <2>1. \A j, k \in 1..Len(wait_list) : wait_list[j] = wait_list[k] => j = k
      BY DEF IndInv, ListSound
    <2>2. \A j \in 1..Len(wait_list) : wait_list[j] # t
      BY <1>6 DEF Queued
    <2>3. ASSUME NEW j \in 1..Len(wait_list'), NEW k \in 1..Len(wait_list'),
                 wait_list'[j] = wait_list'[k], j < k
          PROVE  FALSE
      <3> USE <1>1, <2>1, <2>2, <2>3
      <3>1. CASE k < i
        BY <3>1
      <3>2. CASE k = i
        BY <3>2
      <3>3. CASE j < i /\ i < k
        BY <3>3
      <3>4. CASE j = i
        BY <3>4
      <3>5. CASE i < j
        BY <3>5, SMTT(30)
      <3> QED
        BY <3>1, <3>2, <3>3, <3>4, <3>5
    <2>4. \A u \in Threads : Queued(u)' <=> InWait(u)' /\ was'[u] = {}
      <3>1. ASSUME NEW u \in Threads, u # t PROVE Queued(u)' <=> InWait(u)' /\ was'[u] = {}
        BY <1>4, <1>7, <3>1 DEF IndInv, ListSound
      <3> QED
        BY <1>5, <1>7, <3>1
    <2>5. \A j, k \in 1..Len(wait_list') : wait_list'[j] = wait_list'[k] => j = k
      BY <1>1, <2>3
    <2> QED
      BY <2>4, <2>5 DEF ListSound
  <1>9. HolderInv' /\ CallInv'
    <2>1. HolderInv'
      BY <1>2, <1>4 DEF IndInv, TypeOK, HolderInv
    <2>2. CallInv'
      BY <1>2, <1>4, <1>5 DEF IndInv, CallInv
    <2> QED
      BY <2>1, <2>2
  <1>10. VerdictInv' /\ DebitInv'
    <2>1. VerdictInv'
      BY <1>4, <1>5 DEF IndInv, VerdictInv
    <2>2. debits[t] = 0
      BY <1>2 DEF IndInv, DebitInv
    <2>3. DebitInv'
      BY <1>2, <1>4, <1>5, <2>2 DEF IndInv, DebitInv
    <2> QED
      BY <2>1, <2>3
  <1>11. ServedPrefix'
    <2>1. \A j \in 1..Len(wait_list) : call[wait_list[j]].n > token_count
      BY <1>2 DEF IndInv, ServedPrefix
    <2>2. call[t].n > token_count
      BY <1>2, TypedCall DEF IndInv, TypeOK
    <2>3. ASSUME NEW j \in 1..Len(wait_list') PROVE call[wait_list'[j]].n > token_count
      <3>1. CASE j < i
        BY <1>1, <2>1, <3>1
      <3>2. CASE j = i
        BY <1>1, <2>2, <3>2
      <3>3. CASE j > i
        <4>1. j - 1 \in 1..Len(wait_list) /\ wait_list'[j] = wait_list[j - 1]
          BY <1>1, <3>3
        <4> QED
          BY <2>1, <4>1
      <3> QED
        BY <3>1, <3>2, <3>3
    <2> QED
      BY <1>2, <2>3 DEF ServedPrefix
  <1> QED
    BY <1>3, <1>8, <1>9, <1>10, <1>11 DEF IndInv

LEMMA WaitReturnInd ==
    ASSUME IndInv, NEW t \in Threads, WaitReturn(t)
    PROVE  IndInv'
  <1>1. /\ pc[t] = "relock" /\ InWait(t) /\ mutex = NoOne
        /\ pc' = [pc EXCEPT ![t] = "idle"] /\ call' = [call EXCEPT ![t] = NoCall]
        /\ was' = [was EXCEPT ![t] = {}] /\ sem' = [sem EXCEPT ![t] = 0]
        /\ elapsed' = [elapsed EXCEPT ![t] = 0]
        /\ result' = [result EXCEPT ![t] = GetResult(was[t])]
        /\ UNCHANGED <<slot, token_count, mutex, it, debits>>
    BY DEF WaitReturn, Return, objectVars, InWait
  <1>2. was[t] \in SUBSET Flags /\ \A f, g \in was[t] : f = g
    BY DEF IndInv, TypeOK, VerdictInv
  <1>3. /\ wait_list' \in Seq(Threads) /\ wait_list \in Seq(Threads)
        /\ ~Queued(t)' /\ \A u \in Threads \ {t} : Queued(u)' <=> Queued(u)
        /\ \A j, k \in 1..Len(wait_list') : wait_list'[j] = wait_list'[k] => j = k
        /\ \A j \in 1..Len(wait_list') : \E k \in 1..Len(wait_list) : wait_list'[j] = wait_list[k]
    <2>1. wait_list \in Seq(Threads)
      BY DEF IndInv, TypeOK
    <2>2. CASE was[t] = {}
      <3>1. PICK i \in 1..Len(wait_list) :
               wait_list[i] = t /\ wait_list' = RemoveAt(wait_list, i)
        <4>1. Queued(t)
          BY <1>1, <2>2 DEF IndInv, ListSound
        <4>2. GetResult(was[t]) = "ETIMEDOUT"
          BY <1>2, <2>2, GetResultFacts
        <4> QED
          BY <4>1, <4>2 DEF WaitReturn, Unlink
      <3>2. \A j \in 1..Len(wait_list') : \E k \in 1..Len(wait_list) : wait_list'[j] = wait_list[k]
        <4>1. /\ Len(wait_list') = Len(wait_list) - 1
              /\ \A j \in 1..Len(wait_list') :
                    wait_list'[j] = IF j < i THEN wait_list[j] ELSE wait_list[j + 1]
          BY <3>1, RemoveQueued
        <4> QED
          BY <2>1, <4>1
      <3> QED
        <4>1. \A u \in Threads : Queued(u)' <=> Queued(u) /\ u # t
          BY <3>1, RemoveQueued
        <4>2. /\ wait_list' \in Seq(Threads)
              /\ \A j, k \in 1..Len(wait_list') : wait_list'[j] = wait_list'[k] => j = k
          BY <3>1, RemoveQueued
        <4> QED
          BY <2>1, <3>2, <4>1, <4>2
    <2>3. CASE was[t] # {}
      <3>1. wait_list' = wait_list
        BY <1>2, <2>3, GetResultFacts DEF WaitReturn, Unlink
      <3>2. ~Queued(t)
        BY <2>3 DEF IndInv, ListSound
      <3> QED
        BY <2>1, <3>1, <3>2 DEF IndInv, ListSound, Queued
    <2> QED
      BY <2>2, <2>3
  <1>4. TypeOK'
    <2>1. pc' \in [Threads -> {"idle", "lock", "sleep", "relock", "signal", "erase"}]
      BY <1>1 DEF IndInv, TypeOK
    <2>2. call' \in [Threads -> Calls \cup {NoCall}]
      BY <1>1 DEF IndInv, TypeOK
    <2>3. was' \in [Threads -> SUBSET Flags]
      BY <1>1 DEF IndInv, TypeOK
    <2>4. sem' \in [Threads -> Nat] /\ elapsed' \in [Threads -> Nat]
      BY <1>1 DEF IndInv, TypeOK
    <2>5. remaining' \in [Threads -> Nat]
      <3>1. TimeLeft(t) \in Nat \/ ~Timed(t)
        <4>1. call[t].timeout \in Int /\ elapsed[t] \in Int
          <5>1. call[t].timeout \in Int
            BY TypedCall, ArgumentFacts DEF IndInv
          <5>2. elapsed[t] \in Int
            BY DEF IndInv, TypeOK
          <5> QED
            BY <5>1, <5>2
        <4>2. (call[t].timeout - elapsed[t]) % U32 \in Nat
          BY <4>1, TimeAssumption
        <4> QED
          BY <4>2 DEF TimeLeft
      <3>2. \E r \in Nat : remaining' = [remaining EXCEPT ![t] = r]
        BY <3>1 DEF WaitReturn
      <3> QED
        BY <3>2 DEF IndInv, TypeOK
    <2>6. result' \in [Threads -> Results]
      BY <1>1, <1>2, GetResultFacts DEF IndInv, TypeOK
    <2> QED
      BY <1>3, <2>1, <2>2, <2>3, <2>4, <2>5, <2>6 DEF IndInv, TypeOK, WaitReturn, objectVars
  <1>5. ~InWait(t)' /\ pc'[t] = "idle" /\ call'[t] = NoCall /\ was'[t] = {} /\ sem'[t] = 0
    BY <1>1 DEF IndInv, TypeOK, InWait
  <1>6. \A u \in Threads \ {t} : /\ InWait(u)' <=> InWait(u)
                                 /\ pc'[u] = pc[u] /\ call'[u] = call[u]
                                 /\ was'[u] = was[u] /\ sem'[u] = sem[u]
    BY <1>1 DEF IndInv, TypeOK, InWait
  <1>7. ListSound'
    <2>1. \A u \in Threads \ {t} : Queued(u)' <=> InWait(u)' /\ was'[u] = {}
      BY <1>3, <1>6 DEF IndInv, ListSound
    <2>2. \A u \in Threads : Queued(u)' <=> InWait(u)' /\ was'[u] = {}
      BY <1>3, <1>5, <2>1
    <2>3. \A j, k \in 1..Len(wait_list') : wait_list'[j] = wait_list'[k] => j = k
      BY <1>3
    <2> QED
      BY <2>2, <2>3 DEF ListSound
  <1>8. HolderInv' /\ CallInv'
    <2>1. HolderInv'
      BY <1>1, <1>5, <1>6, ThreadAssumption DEF IndInv, HolderInv
    <2>2. CallInv'
      BY <1>1, <1>5, <1>6, CallFacts DEF IndInv, CallInv
    <2> QED
      BY <2>1, <2>2
  <1>9. VerdictInv' /\ DebitInv'
    <2>1. VerdictInv'
      BY <1>5, <1>6 DEF IndInv, VerdictInv
    <2>2. DebitInv'
      BY <1>1, <1>5, <1>6 DEF IndInv, DebitInv
    <2> QED
      BY <2>1, <2>2
  <1>10. ServedPrefix'
    <2>1. \A k \in 1..Len(wait_list) : call[wait_list[k]].n > token_count
      BY <1>1 DEF IndInv, ServedPrefix
    <2>2. ASSUME NEW j \in 1..Len(wait_list') PROVE call'[wait_list'[j]].n > token_count
      <3>1. wait_list'[j] \in Threads /\ wait_list'[j] # t
        BY <1>3 DEF Queued
      <3>2. PICK k \in 1..Len(wait_list) : wait_list'[j] = wait_list[k]
        BY <1>3
      <3> QED
        BY <1>6, <2>1, <3>1, <3>2
    <2> QED
      BY <1>1, <2>2 DEF ServedPrefix
  <1> QED
    BY <1>4, <1>7, <1>8, <1>9, <1>10 DEF IndInv

LEMMA SignalWakeInd ==
    ASSUME IndInv, NEW t \in Threads, SignalWake(t)
    PROVE  IndInv'
  <1>a. it \in 1..Len(wait_list)
    BY DEF SignalWake, IndInv, TypeOK
  <1>b. PICK w \in Threads : w = wait_list[it]
    BY <1>a, NodeFacts
  <1>1. /\ it \in 1..Len(wait_list) /\ pc[t] = "signal" /\ mutex = t
        /\ wait_list' = RemoveAt(wait_list, it)
        /\ call[w].n <= token_count /\ token_count' = token_count - call[w].n
        /\ was' = [was EXCEPT ![w] = @ \cup {"signaled"}]
        /\ sem' = [sem EXCEPT ![w] = @ + 1] /\ debits' = [debits EXCEPT ![w] = @ + 1]
        /\ UNCHANGED <<slot, mutex, it, pc, call>>
    BY <1>a, <1>b DEF SignalWake, objectVars, IndInv, TypeOK, HolderInv
  <1>2. /\ w \in Threads /\ InWait(w) /\ was[w] = {} /\ sem[w] = 0 /\ debits[w] = 0
        /\ call[w].n \in Nat /\ token_count \in Int
    BY <1>a, <1>b, NodeFacts
  <1>3. /\ wait_list' \in Seq(Threads) /\ Len(wait_list') = Len(wait_list) - 1
        /\ \A j, k \in 1..Len(wait_list') : wait_list'[j] = wait_list'[k] => j = k
        /\ \A j \in 1..Len(wait_list') :
              wait_list'[j] = IF j < it THEN wait_list[j] ELSE wait_list[j + 1]
    BY <1>1, RemoveQueued
  <1>4. \A u \in Threads : Queued(u)' <=> Queued(u) /\ u # w
    BY <1>1, <1>b, RemoveQueued
  <1>5. TypeOK'
    <2>1. was' \in [Threads -> SUBSET Flags]
      BY <1>1 DEF IndInv, TypeOK, Flags
    <2>2. sem' \in [Threads -> Nat] /\ debits' \in [Threads -> Nat]
      <3>1. sem \in [Threads -> Nat] /\ debits \in [Threads -> Nat]
        BY DEF IndInv, TypeOK
      <3> QED
        BY <1>1, <3>1
    <2>3. token_count' \in Int
      BY <1>1, <1>2
    <2> QED
      BY <1>3, <2>1, <2>2, <2>3 DEF IndInv, TypeOK, SignalWake, objectVars
  <1>6. was'[w] = {"signaled"} /\ sem'[w] = 1 /\ debits'[w] = 1
    BY <1>1, <1>2 DEF IndInv, TypeOK
  <1>7. \A u \in Threads \ {w} :
           was'[u] = was[u] /\ sem'[u] = sem[u] /\ debits'[u] = debits[u]
    BY <1>1 DEF IndInv, TypeOK
  <1>8. \A u \in Threads : InWait(u)' <=> InWait(u)
    BY <1>1 DEF InWait
  <1>9. ListSound'
    <2>1. \A u \in Threads \ {w} : Queued(u)' <=> InWait(u)' /\ was'[u] = {}
      BY <1>4, <1>7, <1>8 DEF IndInv, ListSound
    <2>2. ~Queued(w)' /\ was'[w] # {}
      BY <1>2, <1>4, <1>6
    <2>3. \A u \in Threads : Queued(u)' <=> InWait(u)' /\ was'[u] = {}
      BY <1>2, <2>1, <2>2
    <2> QED
      BY <1>3, <2>3 DEF ListSound
  <1>10. HolderInv' /\ CallInv'
    BY <1>1, <1>8 DEF IndInv, HolderInv, CallInv
  <1>11. VerdictInv' /\ DebitInv'
    <2>1. ASSUME NEW u \in Threads \ {w}
          PROVE  /\ ~InWait(u)' => was'[u] = {}
                 /\ \A f, g \in was'[u] : f = g
                 /\ was'[u] = {} => sem'[u] = 0
                 /\ pc'[u] = "sleep" /\ was'[u] # {} => sem'[u] = 1
                 /\ sem'[u] <= 1
                 /\ pc'[u] = "lock" => debits'[u] = 0
                 /\ InWait(u)' => debits'[u] = IF "signaled" \in was'[u] THEN 1 ELSE 0
      BY <1>1, <1>7, <1>8 DEF IndInv, VerdictInv, DebitInv
    <2>2. InWait(w)' /\ pc'[w] # "lock"
      BY <1>1, <1>2, <1>8 DEF InWait
    <2>3. VerdictInv'
      BY <1>2, <1>6, <2>1, <2>2 DEF VerdictInv
    <2>4. DebitInv'
      BY <1>2, <1>6, <2>1, <2>2 DEF DebitInv
    <2> QED
      BY <2>3, <2>4
  <1>12. ServedPrefix'
    <2>1. ASSUME NEW i \in 1..Len(wait_list'), mutex' = NoOne \/ i < it'
          PROVE  call'[wait_list'[i]].n > token_count'
      <3>1. i \in 1..Len(wait_list) /\ i < it /\ wait_list'[i] = wait_list[i]
        <4>1. wait_list \in Seq(Threads) /\ mutex # NoOne
          BY <1>1, ThreadAssumption DEF IndInv, TypeOK
        <4>2. i < it
          BY <1>1, <2>1, <4>1
        <4>3. i \in 1..(Len(wait_list) - 1) /\ Len(wait_list) \in Nat
          BY <1>3, <4>1
        <4>4. wait_list'[i] = wait_list[i]
          BY <1>3, <4>2
        <4> QED
          BY <4>2, <4>3, <4>4
      <3>2. call[wait_list[i]].n > token_count /\ call[wait_list[i]].n \in Nat
        BY <3>1, NodeFacts DEF IndInv, ServedPrefix
      <3> QED
        BY <1>1, <1>2, <3>1, <3>2
    <2> QED
      BY <2>1 DEF ServedPrefix
  <1> QED
    BY <1>5, <1>9, <1>10, <1>11, <1>12 DEF IndInv

\* Cancel and Delete: every waiter gets the same verdict and one permit, and the list is empty.
LEMMA ReleaseAllInd ==
    ASSUME IndInv, NEW t \in Threads, NEW flag \in {"canceled", "deleted"}, ReleaseAll(flag),
           ~InWait(t), ~InWait(t)', pc'[t] # "lock",
           \A u \in Threads \ {t} : pc'[u] = pc[u], UNCHANGED debits
    PROVE  /\ wait_list' \in Seq(Threads)
           /\ was' \in [Threads -> SUBSET Flags] /\ sem' \in [Threads -> Nat]
           /\ ListSound' /\ ServedPrefix' /\ VerdictInv' /\ DebitInv'
  <1>1. \A u \in Threads : u \in ToSet(wait_list) <=> Queued(u)
    <2>1. wait_list \in Seq(Threads)
      BY DEF IndInv, TypeOK
    <2>2. DOMAIN wait_list = 1..Len(wait_list)
      BY <2>1
    <2> QED
      BY <2>2 DEF ToSet, Queued
  <1>2. \A u \in Threads : Queued(u) <=> InWait(u) /\ was[u] = {}
    BY DEF IndInv, ListSound
  <1>3. /\ was' = [u \in Threads |-> IF Queued(u) THEN was[u] \cup {flag} ELSE was[u]]
        /\ sem' = [u \in Threads |-> IF Queued(u) THEN sem[u] + 1 ELSE sem[u]]
        /\ wait_list' = <<>>
    BY <1>1 DEF ReleaseAll
  <1>4. \A u \in Threads : InWait(u)' <=> InWait(u)
    BY DEF InWait
  <1>5. \A u \in Threads : Queued(u) => was'[u] = {flag} /\ sem'[u] = 1
    <2>1. \A u \in Threads : Queued(u) => was[u] = {} /\ sem[u] = 0
      BY <1>2 DEF IndInv, VerdictInv
    <2> QED
      BY <1>3, <2>1
  <1>6. \A u \in Threads : ~Queued(u) => was'[u] = was[u] /\ sem'[u] = sem[u]
    BY <1>3
  <1>7. wait_list' \in Seq(Threads) /\ ServedPrefix'
    BY <1>3 DEF ServedPrefix
  <1>8. was' \in [Threads -> SUBSET Flags] /\ sem' \in [Threads -> Nat]
    BY <1>3, SMTT(30) DEF IndInv, TypeOK, Flags
  <1>9. ListSound'
    <2>1. \A u \in Threads : ~Queued(u)'
      BY <1>3 DEF Queued
    <2>2. \A u \in Threads : ~(InWait(u)' /\ was'[u] = {})
      BY <1>2, <1>4, <1>5, <1>6
    <2> QED
      BY <1>3, <2>1, <2>2 DEF ListSound
  <1>10. VerdictInv'
    <2>1. ASSUME NEW u \in Threads
          PROVE  /\ ~InWait(u)' => was'[u] = {}
                 /\ \A f, g \in was'[u] : f = g
                 /\ was'[u] = {} => sem'[u] = 0
                 /\ pc'[u] = "sleep" /\ was'[u] # {} => sem'[u] = 1
                 /\ sem'[u] <= 1
      <3>1. CASE Queued(u)
        BY <1>2, <1>4, <1>5, <3>1
      <3>2. CASE ~Queued(u)
        <4>1. pc'[u] = "sleep" => pc[u] = "sleep"
          BY DEF InWait
        <4> QED
          BY <1>4, <1>6, <3>2, <4>1 DEF IndInv, VerdictInv
      <3> QED
        BY <3>1, <3>2
    <2> QED
      BY <2>1 DEF VerdictInv
  <1>11. DebitInv'
    <2>1. \A u \in Threads : "signaled" \in was'[u] <=> "signaled" \in was[u]
      BY <1>2, <1>5, <1>6
    <2>2. \A u \in Threads : pc'[u] = "lock" => pc[u] = "lock"
      OBVIOUS
    <2> QED
      BY <1>4, <2>1, <2>2 DEF IndInv, DebitInv
  <1> QED
    BY <1>7, <1>8, <1>9, <1>10, <1>11

LEMMA CancelInd ==
    ASSUME IndInv, NEW t \in Threads, Cancel(t)
    PROVE  IndInv'
  <1>1. /\ ReleaseAll("canceled") /\ pc[t] = "lock" /\ mutex = NoOne
        /\ pc' = [pc EXCEPT ![t] = "idle"] /\ UNCHANGED <<slot, mutex, debits>>
        /\ call' = [call EXCEPT ![t] = NoCall]
    BY DEF Cancel, Return, objectVars, IndInv, TypeOK
  <1>2. /\ ~InWait(t) /\ ~InWait(t)' /\ pc'[t] = "idle"
        /\ \A u \in Threads \ {t} : pc'[u] = pc[u] /\ call'[u] = call[u]
    BY <1>1 DEF IndInv, TypeOK, InWait
  <1>3. /\ wait_list' \in Seq(Threads)
        /\ was' \in [Threads -> SUBSET Flags] /\ sem' \in [Threads -> Nat]
        /\ ListSound' /\ ServedPrefix' /\ VerdictInv' /\ DebitInv'
    BY <1>1, <1>2, ReleaseAllInd
  <1>4. TypeOK'
    <2>1. pc' \in [Threads -> {"idle", "lock", "sleep", "relock", "signal", "erase"}]
      BY <1>1 DEF IndInv, TypeOK
    <2>2. call' \in [Threads -> Calls \cup {NoCall}]
      BY <1>1 DEF IndInv, TypeOK
    <2>3. token_count' \in Int
      BY TypedCall DEF Cancel, IndInv, TypeOK
    <2>4. result' \in [Threads -> Results]
      BY DEF Cancel, Return, IndInv, TypeOK, Results
    <2> QED
      BY <1>3, <2>1, <2>2, <2>3, <2>4 DEF IndInv, TypeOK, Cancel, objectVars
  <1>5. HolderInv' /\ CallInv'
    <2>1. HolderInv'
      BY <1>1, <1>2, ThreadAssumption DEF IndInv, HolderInv
    <2>2. \A u \in Threads : InWait(u)' <=> InWait(u)
      BY <1>2 DEF InWait
    <2>3. /\ pc'[t] = "idle" => call'[t].op = "none"
          /\ pc'[t] = "signal" => call'[t].op = "signal"
          /\ pc'[t] = "erase" => call'[t].op = "delete"
      BY <1>1, <1>2, CallFacts DEF IndInv, TypeOK
    <2>4. slot # "free"
      BY <1>1 DEF IndInv, CallInv
    <2>5. CallInv'
      BY <1>1, <1>2, <2>2, <2>3, <2>4 DEF IndInv, CallInv
    <2> QED
      BY <2>1, <2>5
  <1> QED
    BY <1>3, <1>4, <1>5 DEF IndInv

LEMMA DeleteInd ==
    ASSUME IndInv, NEW t \in Threads, Delete(t)
    PROVE  IndInv'
  <1>1. /\ ReleaseAll("deleted") /\ pc[t] = "lock" /\ call[t].op = "delete" /\ mutex = NoOne
        /\ pc' = [pc EXCEPT ![t] = "erase"] /\ UNCHANGED <<slot, mutex, debits>>
        /\ call' = [call EXCEPT ![t] = @]
    BY DEF Delete, objectVars, IndInv, TypeOK
  <1>2. /\ ~InWait(t) /\ ~InWait(t)' /\ pc'[t] = "erase"
        /\ \A u \in Threads \ {t} : pc'[u] = pc[u] /\ call'[u] = call[u]
    BY <1>1 DEF IndInv, TypeOK, InWait
  <1>3. /\ wait_list' \in Seq(Threads)
        /\ was' \in [Threads -> SUBSET Flags] /\ sem' \in [Threads -> Nat]
        /\ ListSound' /\ ServedPrefix' /\ VerdictInv' /\ DebitInv'
    BY <1>1, <1>2, ReleaseAllInd
  <1>4. TypeOK'
    <2>1. pc' \in [Threads -> {"idle", "lock", "sleep", "relock", "signal", "erase"}]
      BY <1>1 DEF IndInv, TypeOK
    <2>2. call' \in [Threads -> Calls \cup {NoCall}]
      BY <1>1 DEF IndInv, TypeOK
    <2> QED
      BY <1>3, <2>1, <2>2 DEF IndInv, TypeOK, Delete, objectVars
  <1>5. HolderInv' /\ CallInv'
    <2>1. HolderInv'
      BY <1>1, <1>2, ThreadAssumption DEF IndInv, HolderInv
    <2>2. \A u \in Threads : InWait(u)' <=> InWait(u)
      BY <1>2 DEF InWait
    <2>3. /\ pc'[t] = "idle" => call'[t].op = "none"
          /\ pc'[t] = "signal" => call'[t].op = "signal"
          /\ pc'[t] = "erase" => call'[t].op = "delete"
      BY <1>1, <1>2, CallFacts DEF IndInv, TypeOK
    <2>4. slot # "free"
      BY <1>1 DEF IndInv, CallInv
    <2>5. CallInv'
      BY <1>1, <1>2, <2>2, <2>3, <2>4 DEF IndInv, CallInv
    <2> QED
      BY <2>1, <2>5
  <1> QED
    BY <1>3, <1>4, <1>5 DEF IndInv

-----------------------------------------------------------------------------
LEMMA NextInd == IndInv /\ [Next]_vars => IndInv'
  <1> SUFFICES ASSUME IndInv, [Next]_vars PROVE IndInv'
    OBVIOUS
  <1>1. ASSUME NEW t \in Threads, Create(t) PROVE IndInv'
    BY <1>1, CreateSemaInd DEF Create
  <1>2. ASSUME NEW t \in Threads, Begin(t) PROVE IndInv'
    BY <1>2, EnterCallInd DEF Begin
  <1>3. ASSUME NEW t \in Threads, Step(t) PROVE IndInv'
    <2>1. CASE WaitFast(t)
      BY <2>1, WaitFastInd
    <2>2. CASE WaitEnqueue(t)
      BY <2>2, WaitEnqueueInd
    <2>3. CASE SemAcquire(t)
      BY <2>3, SemAcquireInd
    <2>4. CASE SemTimeout(t)
      BY <2>4, SemTimeoutInd
    <2>5. CASE WaitReturn(t)
      BY <2>5, WaitReturnInd
    <2>6. CASE SignalEnter(t)
      BY <2>6, SignalEnterInd
    <2>7. CASE SignalSkip(t)
      BY <2>7, SignalSkipInd
    <2>8. CASE SignalWake(t)
      BY <2>8, SignalWakeInd
    <2>9. CASE SignalReturn(t)
      BY <2>9, SignalReturnInd
    <2>10. CASE Cancel(t)
      BY <2>10, CancelInd
    <2>11. CASE Delete(t)
      BY <2>11, DeleteInd
    <2>12. CASE Erase(t)
      BY <2>12, EraseInd
    <2> QED
      BY <1>3, <2>1, <2>2, <2>3, <2>4, <2>5, <2>6, <2>7, <2>8, <2>9, <2>10, <2>11, <2>12 DEF Step
  <1>4. CASE UNCHANGED vars
    <2>1. TypeOK'
      BY <1>4 DEF vars, IndInv, TypeOK
    <2>2. HolderInv' /\ CallInv'
      BY <1>4 DEF vars, IndInv, HolderInv, CallInv, InWait
    <2>3. ListSound' /\ ServedPrefix'
      BY <1>4 DEF vars, IndInv, ListSound, ServedPrefix, Queued, InWait
    <2>4. VerdictInv' /\ DebitInv'
      BY <1>4 DEF vars, IndInv, VerdictInv, DebitInv, InWait
    <2> QED
      BY <2>1, <2>2, <2>3, <2>4 DEF IndInv
  <1> QED
    BY <1>1, <1>2, <1>3, <1>4 DEF Next

\* The strengthened invariant holds in every behaviour of the semaphore.
THEOREM Inductive == Spec => []IndInv
  BY InitInd, NextInd, PTL DEF Spec

\* Type correctness.
THEOREM TypeCorrect == Spec => []TypeOK
  <1>1. IndInv => TypeOK
    BY DEF IndInv
  <1> QED
    BY <1>1, Inductive, PTL

\* wait_list holds exactly the undecided WaitingThread objects that are alive, each once.
THEOREM ListSoundness == Spec => []ListSound
  <1>1. IndInv => ListSound
    BY DEF IndInv
  <1> QED
    BY <1>1, Inductive, PTL

\* One verdict and one permit for a waiter, whatever its timeout races with.
THEOREM SingleVerdict == Spec => []OneVerdict
  <1>1. IndInv => OneVerdict
    BY DEF IndInv, VerdictInv, OneVerdict
  <1> QED
    BY <1>1, Inductive, PTL

\* No lost wakeup, whatever the needs, the counts and the order of the list.
THEOREM NoLostWakeup == Spec => []NoEligibleSleeper
  <1>1. IndInv => NoEligibleSleeper
    BY DEF IndInv, ServedPrefix, NoEligibleSleeper
  <1> QED
    BY <1>1, Inductive, PTL

\* A call that succeeds has paid once, a call that fails has not paid.
THEOREM PaidExactlyOnce == Spec => PaidOnce
  <1>1. IndInv /\ [Next]_vars => PaidOnceStep
    <2> SUFFICES ASSUME IndInv, [Next]_vars, NEW u \in Threads,
                        call[u].op \in {"wait", "poll"}, pc'[u] = "idle"
                 PROVE  debits'[u] = IF result'[u] = "OK" THEN 1 ELSE 0
      BY DEF PaidOnceStep
    <2>1. pc[u] # "idle"
      BY DEF IndInv, CallInv
    <2>2. ~UNCHANGED vars
      BY <2>1 DEF vars
    <2>3. PICK t \in Threads : Create(t) \/ Begin(t) \/ Step(t)
      BY <2>2 DEF Next
    <2>4. /\ pc'[u] # pc[u] /\ pc'[u] = "idle"
          /\ pc \in [Threads -> {"idle", "lock", "sleep", "relock", "signal", "erase"}]
      BY <2>1 DEF IndInv, TypeOK
    <2>5. ~Create(t) /\ ~Begin(t)
      BY <2>4 DEF Create, CreateSema, Begin, EnterCall
    <2>6. t = u /\ (WaitFast(u) \/ WaitReturn(u))
      <3>1. ~WaitEnqueue(t) /\ ~SemAcquire(t) /\ ~SemTimeout(t) /\ ~Delete(t)
        BY <2>4 DEF WaitEnqueue, SemAcquire, SemTimeout, Delete
      <3>2. ~SignalSkip(t) /\ ~SignalWake(t)
        BY <2>4 DEF SignalSkip, SignalWake
      <3>3. t = u
        <4>1. CASE WaitFast(t) \/ WaitReturn(t)
          BY <2>4, <4>1 DEF WaitFast, WaitReturn, Return
        <4>2. CASE SignalEnter(t) \/ SignalReturn(t)
          BY <2>4, <4>2 DEF SignalEnter, SignalReturn, Return
        <4>3. CASE Cancel(t) \/ Erase(t)
          BY <2>4, <4>3 DEF Cancel, Erase, Return
        <4> QED
          BY <2>3, <2>5, <3>1, <3>2, <4>1, <4>2, <4>3 DEF Step
      <3>4. ~SignalEnter(u) /\ ~Cancel(u)
        BY DEF SignalEnter, Cancel
      <3>5. ~SignalReturn(u) /\ ~Erase(u)
        BY DEF IndInv, CallInv, SignalReturn, Erase
      <3> QED
        BY <2>3, <2>5, <3>1, <3>2, <3>3, <3>4, <3>5 DEF Step
    <2>7. CASE WaitFast(u)
      <3>1. debits[u] = 0 /\ debits \in [Threads -> Nat] /\ result \in [Threads -> Results]
        BY <2>7 DEF WaitFast, IndInv, DebitInv, TypeOK
      <3> QED
        BY <2>7, <3>1 DEF WaitFast, Return
    <2>8. CASE WaitReturn(u)
      <3>1. debits[u] = IF "signaled" \in was[u] THEN 1 ELSE 0
        BY <2>8 DEF WaitReturn, IndInv, DebitInv, InWait
      <3>2. was[u] \in SUBSET Flags /\ \A f, g \in was[u] : f = g
        BY DEF IndInv, TypeOK, VerdictInv
      <3>3. result'[u] = GetResult(was[u]) /\ debits' = debits
        BY <2>8 DEF WaitReturn, Return, IndInv, TypeOK
      <3> QED
        BY <3>1, <3>2, <3>3, GetResultFacts
    <2> QED
      BY <2>6, <2>7, <2>8
  <1> QED
    BY <1>1, Inductive, PTL DEF PaidOnce, Spec

-----------------------------------------------------------------------------
\* The list is ordered by priority; in a FIFO semaphore every priority counts as 0.
Ordered ==
    \A i, j \in 1..Len(wait_list) :
        i < j => Priority(wait_list[i]) <= Priority(wait_list[j])

LEMMA PriorityFacts ==
    ASSUME NEW t \in Threads
    PROVE  Priority(t) \in Nat
  BY ThreadAssumption DEF Priority

\* A list that keeps its members' places in relation to each other stays ordered.
LEMMA OrderedFrame ==
    ASSUME IndInv, Ordered, is_fifo' = is_fifo,
           wait_list' = wait_list \/ \E i \in 1..Len(wait_list) : wait_list' = RemoveAt(wait_list, i)
    PROVE  Ordered'
  <1>1. wait_list \in Seq(Threads)
    BY DEF IndInv, TypeOK
  <1>2. CASE wait_list' = wait_list
    BY <1>1, <1>2 DEF Ordered, Priority
  <1>3. ASSUME NEW i \in 1..Len(wait_list), wait_list' = RemoveAt(wait_list, i)
        PROVE  Ordered'
    <2>1. /\ Len(wait_list') = Len(wait_list) - 1
          /\ \A j \in 1..Len(wait_list') :
                wait_list'[j] = IF j < i THEN wait_list[j] ELSE wait_list[j + 1]
      BY <1>3, RemoveQueued
    <2>2. ASSUME NEW j \in 1..Len(wait_list'), NEW k \in 1..Len(wait_list'), j < k
          PROVE  Priority(wait_list'[j]) <= Priority(wait_list'[k])
      <3> DEFINE J == IF j < i THEN j ELSE j + 1
                 K == IF k < i THEN k ELSE k + 1
      <3>1. /\ J \in 1..Len(wait_list) /\ K \in 1..Len(wait_list) /\ J < K
            /\ wait_list'[j] = wait_list[J] /\ wait_list'[k] = wait_list[K]
        BY <1>1, <2>1, <2>2
      <3> HIDE DEF J, K
      <3>2. Priority(wait_list[J]) <= Priority(wait_list[K])
        BY <3>1 DEF Ordered
      <3> QED
        BY <3>1, <3>2
    <2> QED
      BY <2>2 DEF Ordered, Priority
  <1> QED
    BY <1>2, <1>3

\* A waiter goes behind everybody who is served before it and in front of everybody else.
LEMMA OrderedEnqueue ==
    ASSUME IndInv, Ordered, NEW t \in Threads, WaitEnqueue(t)
    PROVE  Ordered'
  <1>1. PICK i \in 1..(Len(wait_list) + 1) :
           IsInsertPosition(i, t) /\ wait_list' = InsertAt(wait_list, i, t)
    BY DEF WaitEnqueue
  <1>2. wait_list \in Seq(Threads) /\ is_fifo' = is_fifo
    BY DEF IndInv, TypeOK, WaitEnqueue, objectVars
  <1>3. /\ Len(wait_list') = Len(wait_list) + 1
        /\ \A j \in 1..Len(wait_list') :
              wait_list'[j] = IF j < i THEN wait_list[j]
                              ELSE IF j = i THEN t ELSE wait_list[j - 1]
    <2>1. /\ Len(InsertAt(wait_list, i, t)) = Len(wait_list) + 1
          /\ \A j \in 1..(Len(wait_list) + 1) :
                InsertAt(wait_list, i, t)[j] = IF j < i THEN wait_list[j]
                                               ELSE IF j = i THEN t ELSE wait_list[j - 1]
      BY InsertQueued, Zenon
    <2> QED
      BY <1>1, <2>1
  <1>4. \A j \in 1..Len(wait_list) : wait_list[j] \in Threads /\ Priority(wait_list[j]) \in Nat
    BY <1>2, PriorityFacts
  <1>5. \A j \in 1..Len(wait_list) : j < i => Priority(wait_list[j]) <= Priority(t)
    BY <1>1, <1>4 DEF IsInsertPosition, Priority
  <1>6. \A j \in 1..Len(wait_list) : i <= j => Priority(t) <= Priority(wait_list[j])
    <2> SUFFICES ASSUME NEW j \in 1..Len(wait_list), i <= j
                 PROVE  Priority(t) <= Priority(wait_list[j])
      OBVIOUS
    <2>1. CASE is_fifo
      BY <2>1 DEF Priority
    <2>2. CASE ~is_fifo
      <3>1. i \in 1..Len(wait_list) /\ Priority(t) < Priority(wait_list[i])
        BY <1>1, <2>2 DEF IsInsertPosition
      <3>2. i = j \/ Priority(wait_list[i]) <= Priority(wait_list[j])
        BY <3>1 DEF Ordered
      <3> QED
        BY <1>4, <3>1, <3>2, PriorityFacts
    <2> QED
      BY <2>1, <2>2
  <1>7. ASSUME NEW j \in 1..Len(wait_list'), NEW k \in 1..Len(wait_list'), j < k
        PROVE  Priority(wait_list'[j]) <= Priority(wait_list'[k])
    <2>1. CASE k < i
      <3>1. j \in 1..Len(wait_list) /\ k \in 1..Len(wait_list)
        BY <1>2, <1>3, <1>7, <2>1
      <3> QED
        BY <1>3, <1>7, <2>1, <3>1 DEF Ordered
    <2>2. CASE k = i
      <3>1. j \in 1..Len(wait_list) /\ j < i
        BY <1>2, <1>3, <1>7, <2>2
      <3> QED
        BY <1>3, <1>5, <2>2, <3>1
    <2>3. CASE i < k
      <3>1. k - 1 \in 1..Len(wait_list) /\ i <= k - 1 /\ wait_list'[k] = wait_list[k - 1]
        BY <1>2, <1>3, <1>7, <2>3
      <3>2. CASE j < i
        <4>1. j \in 1..Len(wait_list) /\ j < k - 1 /\ wait_list'[j] = wait_list[j]
          BY <1>2, <1>3, <2>3, <3>2
        <4> QED
          BY <3>1, <4>1 DEF Ordered
      <3>3. CASE j = i
        BY <1>3, <1>6, <3>1, <3>3
      <3>4. CASE i < j
        <4>1. j - 1 \in 1..Len(wait_list) /\ j - 1 < k - 1 /\ wait_list'[j] = wait_list[j - 1]
          BY <1>2, <1>3, <1>7, <3>4
        <4> QED
          BY <3>1, <4>1 DEF Ordered
      <3> QED
        BY <3>2, <3>3, <3>4
    <2> QED
      BY <2>1, <2>2, <2>3
  <1> QED
    BY <1>2, <1>7 DEF Ordered, Priority

LEMMA OrderedNext == IndInv /\ Ordered /\ [Next]_vars => Ordered'
  <1> SUFFICES ASSUME IndInv, Ordered, [Next]_vars PROVE Ordered'
    OBVIOUS
  <1>1. ASSUME NEW t \in Threads, Create(t) PROVE Ordered'
    <2>1. slot = "free" /\ wait_list' = wait_list
      BY <1>1 DEF Create, CreateSema
    <2>2. \A u \in Threads : ~Queued(u)
      BY <2>1 DEF IndInv, CallInv, ListSound, InWait
    <2>3. \A j \in 1..Len(wait_list) : wait_list[j] \in Threads
      BY DEF IndInv, TypeOK
    <2> QED
      BY <2>1, <2>2, <2>3 DEF Ordered, Queued
  <1>2. ASSUME NEW t \in Threads, Begin(t) PROVE Ordered'
    <2>1. is_fifo' = is_fifo /\ wait_list' = wait_list
      BY <1>2 DEF Begin, EnterCall, objectVars
    <2> QED
      BY <2>1, OrderedFrame
  <1>3. ASSUME NEW t \in Threads, Step(t) PROVE Ordered'
    <2>1. is_fifo' = is_fifo
      <3>1. CASE WaitFast(t) \/ WaitEnqueue(t) \/ SemAcquire(t) \/ SemTimeout(t)
        BY <3>1 DEF WaitFast, WaitEnqueue, SemAcquire, SemTimeout, objectVars
      <3>2. CASE WaitReturn(t) \/ SignalEnter(t) \/ SignalSkip(t) \/ SignalWake(t)
        BY <3>2 DEF WaitReturn, SignalEnter, SignalSkip, SignalWake, objectVars
      <3>3. CASE SignalReturn(t) \/ Cancel(t) \/ Delete(t) \/ Erase(t)
        BY <3>3 DEF SignalReturn, Cancel, Delete, Erase, objectVars
      <3> QED
        BY <1>3, <3>1, <3>2, <3>3 DEF Step
    <2>2. CASE WaitEnqueue(t)
      BY <2>2, OrderedEnqueue
    <2>3. CASE Cancel(t) \/ Delete(t)
      BY <2>3 DEF Cancel, Delete, ReleaseAll, Ordered
    <2>4. CASE WaitReturn(t)
      <3>1. wait_list' = wait_list
              \/ \E i \in 1..Len(wait_list) : wait_list' = RemoveAt(wait_list, i)
        BY <2>4 DEF WaitReturn, Unlink
      <3> QED
        BY <2>1, <3>1, OrderedFrame
    <2>5. CASE SignalWake(t)
      <3>1. it \in 1..Len(wait_list) /\ wait_list' = RemoveAt(wait_list, it)
        BY <2>5 DEF SignalWake, IndInv, TypeOK
      <3> QED
        BY <2>1, <3>1, OrderedFrame
    <2>6. CASE WaitFast(t) \/ SemAcquire(t) \/ SemTimeout(t)
      <3>1. wait_list' = wait_list
        BY <2>6 DEF WaitFast, SemAcquire, SemTimeout
      <3> QED
        BY <2>1, <3>1, OrderedFrame
    <2>7. CASE SignalEnter(t) \/ SignalSkip(t) \/ SignalReturn(t) \/ Erase(t)
      <3>1. wait_list' = wait_list
        BY <2>7 DEF SignalEnter, SignalSkip, SignalReturn, Erase
      <3> QED
        BY <2>1, <3>1, OrderedFrame
    <2> QED
      BY <1>3, <2>2, <2>3, <2>4, <2>5, <2>6, <2>7 DEF Step
  <1>4. CASE UNCHANGED vars
    BY <1>4, OrderedFrame DEF vars
  <1> QED
    BY <1>1, <1>2, <1>3, <1>4 DEF Next

\* The list is ordered by priority at every moment, timeouts and cancellations included.
THEOREM OrderedByPriority == Spec => []Ordered
  <1>1. Init => Ordered
    BY DEF Init, Ordered
  <1> QED
    BY <1>1, OrderedNext, Inductive, PTL DEF Spec

\* Signal never serves a waiter when one that comes before it could have been served.
THEOREM ServedByPriority == Spec => ServedInOrder
  <1>1. IndInv /\ Ordered /\ [Next]_vars => ServedInOrderStep
    <2> SUFFICES ASSUME IndInv, Ordered, [Next]_vars,
                        NEW i \in 1..Len(wait_list), NEW j \in 1..Len(wait_list),
                        Comes(i, j), "signaled" \in was'[wait_list[j]]
                 PROVE  call[wait_list[i]].n > token_count
      BY DEF ServedInOrderStep
    <2> DEFINE w == wait_list[j]
    <2>1. w \in Threads /\ was[w] = {} /\ Queued(w)
      BY NodeFacts
    <2>2. was'[w] # was[w] /\ "signaled" \in was'[w]
      BY <2>1
    <2> HIDE DEF w
    <2>3. PICK t \in Threads : Create(t) \/ Begin(t) \/ Step(t)
      BY <2>2 DEF Next, vars
    <2>4. SignalWake(t)
      <3>1. ~Create(t) /\ ~Begin(t)
        BY <2>2 DEF Create, CreateSema, Begin, EnterCall, waiterVars
      <3>2. ~WaitFast(t) /\ ~SemAcquire(t) /\ ~SemTimeout(t)
        BY <2>2 DEF WaitFast, SemAcquire, SemTimeout, waiterVars
      <3>3. ~WaitEnqueue(t) /\ ~WaitReturn(t)
        BY <2>1, <2>2 DEF WaitEnqueue, WaitReturn, IndInv, TypeOK
      <3>4. ~SignalEnter(t) /\ ~SignalSkip(t) /\ ~SignalReturn(t) /\ ~Erase(t)
        BY <2>2 DEF SignalEnter, SignalSkip, SignalReturn, Erase, waiterVars
      <3>5. ~Cancel(t) /\ ~Delete(t)
        BY <2>1, <2>2 DEF Cancel, Delete, ReleaseAll
      <3> QED
        BY <2>3, <3>1, <3>2, <3>3, <3>4, <3>5 DEF Step
    <2>5. it \in 1..Len(wait_list) /\ mutex = t
      BY <2>4 DEF SignalWake, IndInv, TypeOK, HolderInv
    <2>6. w = wait_list[it]
      <3>1. was' = [was EXCEPT ![wait_list[it]] = @ \cup {"signaled"}]
        BY <2>4 DEF SignalWake
      <3> QED
        BY <2>1, <2>2, <3>1 DEF IndInv, TypeOK
    <2>7. j = it
      BY <2>5, <2>6 DEF w, IndInv, ListSound
    <2>8. i < it
      <3>1. wait_list[i] \in Threads /\ wait_list[j] \in Threads
        BY NodeFacts
      <3>2. Priority(wait_list[i]) \in Nat /\ Priority(wait_list[j]) \in Nat
        BY <3>1, PriorityFacts
      <3>3. j < i => Priority(wait_list[j]) <= Priority(wait_list[i])
        BY DEF Ordered
      <3>4. i # j
        BY <3>2 DEF Comes
      <3> QED
        BY <2>7, <3>2, <3>3, <3>4 DEF Comes
    <2> QED
      BY <2>5, <2>8 DEF IndInv, ServedPrefix
  <1> QED
    BY <1>1, Inductive, OrderedByPriority, PTL DEF ServedInOrder, Spec

=============================================================================
