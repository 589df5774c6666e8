----------------------- MODULE SharedFirstMutexProofs -----------------------
(***************************************************************************)
(* What is proved of SharedFirstMutex for every finite set of threads and  *)
(* every bound: types, mutual exclusion, that no wakeup is lost, that      *)
(* shared acquisition is recursive, and that it implements SharedLock.     *)
(*                                                                         *)
(* The inductive invariant adds what the comments of the code rest on: who *)
(* holds mtx, what `state` and waiting_writers count, that nobody sets the *)
(* writer bit under a reader about to increment, and that a writer between *)
(* its failed exchange and its wait is already entitled to a notification. *)
(***************************************************************************)
EXTENDS SharedFirstMutex, FiniteSetTheorems, TLAPS

Owning == {"l_cas", "l_block", "l_timeout", "l_dec", "s_block", "s_add"}
WriterPc == {"l_cas", "l_block", "l_wait", "l_timeout", "l_dec"}

\* The shared holds, one element each, and the threads waiting_writers counts.
Holds(d) == {h \in Threads \X Nat : h[2] > 0 /\ h[2] <= d[h[1]]}
Writers(p) == {t \in Threads : p[t] \in WriterPc}

MtxOwned ==
    /\ \A t \in Threads : pc[t] \in Owning => mtx = t
    /\ mtx # NoOne => pc[mtx] \in Owning

WriterBit == writer_bit <=> exclusive # {}

ReadersCounted == IsFiniteSet(Holds(depth)) /\ readers = Cardinality(Holds(depth))

WritersCounted == waiting_writers = Cardinality(Writers(pc))

HolderPc == \A t \in exclusive : pc[t] \in {"out", "l_dec"}

ReaderMayAdd == \A t \in Threads : pc[t] = "s_add" => ~writer_bit

CvBlocked == \A t \in cv : pc[t] \in {"l_wait", "s_wait"}

Blocked(t, blocking, waiting) == pc[t] = blocking \/ (t \in cv /\ pc[t] = waiting)

Entitled ==
    /\ (Free /\ \E t \in Threads : Blocked(t, "l_block", "l_wait")) =>
          \E u \in Threads : pc[u] \in {"u_notify", "r_check", "r_notify"}
    /\ (~writer_bit /\ \E t \in Threads : Blocked(t, "s_block", "s_wait")) =>
          \E u \in Threads : pc[u] = "u_notify"

IndInv ==
    /\ TypeOK /\ MtxOwned /\ WriterBit /\ ReadersCounted /\ WritersCounted
    /\ HolderPc /\ ReaderMayAdd /\ CvBlocked
    /\ MutualExclusion /\ RecursiveShared /\ Entitled

-----------------------------------------------------------------------------
(* What the two counters count. *)

LEMMA NoHolds ==
    ASSUME NEW d \in [Threads -> Nat], IsFiniteSet(Holds(d))
    PROVE  Cardinality(Holds(d)) = 0 <=> \A u \in Threads : d[u] = 0
<1>1. Cardinality(Holds(d)) = 0 <=> Holds(d) = {}
  BY FS_EmptySet
<1>2. ASSUME NEW u \in Threads, d[u] # 0 PROVE Holds(d) # {}
  <2>1. <<u, d[u]>> \in Holds(d)
    BY <1>2 DEF Holds
  <2> QED BY <2>1
<1>3. ASSUME \A u \in Threads : d[u] = 0 PROVE Holds(d) = {}
  BY <1>3 DEF Holds
<1> QED BY <1>1, <1>2, <1>3

LEMMA HoldAdded ==
    ASSUME NEW d \in [Threads -> Nat], IsFiniteSet(Holds(d)), NEW t \in Threads,
           NEW e, e = [d EXCEPT ![t] = @ + 1]
    PROVE  IsFiniteSet(Holds(e)) /\ Cardinality(Holds(e)) = Cardinality(Holds(d)) + 1
<1>1. <<t, d[t] + 1>> \notin Holds(d)
  BY DEF Holds
<1>2. Holds(e) = Holds(d) \cup {<<t, d[t] + 1>>}
  <2>1. ASSUME NEW h \in Threads \X Nat
        PROVE h \in Holds(e) <=> h \in Holds(d) \/ h = <<t, d[t] + 1>>
    <3>1. h[1] \in Threads /\ h[2] \in Nat /\ h = <<h[1], h[2]>>
      OBVIOUS
    <3>2. CASE h[1] = t
      BY <3>1, <3>2 DEF Holds
    <3>3. CASE h[1] # t
      BY <3>1, <3>3 DEF Holds
    <3> QED BY <3>2, <3>3
  <2>2. /\ Holds(e) \subseteq Threads \X Nat /\ Holds(d) \subseteq Threads \X Nat
        /\ <<t, d[t] + 1>> \in Threads \X Nat
    BY DEF Holds
  <2> QED BY <2>1, <2>2
<1>3. /\ IsFiniteSet(Holds(d) \cup {<<t, d[t] + 1>>})
      /\ Cardinality(Holds(d) \cup {<<t, d[t] + 1>>}) = Cardinality(Holds(d)) + 1
  BY <1>1, FS_AddElement
<1> QED BY <1>2, <1>3

LEMMA HoldRemoved ==
    ASSUME NEW d \in [Threads -> Nat], IsFiniteSet(Holds(d)), NEW t \in Threads, d[t] > 0,
           NEW e, e = [d EXCEPT ![t] = @ - 1]
    PROVE  IsFiniteSet(Holds(e)) /\ Cardinality(Holds(d)) > 0
           /\ Cardinality(Holds(e)) = Cardinality(Holds(d)) - 1
<1>1. <<t, d[t]>> \in Holds(d)
  BY DEF Holds
<1>2. Holds(e) = Holds(d) \ {<<t, d[t]>>}
  <2>1. ASSUME NEW h \in Threads \X Nat
        PROVE h \in Holds(e) <=> h \in Holds(d) /\ h # <<t, d[t]>>
    <3>1. h[1] \in Threads /\ h[2] \in Nat /\ h = <<h[1], h[2]>>
      OBVIOUS
    <3>2. CASE h[1] = t
      BY <3>1, <3>2 DEF Holds
    <3>3. CASE h[1] # t
      BY <3>1, <3>3 DEF Holds
    <3> QED BY <3>2, <3>3
  <2>2. Holds(e) \subseteq Threads \X Nat /\ Holds(d) \subseteq Threads \X Nat
    BY DEF Holds
  <2> QED BY <2>1, <2>2
<1>3. Cardinality(Holds(d)) > 0
  <2>1. Cardinality(Holds(d)) \in Nat /\ Cardinality(Holds(d)) # 0
    BY <1>1, FS_CardinalityType, FS_EmptySet
  <2> QED BY <2>1
<1>4. /\ IsFiniteSet(Holds(d) \ {<<t, d[t]>>})
      /\ Cardinality(Holds(d) \ {<<t, d[t]>>}) = Cardinality(Holds(d)) - 1
  BY <1>1, FS_RemoveElement
<1> QED BY <1>2, <1>3, <1>4

LEMMA WritersFinite ==
    ASSUME NEW p PROVE IsFiniteSet(Writers(p)) /\ Cardinality(Writers(p)) \in Nat
<1>1. Writers(p) \subseteq Threads
  BY DEF Writers
<1> QED BY <1>1, ThreadAssumption, FS_Subset, FS_CardinalityType

LEMMA WriterSame ==
    ASSUME NEW p \in [Threads -> PcStates], NEW t \in Threads, NEW s,
           s \in WriterPc <=> p[t] \in WriterPc
    PROVE  Writers([p EXCEPT ![t] = s]) = Writers(p)
BY DEF Writers

LEMMA WriterAdded ==
    ASSUME NEW p \in [Threads -> PcStates], NEW t \in Threads, NEW s,
           s \in WriterPc, p[t] \notin WriterPc
    PROVE  Cardinality(Writers([p EXCEPT ![t] = s])) = Cardinality(Writers(p)) + 1
<1>1. Writers([p EXCEPT ![t] = s]) = Writers(p) \cup {t} /\ t \notin Writers(p)
  BY DEF Writers
<1> QED BY <1>1, WritersFinite, FS_AddElement

LEMMA WriterRemoved ==
    ASSUME NEW p \in [Threads -> PcStates], NEW t \in Threads, NEW s,
           s \notin WriterPc, p[t] \in WriterPc
    PROVE  /\ Cardinality(Writers([p EXCEPT ![t] = s])) = Cardinality(Writers(p)) - 1
           /\ Cardinality(Writers(p)) > 0
<1>1. Writers([p EXCEPT ![t] = s]) = Writers(p) \ {t} /\ t \in Writers(p)
  BY DEF Writers
<1>2. Cardinality(Writers(p)) > 0
  <2>1. Cardinality(Writers(p)) \in Nat /\ Cardinality(Writers(p)) # 0
    BY <1>1, WritersFinite, FS_EmptySet
  <2> QED BY <2>1
<1>3. Cardinality(Writers(p) \ {t}) = Cardinality(Writers(p)) - 1
  BY <1>1, WritersFinite, FS_RemoveElement
<1> QED BY <1>1, <1>2, <1>3

\* waiting_writers is not zero while a writer is on its way.
LEMMA WriterCounts ==
    ASSUME TypeOK, WritersCounted, NEW t \in Threads, pc[t] \in WriterPc
    PROVE  waiting_writers # 0
<1>1. t \in Writers(pc)
  BY DEF Writers
<1> QED BY <1>1, WritersFinite, FS_EmptySet DEF WritersCounted

-----------------------------------------------------------------------------
(* The steps. *)

LEMMA CallLockKeeps ==
    ASSUME IndInv, NEW t \in Threads, NEW deadline \in BOOLEAN, CallLock(t, deadline)
    PROVE  IndInv'
<1> USE DEF PcStates
<1>1. /\ TypeOK /\ MtxOwned /\ WriterBit /\ ReadersCounted /\ WritersCounted
      /\ HolderPc /\ ReaderMayAdd /\ CvBlocked
      /\ MutualExclusion /\ RecursiveShared /\ Entitled
  BY DEF IndInv
<1>2. TypeOK'
  BY <1>1, BoundAssumption DEF CallLock, Goto, Idle, Spend, lockVars, TypeOK
<1>3. MtxOwned'
  BY <1>1, ThreadAssumption DEF CallLock, Goto, Idle, Spend, lockVars, TypeOK, MtxOwned, Owning
<1>4. WriterBit'
  BY <1>1 DEF CallLock, Goto, Idle, Spend, lockVars, TypeOK, WriterBit, MutualExclusion
<1>5. ReadersCounted'
  BY <1>1 DEF CallLock, Goto, Idle, Spend, lockVars, ReadersCounted
<1>6. WritersCounted'
  BY <1>1, WriterSame DEF CallLock, Goto, Idle, Spend, lockVars, WritersCounted, TypeOK, WriterPc
<1>7. HolderPc'
  BY <1>1 DEF CallLock, Goto, Idle, Spend, lockVars, TypeOK, HolderPc, MutualExclusion
<1>8. ReaderMayAdd'
  BY <1>1, ThreadAssumption DEF CallLock, Goto, Idle, Spend, lockVars, TypeOK, ReaderMayAdd, MtxOwned, Owning
<1>9. CvBlocked'
  BY <1>1 DEF CallLock, Goto, Idle, Spend, lockVars, TypeOK, CvBlocked
<1>10. MutualExclusion'
  BY <1>1 DEF CallLock, Goto, Idle, Spend, lockVars, TypeOK, MutualExclusion, WriterBit, HolderPc, ReaderMayAdd
<1>11. RecursiveShared'
  BY <1>1 DEF CallLock, Goto, Idle, Spend, lockVars, TypeOK, RecursiveShared
<1>12. Entitled'
  BY <1>1 DEF CallLock, Goto, Idle, Spend, lockVars, TypeOK, Entitled, Blocked, Free
<1> QED BY <1>2, <1>3, <1>4, <1>5, <1>6, <1>7, <1>8, <1>9, <1>10, <1>11, <1>12 DEF IndInv

LEMMA LockEnterKeeps ==
    ASSUME IndInv, NEW t \in Threads, LockEnter(t)
    PROVE  IndInv'
<1> USE DEF PcStates
<1>1. /\ TypeOK /\ MtxOwned /\ WriterBit /\ ReadersCounted /\ WritersCounted
      /\ HolderPc /\ ReaderMayAdd /\ CvBlocked
      /\ MutualExclusion /\ RecursiveShared /\ Entitled
  BY DEF IndInv
<1>2. TypeOK'
  BY <1>1 DEF LockEnter, Goto, TypeOK
<1>3. MtxOwned'
  BY <1>1, ThreadAssumption DEF LockEnter, Goto, TypeOK, MtxOwned, Owning
<1>4. WriterBit'
  BY <1>1 DEF LockEnter, Goto, TypeOK, WriterBit, MutualExclusion
<1>5. ReadersCounted'
  BY <1>1 DEF LockEnter, Goto, ReadersCounted
<1>6. WritersCounted'
  BY <1>1, WriterAdded, WritersFinite DEF LockEnter, Goto, WritersCounted, TypeOK, WriterPc
<1>7. HolderPc'
  BY <1>1 DEF LockEnter, Goto, TypeOK, HolderPc, MutualExclusion
<1>8. ReaderMayAdd'
  BY <1>1, ThreadAssumption DEF LockEnter, Goto, TypeOK, ReaderMayAdd, MtxOwned, Owning
<1>9. CvBlocked'
  BY <1>1 DEF LockEnter, Goto, TypeOK, CvBlocked
<1>10. MutualExclusion'
  BY <1>1 DEF LockEnter, Goto, TypeOK, MutualExclusion, WriterBit, HolderPc, ReaderMayAdd
<1>11. RecursiveShared'
  BY <1>1 DEF LockEnter, Goto, TypeOK, RecursiveShared
<1>12. Entitled'
  BY <1>1 DEF LockEnter, Goto, TypeOK, Entitled, Blocked, Free
<1> QED BY <1>2, <1>3, <1>4, <1>5, <1>6, <1>7, <1>8, <1>9, <1>10, <1>11, <1>12 DEF IndInv

LEMMA LockCasKeeps ==
    ASSUME IndInv, NEW t \in Threads, LockCas(t)
    PROVE  IndInv'
<1> USE DEF PcStates
<1>1. /\ TypeOK /\ MtxOwned /\ WriterBit /\ ReadersCounted /\ WritersCounted
      /\ HolderPc /\ ReaderMayAdd /\ CvBlocked
      /\ MutualExclusion /\ RecursiveShared /\ Entitled
  BY DEF IndInv
<1>2. TypeOK'
  BY <1>1 DEF LockCas, Goto, Free, TypeOK
<1>3. MtxOwned'
  BY <1>1, ThreadAssumption DEF LockCas, Goto, Free, TypeOK, MtxOwned, Owning
<1>4. WriterBit'
  BY <1>1 DEF LockCas, Goto, Free, TypeOK, WriterBit, MutualExclusion
<1>5. ReadersCounted'
  BY <1>1 DEF LockCas, Goto, Free, ReadersCounted
<1>6. WritersCounted'
  BY <1>1, WriterSame DEF LockCas, Goto, Free, WritersCounted, TypeOK, WriterPc
<1>7. HolderPc'
  BY <1>1 DEF LockCas, Goto, Free, TypeOK, HolderPc, MutualExclusion
<1>8. ReaderMayAdd'
  BY <1>1, ThreadAssumption DEF LockCas, Goto, Free, TypeOK, ReaderMayAdd, MtxOwned, Owning
<1>9. CvBlocked'
  BY <1>1 DEF LockCas, Goto, Free, TypeOK, CvBlocked
<1>10. MutualExclusion'
  BY <1>1, NoHolds DEF LockCas, Goto, Free, TypeOK, MutualExclusion, WriterBit, ReadersCounted
<1>11. RecursiveShared'
  BY <1>1 DEF LockCas, Goto, Free, TypeOK, RecursiveShared
<1>12. Entitled'
  BY <1>1 DEF LockCas, Goto, Free, TypeOK, Entitled, Blocked
<1> QED BY <1>2, <1>3, <1>4, <1>5, <1>6, <1>7, <1>8, <1>9, <1>10, <1>11, <1>12 DEF IndInv

LEMMA LockFailKeeps ==
    ASSUME IndInv, NEW t \in Threads, LockFail(t)
    PROVE  IndInv'
<1> USE DEF PcStates
<1>1. /\ TypeOK /\ MtxOwned /\ WriterBit /\ ReadersCounted /\ WritersCounted
      /\ HolderPc /\ ReaderMayAdd /\ CvBlocked
      /\ MutualExclusion /\ RecursiveShared /\ Entitled
  BY DEF IndInv
<1>2. TypeOK'
  BY <1>1 DEF LockFail, Goto, Free, lockVars, TypeOK
<1>3. MtxOwned'
  BY <1>1, ThreadAssumption DEF LockFail, Goto, Free, lockVars, TypeOK, MtxOwned, Owning
<1>4. WriterBit'
  BY <1>1 DEF LockFail, Goto, Free, lockVars, TypeOK, WriterBit, MutualExclusion
<1>5. ReadersCounted'
  BY <1>1 DEF LockFail, Goto, Free, lockVars, ReadersCounted
<1>6. WritersCounted'
  BY <1>1, WriterSame DEF LockFail, Goto, Free, lockVars, WritersCounted, TypeOK, WriterPc
<1>7. HolderPc'
  BY <1>1 DEF LockFail, Goto, Free, lockVars, TypeOK, HolderPc, MutualExclusion
<1>8. ReaderMayAdd'
  BY <1>1, ThreadAssumption DEF LockFail, Goto, Free, lockVars, TypeOK, ReaderMayAdd, MtxOwned, Owning
<1>9. CvBlocked'
  BY <1>1 DEF LockFail, Goto, Free, lockVars, TypeOK, CvBlocked
<1>10. MutualExclusion'
  BY <1>1 DEF LockFail, Goto, Free, lockVars, TypeOK, MutualExclusion, WriterBit, HolderPc, ReaderMayAdd
<1>11. RecursiveShared'
  BY <1>1 DEF LockFail, Goto, Free, lockVars, TypeOK, RecursiveShared
<1>12. Entitled'
  BY <1>1 DEF LockFail, Goto, Free, lockVars, TypeOK, Entitled, Blocked
<1> QED BY <1>2, <1>3, <1>4, <1>5, <1>6, <1>7, <1>8, <1>9, <1>10, <1>11, <1>12 DEF IndInv

LEMMA BlockKeeps ==
    ASSUME IndInv, NEW t \in Threads, Block(t)
    PROVE  IndInv'
<1> USE DEF PcStates
<1>1. /\ TypeOK /\ MtxOwned /\ WriterBit /\ ReadersCounted /\ WritersCounted
      /\ HolderPc /\ ReaderMayAdd /\ CvBlocked
      /\ MutualExclusion /\ RecursiveShared /\ Entitled
  BY DEF IndInv
<1>2. TypeOK'
  BY <1>1 DEF Block, Goto, lockVars, TypeOK
<1>3. MtxOwned'
  BY <1>1, ThreadAssumption DEF Block, Goto, lockVars, TypeOK, MtxOwned, Owning
<1>4. WriterBit'
  BY <1>1 DEF Block, Goto, lockVars, TypeOK, WriterBit, MutualExclusion
<1>5. ReadersCounted'
  BY <1>1 DEF Block, Goto, lockVars, ReadersCounted
<1>6. WritersCounted'
  BY <1>1, WriterSame DEF Block, Goto, lockVars, WritersCounted, TypeOK, WriterPc
<1>7. HolderPc'
  BY <1>1 DEF Block, Goto, lockVars, TypeOK, HolderPc, MutualExclusion
<1>8. ReaderMayAdd'
  BY <1>1, ThreadAssumption DEF Block, Goto, lockVars, TypeOK, ReaderMayAdd, MtxOwned, Owning
<1>9. CvBlocked'
  BY <1>1 DEF Block, Goto, lockVars, TypeOK, CvBlocked
<1>10. MutualExclusion'
  BY <1>1 DEF Block, Goto, lockVars, TypeOK, MutualExclusion, WriterBit, HolderPc, ReaderMayAdd
<1>11. RecursiveShared'
  BY <1>1 DEF Block, Goto, lockVars, TypeOK, RecursiveShared
<1>12. Entitled'
  BY <1>1 DEF Block, Goto, lockVars, TypeOK, Entitled, Blocked, Free
<1> QED BY <1>2, <1>3, <1>4, <1>5, <1>6, <1>7, <1>8, <1>9, <1>10, <1>11, <1>12 DEF IndInv

LEMMA LockWakeKeeps ==
    ASSUME IndInv, NEW t \in Threads, LockWake(t)
    PROVE  IndInv'
<1> USE DEF PcStates
<1>1. /\ TypeOK /\ MtxOwned /\ WriterBit /\ ReadersCounted /\ WritersCounted
      /\ HolderPc /\ ReaderMayAdd /\ CvBlocked
      /\ MutualExclusion /\ RecursiveShared /\ Entitled
  BY DEF IndInv
<1>2. TypeOK'
  BY <1>1 DEF LockWake, Goto, lockVars, TypeOK
<1>3. MtxOwned'
  BY <1>1, ThreadAssumption DEF LockWake, Goto, lockVars, TypeOK, MtxOwned, Owning
<1>4. WriterBit'
  BY <1>1 DEF LockWake, Goto, lockVars, TypeOK, WriterBit, MutualExclusion
<1>5. ReadersCounted'
  BY <1>1 DEF LockWake, Goto, lockVars, ReadersCounted
<1>6. WritersCounted'
  BY <1>1, WriterSame DEF LockWake, Goto, lockVars, WritersCounted, TypeOK, WriterPc
<1>7. HolderPc'
  BY <1>1 DEF LockWake, Goto, lockVars, TypeOK, HolderPc, MutualExclusion
<1>8. ReaderMayAdd'
  BY <1>1, ThreadAssumption DEF LockWake, Goto, lockVars, TypeOK, ReaderMayAdd, MtxOwned, Owning
<1>9. CvBlocked'
  BY <1>1 DEF LockWake, Goto, lockVars, TypeOK, CvBlocked
<1>10. MutualExclusion'
  BY <1>1 DEF LockWake, Goto, lockVars, TypeOK, MutualExclusion, WriterBit, HolderPc, ReaderMayAdd
<1>11. RecursiveShared'
  BY <1>1 DEF LockWake, Goto, lockVars, TypeOK, RecursiveShared
<1>12. Entitled'
  BY <1>1 DEF LockWake, Goto, lockVars, TypeOK, Entitled, Blocked, Free
<1> QED BY <1>2, <1>3, <1>4, <1>5, <1>6, <1>7, <1>8, <1>9, <1>10, <1>11, <1>12 DEF IndInv

LEMMA LockTimeoutKeeps ==
    ASSUME IndInv, NEW t \in Threads, LockTimeout(t)
    PROVE  IndInv'
<1> USE DEF PcStates
<1>1. /\ TypeOK /\ MtxOwned /\ WriterBit /\ ReadersCounted /\ WritersCounted
      /\ HolderPc /\ ReaderMayAdd /\ CvBlocked
      /\ MutualExclusion /\ RecursiveShared /\ Entitled
  BY DEF IndInv
<1>2. TypeOK'
  BY <1>1 DEF LockTimeout, Goto, lockVars, TypeOK
<1>3. MtxOwned'
  BY <1>1, ThreadAssumption DEF LockTimeout, Goto, lockVars, TypeOK, MtxOwned, Owning
<1>4. WriterBit'
  BY <1>1 DEF LockTimeout, Goto, lockVars, TypeOK, WriterBit, MutualExclusion
<1>5. ReadersCounted'
  BY <1>1 DEF LockTimeout, Goto, lockVars, ReadersCounted
<1>6. WritersCounted'
  BY <1>1, WriterSame DEF LockTimeout, Goto, lockVars, WritersCounted, TypeOK, WriterPc
<1>7. HolderPc'
  BY <1>1 DEF LockTimeout, Goto, lockVars, TypeOK, HolderPc, MutualExclusion
<1>8. ReaderMayAdd'
  BY <1>1, ThreadAssumption DEF LockTimeout, Goto, lockVars, TypeOK, ReaderMayAdd, MtxOwned, Owning
<1>9. CvBlocked'
  BY <1>1 DEF LockTimeout, Goto, lockVars, TypeOK, CvBlocked
<1>10. MutualExclusion'
  BY <1>1 DEF LockTimeout, Goto, lockVars, TypeOK, MutualExclusion, WriterBit, HolderPc, ReaderMayAdd
<1>11. RecursiveShared'
  BY <1>1 DEF LockTimeout, Goto, lockVars, TypeOK, RecursiveShared
<1>12. Entitled'
  BY <1>1 DEF LockTimeout, Goto, lockVars, TypeOK, Entitled, Blocked, Free
<1> QED BY <1>2, <1>3, <1>4, <1>5, <1>6, <1>7, <1>8, <1>9, <1>10, <1>11, <1>12 DEF IndInv

LEMMA LockGiveUpKeeps ==
    ASSUME IndInv, NEW t \in Threads, LockGiveUp(t)
    PROVE  IndInv'
<1> USE DEF PcStates
<1>1. /\ TypeOK /\ MtxOwned /\ WriterBit /\ ReadersCounted /\ WritersCounted
      /\ HolderPc /\ ReaderMayAdd /\ CvBlocked
      /\ MutualExclusion /\ RecursiveShared /\ Entitled
  BY DEF IndInv
<1>2. TypeOK'
  BY <1>1 DEF LockGiveUp, Goto, Free, lockVars, TypeOK
<1>3. MtxOwned'
  BY <1>1, ThreadAssumption DEF LockGiveUp, Goto, Free, lockVars, TypeOK, MtxOwned, Owning
<1>4. WriterBit'
  BY <1>1 DEF LockGiveUp, Goto, Free, lockVars, TypeOK, WriterBit, MutualExclusion
<1>5. ReadersCounted'
  BY <1>1 DEF LockGiveUp, Goto, Free, lockVars, ReadersCounted
<1>6. WritersCounted'
  BY <1>1, WriterSame DEF LockGiveUp, Goto, Free, lockVars, WritersCounted, TypeOK, WriterPc
<1>7. HolderPc'
  BY <1>1 DEF LockGiveUp, Goto, Free, lockVars, TypeOK, HolderPc, MutualExclusion
<1>8. ReaderMayAdd'
  BY <1>1, ThreadAssumption DEF LockGiveUp, Goto, Free, lockVars, TypeOK, ReaderMayAdd, MtxOwned, Owning
<1>9. CvBlocked'
  BY <1>1 DEF LockGiveUp, Goto, Free, lockVars, TypeOK, CvBlocked
<1>10. MutualExclusion'
  BY <1>1 DEF LockGiveUp, Goto, Free, lockVars, TypeOK, MutualExclusion, WriterBit, HolderPc, ReaderMayAdd
<1>11. RecursiveShared'
  BY <1>1 DEF LockGiveUp, Goto, Free, lockVars, TypeOK, RecursiveShared
<1>12. Entitled'
  BY <1>1 DEF LockGiveUp, Goto, Free, lockVars, TypeOK, Entitled, Blocked
<1> QED BY <1>2, <1>3, <1>4, <1>5, <1>6, <1>7, <1>8, <1>9, <1>10, <1>11, <1>12 DEF IndInv

LEMMA LockReturnKeeps ==
    ASSUME IndInv, NEW t \in Threads, LockReturn(t)
    PROVE  IndInv'
<1> USE DEF PcStates
<1>1. /\ TypeOK /\ MtxOwned /\ WriterBit /\ ReadersCounted /\ WritersCounted
      /\ HolderPc /\ ReaderMayAdd /\ CvBlocked
      /\ MutualExclusion /\ RecursiveShared /\ Entitled
  BY DEF IndInv
<1>2. TypeOK'
  BY <1>1, WriterCounts DEF LockReturn, Goto, TypeOK, WriterPc
<1>3. MtxOwned'
  BY <1>1, ThreadAssumption DEF LockReturn, Goto, TypeOK, MtxOwned, Owning
<1>4. WriterBit'
  BY <1>1 DEF LockReturn, Goto, TypeOK, WriterBit, MutualExclusion
<1>5. ReadersCounted'
  BY <1>1 DEF LockReturn, Goto, ReadersCounted
<1>6. WritersCounted'
  BY <1>1, WriterRemoved, WritersFinite DEF LockReturn, Goto, WritersCounted, TypeOK, WriterPc
<1>7. HolderPc'
  BY <1>1 DEF LockReturn, Goto, TypeOK, HolderPc, MutualExclusion
<1>8. ReaderMayAdd'
  BY <1>1, ThreadAssumption DEF LockReturn, Goto, TypeOK, ReaderMayAdd, MtxOwned, Owning
<1>9. CvBlocked'
  BY <1>1 DEF LockReturn, Goto, TypeOK, CvBlocked
<1>10. MutualExclusion'
  BY <1>1 DEF LockReturn, Goto, TypeOK, MutualExclusion, WriterBit, HolderPc, ReaderMayAdd
<1>11. RecursiveShared'
  BY <1>1 DEF LockReturn, Goto, TypeOK, RecursiveShared
<1>12. Entitled'
  BY <1>1 DEF LockReturn, Goto, TypeOK, Entitled, Blocked, Free
<1> QED BY <1>2, <1>3, <1>4, <1>5, <1>6, <1>7, <1>8, <1>9, <1>10, <1>11, <1>12 DEF IndInv

LEMMA TryLockKeeps ==
    ASSUME IndInv, NEW t \in Threads, TryLock(t)
    PROVE  IndInv'
<1> USE DEF PcStates
<1>1. /\ TypeOK /\ MtxOwned /\ WriterBit /\ ReadersCounted /\ WritersCounted
      /\ HolderPc /\ ReaderMayAdd /\ CvBlocked
      /\ MutualExclusion /\ RecursiveShared /\ Entitled
  BY DEF IndInv
<1>2. TypeOK'
  <2>1. writer_bit' \in BOOLEAN /\ exclusive' \in SUBSET Threads
    <3>1. CASE Free
      BY <1>1, <3>1 DEF TryLock, TypeOK
    <3>2. CASE ~Free
      BY <1>1, <3>2 DEF TryLock, TypeOK
    <3> QED BY <3>1, <3>2
  <2>2. budget' \in 0..MaxCalls
    BY <1>1, BoundAssumption DEF TryLock, Idle, Spend, TypeOK
  <2> QED BY <1>1, <2>1, <2>2 DEF TryLock, TypeOK
<1>3. MtxOwned'
  BY <1>1, ThreadAssumption DEF TryLock, Goto, Idle, Spend, Free, TypeOK, MtxOwned, Owning
<1>4. WriterBit'
  BY <1>1 DEF TryLock, Goto, Idle, Spend, Free, TypeOK, WriterBit, MutualExclusion
<1>5. ReadersCounted'
  BY <1>1 DEF TryLock, Goto, Idle, Spend, Free, ReadersCounted
<1>6. WritersCounted'
  BY <1>1 DEF TryLock, Goto, Idle, Spend, Free, WritersCounted
<1>7. HolderPc'
  BY <1>1 DEF TryLock, Goto, Idle, Spend, Free, TypeOK, HolderPc, MutualExclusion
<1>8. ReaderMayAdd'
  BY <1>1, ThreadAssumption DEF TryLock, Goto, Idle, Spend, Free, TypeOK, ReaderMayAdd, MtxOwned, Owning
<1>9. CvBlocked'
  BY <1>1 DEF TryLock, Goto, Idle, Spend, Free, TypeOK, CvBlocked
<1>10. MutualExclusion'
  BY <1>1, NoHolds DEF TryLock, Goto, Idle, Spend, Free, TypeOK, MutualExclusion, WriterBit, ReadersCounted
<1>11. RecursiveShared'
  BY <1>1 DEF TryLock, Goto, Idle, Spend, Free, TypeOK, RecursiveShared
<1>12. Entitled'
  BY <1>1 DEF TryLock, Goto, Idle, Spend, Free, TypeOK, Entitled, Blocked
<1> QED BY <1>2, <1>3, <1>4, <1>5, <1>6, <1>7, <1>8, <1>9, <1>10, <1>11, <1>12 DEF IndInv

LEMMA UnlockKeeps ==
    ASSUME IndInv, NEW t \in Threads, Unlock(t)
    PROVE  IndInv'
<1> USE DEF PcStates
<1>1. /\ TypeOK /\ MtxOwned /\ WriterBit /\ ReadersCounted /\ WritersCounted
      /\ HolderPc /\ ReaderMayAdd /\ CvBlocked
      /\ MutualExclusion /\ RecursiveShared /\ Entitled
  BY DEF IndInv
<1>2. TypeOK'
  BY <1>1 DEF Unlock, Goto, TypeOK
<1>3. MtxOwned'
  BY <1>1, ThreadAssumption DEF Unlock, Goto, TypeOK, MtxOwned, Owning
<1>4. WriterBit'
  BY <1>1 DEF Unlock, Goto, TypeOK, WriterBit, MutualExclusion
<1>5. ReadersCounted'
  BY <1>1 DEF Unlock, Goto, ReadersCounted
<1>6. WritersCounted'
  BY <1>1, WriterSame DEF Unlock, Goto, WritersCounted, TypeOK, WriterPc
<1>7. HolderPc'
  BY <1>1 DEF Unlock, Goto, TypeOK, HolderPc, MutualExclusion
<1>8. ReaderMayAdd'
  BY <1>1, ThreadAssumption DEF Unlock, Goto, TypeOK, ReaderMayAdd, MtxOwned, Owning
<1>9. CvBlocked'
  BY <1>1 DEF Unlock, Goto, TypeOK, CvBlocked
<1>10. MutualExclusion'
  BY <1>1 DEF Unlock, Goto, TypeOK, MutualExclusion, WriterBit, HolderPc, ReaderMayAdd
<1>11. RecursiveShared'
  BY <1>1 DEF Unlock, Goto, TypeOK, RecursiveShared, MutualExclusion
<1>12. Entitled'
  BY <1>1 DEF Unlock, Goto, TypeOK, Entitled, Blocked, Free
<1> QED BY <1>2, <1>3, <1>4, <1>5, <1>6, <1>7, <1>8, <1>9, <1>10, <1>11, <1>12 DEF IndInv

LEMMA NotifyKeeps ==
    ASSUME IndInv, NEW t \in Threads, Notify(t)
    PROVE  IndInv'
<1> USE DEF PcStates
<1>1. /\ TypeOK /\ MtxOwned /\ WriterBit /\ ReadersCounted /\ WritersCounted
      /\ HolderPc /\ ReaderMayAdd /\ CvBlocked
      /\ MutualExclusion /\ RecursiveShared /\ Entitled
  BY DEF IndInv
<1>2. TypeOK'
  BY <1>1 DEF Notify, Goto, NotifyAll, lockVars, TypeOK
<1>3. MtxOwned'
  BY <1>1, ThreadAssumption DEF Notify, Goto, NotifyAll, lockVars, TypeOK, MtxOwned, Owning
<1>4. WriterBit'
  BY <1>1 DEF Notify, Goto, NotifyAll, lockVars, TypeOK, WriterBit, MutualExclusion
<1>5. ReadersCounted'
  BY <1>1 DEF Notify, Goto, NotifyAll, lockVars, ReadersCounted
<1>6. WritersCounted'
  BY <1>1, WriterSame DEF Notify, Goto, NotifyAll, lockVars, WritersCounted, TypeOK, WriterPc
<1>7. HolderPc'
  BY <1>1 DEF Notify, Goto, NotifyAll, lockVars, TypeOK, HolderPc, MutualExclusion
<1>8. ReaderMayAdd'
  BY <1>1, ThreadAssumption DEF Notify, Goto, NotifyAll, lockVars, TypeOK, ReaderMayAdd, MtxOwned, Owning
<1>9. CvBlocked'
  BY <1>1 DEF Notify, Goto, NotifyAll, lockVars, TypeOK, CvBlocked
<1>10. MutualExclusion'
  BY <1>1 DEF Notify, Goto, NotifyAll, lockVars, TypeOK, MutualExclusion, WriterBit, HolderPc, ReaderMayAdd
<1>11. RecursiveShared'
  BY <1>1 DEF Notify, Goto, NotifyAll, lockVars, TypeOK, RecursiveShared
<1>12. Entitled'
  BY <1>1, ThreadAssumption DEF Notify, Goto, NotifyAll, lockVars, TypeOK, Entitled, Blocked, Free, MtxOwned, Owning
<1> QED BY <1>2, <1>3, <1>4, <1>5, <1>6, <1>7, <1>8, <1>9, <1>10, <1>11, <1>12 DEF IndInv

LEMMA CallLockSharedKeeps ==
    ASSUME IndInv, NEW t \in Threads, NEW kind \in {"lock", "until", "try"}, CallLockShared(t, kind)
    PROVE  IndInv'
<1> USE DEF PcStates
<1>1. /\ TypeOK /\ MtxOwned /\ WriterBit /\ ReadersCounted /\ WritersCounted
      /\ HolderPc /\ ReaderMayAdd /\ CvBlocked
      /\ MutualExclusion /\ RecursiveShared /\ Entitled
  BY DEF IndInv
<1>2. TypeOK'
  <2>1. readers' \in Nat /\ depth' \in [Threads -> Nat]
    BY <1>1 DEF CallLockShared, Goto, Idle, Spend, AddReader, TypeOK
  <2>2. pc' \in [Threads -> PcStates] /\ timed' \in [Threads -> BOOLEAN]
    BY <1>1 DEF CallLockShared, Goto, Idle, Spend, AddReader, TypeOK
  <2>3. budget' \in 0..MaxCalls
    BY <1>1, BoundAssumption DEF CallLockShared, Goto, Idle, Spend, AddReader, TypeOK
  <2> QED BY <1>1, <2>1, <2>2, <2>3 DEF CallLockShared, Goto, Idle, Spend, AddReader, TypeOK
<1>3. MtxOwned'
  BY <1>1, ThreadAssumption DEF CallLockShared, Goto, Idle, Spend, AddReader, TypeOK, MtxOwned, Owning
<1>4. WriterBit'
  BY <1>1 DEF CallLockShared, Goto, Idle, Spend, AddReader, TypeOK, WriterBit, MutualExclusion
<1>5. ReadersCounted'
  BY <1>1, HoldAdded DEF CallLockShared, Goto, Idle, Spend, AddReader, ReadersCounted, TypeOK
<1>6. WritersCounted'
  <2>1. Writers(pc') = Writers(pc)
    <3>1. CASE pc' = pc
      BY <3>1
    <3>2. CASE pc' # pc
      <4>1. \E s \in {"out", "s_mtx"} : pc' = [pc EXCEPT ![t] = s]
        BY <1>1, <3>2 DEF CallLockShared, Goto, Idle, Spend, AddReader
      <4>2. PICK s \in {"out", "s_mtx"} : pc' = [pc EXCEPT ![t] = s]
        BY <4>1
      <4> QED BY <1>1, <4>2, WriterSame DEF CallLockShared, Goto, Idle, Spend, AddReader, TypeOK, WriterPc
    <3> QED BY <3>1, <3>2
  <2> QED BY <1>1, <2>1 DEF CallLockShared, Goto, Idle, Spend, AddReader, WritersCounted
<1>7. HolderPc'
  BY <1>1 DEF CallLockShared, Goto, Idle, Spend, AddReader, TypeOK, HolderPc, MutualExclusion
<1>8. ReaderMayAdd'
  BY <1>1, ThreadAssumption DEF CallLockShared, Goto, Idle, Spend, AddReader, TypeOK, ReaderMayAdd, MtxOwned, Owning
<1>9. CvBlocked'
  BY <1>1 DEF CallLockShared, Goto, Idle, Spend, AddReader, TypeOK, CvBlocked
<1>10. MutualExclusion'
  <2>1. CASE writer_bit
    BY <1>1, <2>1 DEF CallLockShared, Goto, Idle, Spend, AddReader, TypeOK, MutualExclusion
  <2>2. CASE ~writer_bit
    BY <1>1, <2>2 DEF CallLockShared, Goto, Idle, Spend, AddReader, WriterBit, MutualExclusion
  <2> QED BY <2>1, <2>2
<1>11. RecursiveShared'
  <2>1. ASSUME NEW u \in Threads, depth'[u] > 0 PROVE pc'[u] = "out"
    <3>1. CASE writer_bit
      BY <1>1, <2>1, <3>1 DEF CallLockShared, Goto, Idle, TypeOK, RecursiveShared,
           MutualExclusion, WriterBit
    <3>2. CASE ~writer_bit
      BY <1>1, <2>1, <3>2 DEF CallLockShared, AddReader, Idle, TypeOK, RecursiveShared
    <3> QED BY <3>1, <3>2
  <2> QED BY <2>1 DEF RecursiveShared
<1>12. Entitled'
  BY <1>1 DEF CallLockShared, Goto, Idle, Spend, AddReader, TypeOK, Entitled, Blocked, Free
<1> QED BY <1>2, <1>3, <1>4, <1>5, <1>6, <1>7, <1>8, <1>9, <1>10, <1>11, <1>12 DEF IndInv

LEMMA SharedTestKeeps ==
    ASSUME IndInv, NEW t \in Threads, SharedTest(t)
    PROVE  IndInv'
<1> USE DEF PcStates
<1>1. /\ TypeOK /\ MtxOwned /\ WriterBit /\ ReadersCounted /\ WritersCounted
      /\ HolderPc /\ ReaderMayAdd /\ CvBlocked
      /\ MutualExclusion /\ RecursiveShared /\ Entitled
  BY DEF IndInv
<1>2. TypeOK'
  BY <1>1 DEF SharedTest, Goto, lockVars, TypeOK
<1>3. MtxOwned'
  BY <1>1, ThreadAssumption DEF SharedTest, Goto, lockVars, TypeOK, MtxOwned, Owning
<1>4. WriterBit'
  BY <1>1 DEF SharedTest, Goto, lockVars, TypeOK, WriterBit, MutualExclusion
<1>5. ReadersCounted'
  BY <1>1 DEF SharedTest, Goto, lockVars, ReadersCounted
<1>6. WritersCounted'
  BY <1>1, WriterSame DEF SharedTest, Goto, lockVars, WritersCounted, TypeOK, WriterPc
<1>7. HolderPc'
  BY <1>1 DEF SharedTest, Goto, lockVars, TypeOK, HolderPc, MutualExclusion
<1>8. ReaderMayAdd'
  BY <1>1, ThreadAssumption DEF SharedTest, Goto, lockVars, TypeOK, ReaderMayAdd, MtxOwned, Owning
<1>9. CvBlocked'
  BY <1>1 DEF SharedTest, Goto, lockVars, TypeOK, CvBlocked
<1>10. MutualExclusion'
  BY <1>1 DEF SharedTest, Goto, lockVars, TypeOK, MutualExclusion, WriterBit, HolderPc, ReaderMayAdd
<1>11. RecursiveShared'
  BY <1>1 DEF SharedTest, Goto, lockVars, TypeOK, RecursiveShared
<1>12. Entitled'
  BY <1>1 DEF SharedTest, Goto, lockVars, TypeOK, Entitled, Blocked, Free
<1> QED BY <1>2, <1>3, <1>4, <1>5, <1>6, <1>7, <1>8, <1>9, <1>10, <1>11, <1>12 DEF IndInv

LEMMA SharedTimeoutKeeps ==
    ASSUME IndInv, NEW t \in Threads, SharedTimeout(t)
    PROVE  IndInv'
<1> USE DEF PcStates
<1>1. /\ TypeOK /\ MtxOwned /\ WriterBit /\ ReadersCounted /\ WritersCounted
      /\ HolderPc /\ ReaderMayAdd /\ CvBlocked
      /\ MutualExclusion /\ RecursiveShared /\ Entitled
  BY DEF IndInv
<1>2. TypeOK'
  BY <1>1 DEF SharedTimeout, Goto, lockVars, TypeOK
<1>3. MtxOwned'
  BY <1>1, ThreadAssumption DEF SharedTimeout, Goto, lockVars, TypeOK, MtxOwned, Owning
<1>4. WriterBit'
  BY <1>1 DEF SharedTimeout, Goto, lockVars, TypeOK, WriterBit, MutualExclusion
<1>5. ReadersCounted'
  BY <1>1 DEF SharedTimeout, Goto, lockVars, ReadersCounted
<1>6. WritersCounted'
  BY <1>1, WriterSame DEF SharedTimeout, Goto, lockVars, WritersCounted, TypeOK, WriterPc
<1>7. HolderPc'
  BY <1>1 DEF SharedTimeout, Goto, lockVars, TypeOK, HolderPc, MutualExclusion
<1>8. ReaderMayAdd'
  BY <1>1, ThreadAssumption DEF SharedTimeout, Goto, lockVars, TypeOK, ReaderMayAdd, MtxOwned, Owning
<1>9. CvBlocked'
  BY <1>1 DEF SharedTimeout, Goto, lockVars, TypeOK, CvBlocked
<1>10. MutualExclusion'
  BY <1>1 DEF SharedTimeout, Goto, lockVars, TypeOK, MutualExclusion, WriterBit, HolderPc, ReaderMayAdd
<1>11. RecursiveShared'
  BY <1>1 DEF SharedTimeout, Goto, lockVars, TypeOK, RecursiveShared
<1>12. Entitled'
  BY <1>1 DEF SharedTimeout, Goto, lockVars, TypeOK, Entitled, Blocked, Free
<1> QED BY <1>2, <1>3, <1>4, <1>5, <1>6, <1>7, <1>8, <1>9, <1>10, <1>11, <1>12 DEF IndInv

LEMMA SharedAddKeeps ==
    ASSUME IndInv, NEW t \in Threads, SharedAdd(t)
    PROVE  IndInv'
<1> USE DEF PcStates
<1>1. /\ TypeOK /\ MtxOwned /\ WriterBit /\ ReadersCounted /\ WritersCounted
      /\ HolderPc /\ ReaderMayAdd /\ CvBlocked
      /\ MutualExclusion /\ RecursiveShared /\ Entitled
  BY DEF IndInv
<1>2. TypeOK'
  BY <1>1 DEF SharedAdd, Goto, AddReader, TypeOK
<1>3. MtxOwned'
  BY <1>1, ThreadAssumption DEF SharedAdd, Goto, AddReader, TypeOK, MtxOwned, Owning
<1>4. WriterBit'
  BY <1>1 DEF SharedAdd, Goto, AddReader, TypeOK, WriterBit, MutualExclusion
<1>5. ReadersCounted'
  BY <1>1, HoldAdded DEF SharedAdd, Goto, AddReader, ReadersCounted, TypeOK
<1>6. WritersCounted'
  BY <1>1, WriterSame DEF SharedAdd, Goto, AddReader, WritersCounted, TypeOK, WriterPc
<1>7. HolderPc'
  BY <1>1 DEF SharedAdd, Goto, AddReader, TypeOK, HolderPc, MutualExclusion
<1>8. ReaderMayAdd'
  BY <1>1, ThreadAssumption DEF SharedAdd, Goto, AddReader, TypeOK, ReaderMayAdd, MtxOwned, Owning
<1>9. CvBlocked'
  BY <1>1 DEF SharedAdd, Goto, AddReader, TypeOK, CvBlocked
<1>10. MutualExclusion'
  BY <1>1 DEF SharedAdd, Goto, AddReader, TypeOK, MutualExclusion, WriterBit, HolderPc, ReaderMayAdd
<1>11. RecursiveShared'
  BY <1>1 DEF SharedAdd, Goto, AddReader, TypeOK, RecursiveShared
<1>12. Entitled'
  BY <1>1 DEF SharedAdd, Goto, AddReader, TypeOK, Entitled, Blocked, Free
<1> QED BY <1>2, <1>3, <1>4, <1>5, <1>6, <1>7, <1>8, <1>9, <1>10, <1>11, <1>12 DEF IndInv

LEMMA UnlockSharedKeeps ==
    ASSUME IndInv, NEW t \in Threads, UnlockShared(t)
    PROVE  IndInv'
<1> USE DEF PcStates
<1>1. /\ TypeOK /\ MtxOwned /\ WriterBit /\ ReadersCounted /\ WritersCounted
      /\ HolderPc /\ ReaderMayAdd /\ CvBlocked
      /\ MutualExclusion /\ RecursiveShared /\ Entitled
  BY DEF IndInv
<1>2. TypeOK'
  <2>1. readers' \in Nat
    <3>1. Cardinality(Holds(depth)) > 0
      BY <1>1, HoldRemoved DEF UnlockShared, TypeOK, ReadersCounted
    <3> QED BY <1>1, <3>1 DEF UnlockShared, TypeOK, ReadersCounted
  <2>2. depth' \in [Threads -> Nat]
    BY <1>1 DEF UnlockShared, Goto, TypeOK
  <2> QED BY <1>1, <2>1, <2>2 DEF UnlockShared, Goto, TypeOK
<1>3. MtxOwned'
  BY <1>1, ThreadAssumption DEF UnlockShared, Goto, TypeOK, MtxOwned, Owning
<1>4. WriterBit'
  BY <1>1 DEF UnlockShared, Goto, TypeOK, WriterBit, MutualExclusion
<1>5. ReadersCounted'
  BY <1>1, HoldRemoved DEF UnlockShared, Goto, ReadersCounted, TypeOK
<1>6. WritersCounted'
  BY <1>1, WriterSame DEF UnlockShared, Goto, WritersCounted, TypeOK, WriterPc
<1>7. HolderPc'
  BY <1>1 DEF UnlockShared, Goto, TypeOK, HolderPc, MutualExclusion
<1>8. ReaderMayAdd'
  BY <1>1, ThreadAssumption DEF UnlockShared, Goto, TypeOK, ReaderMayAdd, MtxOwned, Owning
<1>9. CvBlocked'
  BY <1>1 DEF UnlockShared, Goto, TypeOK, CvBlocked
<1>10. MutualExclusion'
  BY <1>1 DEF UnlockShared, Goto, TypeOK, MutualExclusion, WriterBit, HolderPc, ReaderMayAdd
<1>11. RecursiveShared'
  <2>1. depth' \in [Threads -> Nat] /\ IsFiniteSet(Holds(depth'))
    BY <1>1, <1>2, <1>5 DEF TypeOK, ReadersCounted
  <2>2. readers = 1 => readers' = 0
    BY <1>1 DEF UnlockShared, TypeOK
  <2>3. readers = 1 => depth'[t] = 0
    BY <1>5, <2>1, <2>2, NoHolds DEF ReadersCounted
  <2> QED BY <1>1, <2>3 DEF UnlockShared, Goto, TypeOK, RecursiveShared
<1>12. Entitled'
  BY <1>1 DEF UnlockShared, Goto, TypeOK, Entitled, Blocked, Free
<1> QED BY <1>2, <1>3, <1>4, <1>5, <1>6, <1>7, <1>8, <1>9, <1>10, <1>11, <1>12 DEF IndInv

LEMMA ReaderCheckKeeps ==
    ASSUME IndInv, NEW t \in Threads, ReaderCheck(t)
    PROVE  IndInv'
<1> USE DEF PcStates
<1>1. /\ TypeOK /\ MtxOwned /\ WriterBit /\ ReadersCounted /\ WritersCounted
      /\ HolderPc /\ ReaderMayAdd /\ CvBlocked
      /\ MutualExclusion /\ RecursiveShared /\ Entitled
  BY DEF IndInv
<1>2. TypeOK'
  BY <1>1 DEF ReaderCheck, Goto, lockVars, TypeOK
<1>3. MtxOwned'
  BY <1>1, ThreadAssumption DEF ReaderCheck, Goto, lockVars, TypeOK, MtxOwned, Owning
<1>4. WriterBit'
  BY <1>1 DEF ReaderCheck, Goto, lockVars, TypeOK, WriterBit, MutualExclusion
<1>5. ReadersCounted'
  BY <1>1 DEF ReaderCheck, Goto, lockVars, ReadersCounted
<1>6. WritersCounted'
  BY <1>1, WriterSame DEF ReaderCheck, Goto, lockVars, WritersCounted, TypeOK, WriterPc
<1>7. HolderPc'
  BY <1>1 DEF ReaderCheck, Goto, lockVars, TypeOK, HolderPc, MutualExclusion
<1>8. ReaderMayAdd'
  BY <1>1, ThreadAssumption DEF ReaderCheck, Goto, lockVars, TypeOK, ReaderMayAdd, MtxOwned, Owning
<1>9. CvBlocked'
  BY <1>1 DEF ReaderCheck, Goto, lockVars, TypeOK, CvBlocked
<1>10. MutualExclusion'
  BY <1>1 DEF ReaderCheck, Goto, lockVars, TypeOK, MutualExclusion, WriterBit, HolderPc, ReaderMayAdd
<1>11. RecursiveShared'
  BY <1>1 DEF ReaderCheck, Goto, lockVars, TypeOK, RecursiveShared
<1>12. Entitled'
  BY <1>1, WriterCounts DEF ReaderCheck, Goto, lockVars, TypeOK, Entitled, Blocked, Free, WriterPc
<1> QED BY <1>2, <1>3, <1>4, <1>5, <1>6, <1>7, <1>8, <1>9, <1>10, <1>11, <1>12 DEF IndInv

LEMMA SpuriousWakeKeeps ==
    ASSUME IndInv, NEW t \in Threads, SpuriousWake(t)
    PROVE  IndInv'
<1> USE DEF PcStates
<1>1. /\ TypeOK /\ MtxOwned /\ WriterBit /\ ReadersCounted /\ WritersCounted
      /\ HolderPc /\ ReaderMayAdd /\ CvBlocked
      /\ MutualExclusion /\ RecursiveShared /\ Entitled
  BY DEF IndInv
<1>2. TypeOK'
  BY <1>1 DEF SpuriousWake, Goto, lockVars, TypeOK
<1>3. MtxOwned'
  BY <1>1, ThreadAssumption DEF SpuriousWake, Goto, lockVars, TypeOK, MtxOwned, Owning
<1>4. WriterBit'
  BY <1>1 DEF SpuriousWake, Goto, lockVars, TypeOK, WriterBit, MutualExclusion
<1>5. ReadersCounted'
  BY <1>1 DEF SpuriousWake, Goto, lockVars, ReadersCounted
<1>6. WritersCounted'
  BY <1>1 DEF SpuriousWake, Goto, lockVars, WritersCounted
<1>7. HolderPc'
  BY <1>1 DEF SpuriousWake, Goto, lockVars, TypeOK, HolderPc, MutualExclusion
<1>8. ReaderMayAdd'
  BY <1>1, ThreadAssumption DEF SpuriousWake, Goto, lockVars, TypeOK, ReaderMayAdd, MtxOwned, Owning
<1>9. CvBlocked'
  BY <1>1 DEF SpuriousWake, Goto, lockVars, TypeOK, CvBlocked
<1>10. MutualExclusion'
  BY <1>1 DEF SpuriousWake, Goto, lockVars, TypeOK, MutualExclusion, WriterBit, HolderPc, ReaderMayAdd
<1>11. RecursiveShared'
  BY <1>1 DEF SpuriousWake, Goto, lockVars, TypeOK, RecursiveShared
<1>12. Entitled'
  BY <1>1 DEF SpuriousWake, Goto, lockVars, TypeOK, Entitled, Blocked, Free
<1> QED BY <1>2, <1>3, <1>4, <1>5, <1>6, <1>7, <1>8, <1>9, <1>10, <1>11, <1>12 DEF IndInv

-----------------------------------------------------------------------------
LEMMA InitHolds == Init => IndInv
<1> SUFFICES ASSUME Init PROVE IndInv
  OBVIOUS
<1>1. TypeOK
  <2>1. writer_bit \in BOOLEAN /\ timed \in [Threads -> BOOLEAN]
    BY DEF Init
  <2>2. pc \in [Threads -> PcStates] /\ depth \in [Threads -> Nat]
    BY DEF Init, PcStates
  <2>3. budget \in 0..MaxCalls
    BY BoundAssumption DEF Init
  <2> QED BY <2>1, <2>2, <2>3 DEF Init, TypeOK
<1>2. Holds(depth) = {} /\ Writers(pc) = {}
  BY DEF Init, Holds, Writers, WriterPc
<1>3. ReadersCounted /\ WritersCounted
  BY <1>2, FS_EmptySet DEF Init, ReadersCounted, WritersCounted
<1>4. MtxOwned /\ WriterBit /\ HolderPc /\ ReaderMayAdd /\ CvBlocked
  BY DEF Init, MtxOwned, WriterBit, HolderPc, ReaderMayAdd, CvBlocked, Owning
<1>5. MutualExclusion /\ RecursiveShared /\ Entitled
  BY DEF Init, MutualExclusion, RecursiveShared, Entitled, Blocked
<1> QED BY <1>1, <1>3, <1>4, <1>5 DEF IndInv

LEMMA StepKeeps == IndInv /\ [Next]_vars => IndInv'
<1> SUFFICES ASSUME IndInv, [Next]_vars PROVE IndInv'
  OBVIOUS
<1>1. CASE UNCHANGED vars
  BY <1>1 DEF vars, IndInv, TypeOK, MtxOwned, WriterBit, ReadersCounted, WritersCounted,
     HolderPc, ReaderMayAdd, CvBlocked, MutualExclusion, RecursiveShared, Entitled, Blocked, Free
<1>2. ASSUME NEW t \in Threads, Call(t) PROVE IndInv'
  BY <1>2, CallLockKeeps, TryLockKeeps, CallLockSharedKeeps DEF Call
<1>3. ASSUME NEW t \in Threads, Step(t) PROVE IndInv'
  BY <1>3, LockEnterKeeps, LockCasKeeps, LockFailKeeps, BlockKeeps, LockWakeKeeps,
     LockTimeoutKeeps, LockGiveUpKeeps, LockReturnKeeps, NotifyKeeps, SharedTestKeeps,
     SharedTimeoutKeeps, SharedAddKeeps, ReaderCheckKeeps DEF Step
<1>4. ASSUME NEW t \in Threads, Release(t) PROVE IndInv'
  BY <1>4, UnlockKeeps, UnlockSharedKeeps DEF Release
<1>5. ASSUME NEW t \in Threads, SpuriousWake(t) PROVE IndInv'
  BY <1>5, SpuriousWakeKeeps
<1> QED BY <1>1, <1>2, <1>3, <1>4, <1>5 DEF Next

\* Every reachable state satisfies the inductive invariant.
THEOREM Inductive == Spec => []IndInv
<1> QED BY InitHolds, StepKeeps, PTL DEF Spec

\* The variables keep their types; in particular neither counter of the lock underflows, however
\* lock, the timeouts and unlock_shared interleave.
THEOREM TypeCorrect == Spec => []TypeOK
<1>1. IndInv => TypeOK
  BY DEF IndInv
<1> QED BY <1>1, Inductive, PTL

\* One writer or any number of readers.
THEOREM Exclusion == Spec => []MutualExclusion
<1>1. IndInv => MutualExclusion
  BY DEF IndInv
<1> QED BY <1>1, Inductive, PTL

\* "No wakeup is lost", the comment in lock().
THEOREM NoWakeupLost == Spec => []NoLostWakeup
<1>1. ASSUME IndInv PROVE NoLostWakeup
  <2>1. Entitled
    BY <1>1 DEF IndInv
  <2>2. cv \subseteq Threads
    BY <1>1 DEF IndInv, TypeOK
  <2> QED BY <2>1, <2>2 DEF Entitled, NoLostWakeup, Blocked
<1> QED BY <1>1, Inductive, PTL

\* A thread that holds the lock shared acquires it again without blocking.
THEOREM SharedIsRecursive == Spec => []RecursiveShared
<1>1. IndInv => RecursiveShared
  BY DEF IndInv
<1> QED BY <1>1, Inductive, PTL

-----------------------------------------------------------------------------
(* Refinement. *)

LEMMA InitMaps == Init => Abstract!Init
BY DEF Init, Abstract!Init

\* A word that reads 0 is a lock nobody holds.
LEMMA FreeIsUnheld ==
    ASSUME IndInv, Free PROVE exclusive = {} /\ \A u \in Threads : depth[u] = 0
<1>1. depth \in [Threads -> Nat] /\ ReadersCounted /\ WriterBit
  BY DEF IndInv, TypeOK
<1>2. exclusive = {}
  BY <1>1 DEF WriterBit, Free
<1>3. \A u \in Threads : depth[u] = 0
  BY <1>1, NoHolds DEF ReadersCounted, Free
<1> QED BY <1>2, <1>3

LEMMA StepMaps == IndInv /\ [Next]_vars => [Abstract!Next]_(Abstract!vars)
<1> SUFFICES ASSUME IndInv, [Next]_vars PROVE [Abstract!Next]_(Abstract!vars)
  OBVIOUS
<1> USE DEF Abstract!vars, Abstract!Next
<1>1. TypeOK /\ MutualExclusion /\ WriterBit /\ ReaderMayAdd
  BY DEF IndInv
<1>2. CASE UNCHANGED vars
  BY <1>2 DEF vars
<1>3. ASSUME NEW t \in Threads, LockCas(t) \/ TryLock(t) PROVE [Abstract!Next]_(Abstract!vars)
  <2>1. CASE Free /\ exclusive' = exclusive \cup {t} /\ depth' = depth
    BY <2>1, FreeIsUnheld DEF Abstract!AcquireExclusive
  <2>2. CASE UNCHANGED <<exclusive, depth>>
    BY <2>2
  <2> QED BY <1>3, <2>1, <2>2 DEF LockCas, TryLock
<1>4. ASSUME NEW t \in Threads, Unlock(t) PROVE [Abstract!Next]_(Abstract!vars)
  BY <1>1, <1>4 DEF Unlock, MutualExclusion, Abstract!ReleaseExclusive
<1>5. ASSUME NEW t \in Threads, NEW kind \in {"lock", "until", "try"}, CallLockShared(t, kind)
      PROVE [Abstract!Next]_(Abstract!vars)
  BY <1>1, <1>5 DEF CallLockShared, AddReader, WriterBit, Abstract!AcquireShared
<1>6. ASSUME NEW t \in Threads, SharedAdd(t) PROVE [Abstract!Next]_(Abstract!vars)
  BY <1>1, <1>6 DEF SharedAdd, AddReader, WriterBit, ReaderMayAdd, Abstract!AcquireShared
<1>7. ASSUME NEW t \in Threads, UnlockShared(t) PROVE [Abstract!Next]_(Abstract!vars)
  BY <1>7 DEF UnlockShared, Abstract!ReleaseShared
<1>8. ASSUME NEW t \in Threads, NEW deadline \in BOOLEAN, CallLock(t, deadline)
      PROVE UNCHANGED <<exclusive, depth>>
  BY <1>8 DEF CallLock
<1>9. ASSUME NEW t \in Threads,
             LockEnter(t) \/ LockFail(t) \/ Block(t) \/ LockWake(t) \/ LockTimeout(t)
             \/ LockGiveUp(t) \/ LockReturn(t) \/ Notify(t) \/ SharedTest(t)
             \/ SharedTimeout(t) \/ ReaderCheck(t) \/ SpuriousWake(t)
      PROVE UNCHANGED <<exclusive, depth>>
  BY <1>9 DEF LockEnter, LockFail, Block, LockWake, LockTimeout, LockGiveUp, LockReturn,
     Notify, SharedTest, SharedTimeout, ReaderCheck, SpuriousWake
<1>10. ASSUME NEW t \in Threads, Call(t) PROVE [Abstract!Next]_(Abstract!vars)
  BY <1>3, <1>5, <1>8, <1>10 DEF Call
<1>11. ASSUME NEW t \in Threads, Step(t) PROVE [Abstract!Next]_(Abstract!vars)
  BY <1>3, <1>6, <1>9, <1>11 DEF Step
<1>12. ASSUME NEW t \in Threads, Release(t) PROVE [Abstract!Next]_(Abstract!vars)
  BY <1>4, <1>7, <1>12 DEF Release
<1> QED BY <1>2, <1>9, <1>10, <1>11, <1>12 DEF Next

\* The lock implements the abstract readers-writer lock.
THEOREM Refinement == Spec => ImplementsSharedLock
<1> QED BY InitMaps, StepMaps, Inductive, PTL DEF Spec, ImplementsSharedLock, Abstract!Spec

=============================================================================
