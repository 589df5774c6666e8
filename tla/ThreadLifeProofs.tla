-------------------------- MODULE ThreadLifeProofs --------------------------
(***************************************************************************)
(* What is proved of ThreadLife for any number of callers and Pthreads and *)
(* any bounds: reference counts are exact (RefsCounted), a Pthread is in   *)
(* one place (OnePlace), nothing in use is unlinked (UsedStaysLinked), and *)
(* the Pthreads taken from the heap are counted (TotalCounted).            *)
(***************************************************************************)
EXTENDS ThreadLife, FiniteSetTheorems, SequenceTheorems, TLAPS

Joining == {"join", "asleep", "joined", "backout"}
Using == {"ref", "collect"}
PCs == Joining \cup Using
       \cup {"idle", "unlock", "gc", "free", "release", "uncount", "alloc", "count", "allocate",
             "giveup", "construct", "link", "start", "affinity"}

PthreadRecords ==
    [refcount : Int, dead : BOOLEAN, detached : BOOLEAN, joiner : Callers \cup {None},
     terminated : BOOLEAN]
CallerRecords == [pc : PCs, target : Pthreads \cup {None}, work : SUBSET Pthreads]

TypeOK ==
    /\ pthread \in [Pthreads -> PthreadRecords]
    /\ run \in [Pthreads -> {"none", "running", "collect", "publish"}]
    /\ threads \in SUBSET Pthreads /\ gc_list \in SUBSET Pthreads /\ heap \in SUBSET Pthreads
    /\ free_threads \in Seq(Pthreads)
    /\ total_threads \in Int
    /\ caller \in [Callers -> CallerRecords]

\* A caller with a target has one, and is not about to free it once more.
TargetGood(r) ==
    /\ r.pc \in Joining \cup Using \cup {"release", "construct", "link", "start"}
        => r.target \in Pthreads
    /\ r.work # {} => r.pc \in {"free", "release", "uncount"}
    /\ r.pc = "release" => r.target \notin r.work

\* Who joins a thread is its joiner, which keeps it from being detached.
JoinGood(c, r) ==
    r.pc \in Joining => pthread[r.target].joiner = c /\ ~pthread[r.target].detached

\* A Pthread that is linked or started next is as constructed.
StartGood(r) ==
    r.pc \in {"link", "start"} =>
        /\ run[r.target] = "none" /\ ~pthread[r.target].dead /\ ~pthread[r.target].terminated
        /\ r.pc = "link" => pthread[r.target].refcount = 1

CallerGood(c, r) ==
    /\ TargetGood(r) /\ JoinGood(c, r) /\ StartGood(r)
    /\ r.pc \in Joining \cup Using \cup {"start"} => r.target \in threads

\* One caller starts a thread.
OneStarter ==
    \A c, d \in Callers :
        caller[c].pc = "start" /\ caller[d].pc = "start" /\ caller[c].target = caller[d].target
            => c = d

CallersInv == OneStarter /\ \A c \in Callers : CallerGood(c, caller[c])

\* A thread that runs is alive and linked; until it has published its end it is not terminated and
\* nobody frees its Pthread.
RunGood(p) ==
    /\ run[p] = "running" => ~pthread[p].dead
    /\ run[p] \in {"collect", "publish"} => pthread[p].dead
    /\ run[p] \in {"running", "collect"} => p \in threads
    /\ run[p] # "none" => ~pthread[p].terminated /\ p \in threads \cup gc_list

RunInv == \A p \in Pthreads : RunGood(p)

\* RefsCounted, Pthread by Pthread.
Users(p) == {c \in Callers : caller[c].pc \in Using /\ caller[c].target = p}
Refs(p) == /\ Cardinality(Users(p)) \in Nat
           /\ pthread[p].refcount = (IF pthread[p].dead THEN 0 ELSE 1) + Cardinality(Users(p))
                                    + (IF run[p] = "collect" THEN 1 ELSE 0)
RefsInv == \A p \in threads : Refs(p)

\* OnePlace, Pthread by Pthread.
Cached == ToSet(free_threads)
HeldBy(r) == r.work \cup IF r.pc \in {"release", "construct", "link"} THEN {r.target} ELSE {}
InOneList(p) ==
    \/ p \in threads /\ p \notin gc_list /\ p \notin Cached /\ p \notin heap
    \/ p \notin threads /\ p \in gc_list /\ p \notin Cached /\ p \notin heap
    \/ p \notin threads /\ p \notin gc_list /\ p \in Cached /\ p \notin heap
    \/ p \notin threads /\ p \notin gc_list /\ p \notin Cached /\ p \in heap
InNoList(p) == p \notin threads /\ p \notin gc_list /\ p \notin Cached /\ p \notin heap
Holds(c, p) == p \in HeldBy(caller[c])
AtOne(p) ==
    \/ InOneList(p) /\ \A c \in Callers : ~Holds(c, p)
    \/ InNoList(p) /\ \E c \in Callers : \A d \in Callers : Holds(d, p) <=> d = c
PlacesInv == IsInjective(free_threads) /\ \A p \in Pthreads : AtOne(p)

HalfwayPCs == {"allocate", "uncount", "giveup"}
Halfway == {c \in Callers : caller[c].pc \in HalfwayPCs}
TotalInv == total_threads = Cardinality(Pthreads \ heap) + Cardinality(Halfway)

IndInv == TypeOK /\ CallersInv /\ RunInv /\ RefsInv /\ PlacesInv /\ TotalInv

-----------------------------------------------------------------------------
(* Counting. *)

LEMMA OneMore ==
    ASSUME NEW S, NEW T, NEW x, IsFiniteSet(S), S \ {x} = T \ {x}
    PROVE  /\ IsFiniteSet(T) /\ Cardinality(S) \in Nat /\ Cardinality(T) \in Nat
           /\ x \in T /\ x \notin S => Cardinality(T) = Cardinality(S) + 1
           /\ x \notin T /\ x \in S => Cardinality(T) = Cardinality(S) - 1
           /\ (x \in S <=> x \in T) => T = S
  <1>1. T = S \cup {x} \/ T = S \ {x}
    OBVIOUS
  <1>2. (x \in S <=> x \in T) => T = S
    OBVIOUS
  <1>3. /\ IsFiniteSet(S \cup {x}) /\ IsFiniteSet(S \ {x})
        /\ x \notin S => Cardinality(S \cup {x}) = Cardinality(S) + 1
        /\ x \in S => Cardinality(S \ {x}) = Cardinality(S) - 1
    BY FS_AddElement, FS_RemoveElement
  <1>4. IsFiniteSet(T)
    BY <1>1, <1>3
  <1>5. Cardinality(S) \in Nat /\ Cardinality(T) \in Nat
    BY <1>4, FS_CardinalityType
  <1>6. x \in T /\ x \notin S => T = S \cup {x}
    BY <1>1
  <1>7. x \notin T /\ x \in S => T = S \ {x}
    BY <1>1
  <1> QED
    BY <1>2, <1>3, <1>4, <1>5, <1>6, <1>7

\* How many use p when one caller goes on.
Uses(r, p) == r.pc \in Using /\ r.target = p

LEMMA UsersStep ==
    ASSUME NEW c \in Callers, NEW p,
           \A d \in Callers \ {c} : caller'[d] = caller[d]
    PROVE  /\ Cardinality(Users(p)) \in Nat /\ Cardinality(Users(p)') \in Nat
           /\ Uses(caller'[c], p) /\ ~Uses(caller[c], p)
                => Cardinality(Users(p)') = Cardinality(Users(p)) + 1
           /\ ~Uses(caller'[c], p) /\ Uses(caller[c], p)
                => Cardinality(Users(p)') = Cardinality(Users(p)) - 1
           /\ (Uses(caller'[c], p) <=> Uses(caller[c], p)) => Users(p)' = Users(p)
  <1>1. /\ Users(p) \ {c} = Users(p)' \ {c}
        /\ c \in Users(p) <=> Uses(caller[c], p)
        /\ c \in Users(p)' <=> Uses(caller'[c], p)
    BY DEF Users, Uses
  <1>2. IsFiniteSet(Users(p))
    BY FiniteAssumption, FS_Subset DEF Users
  <1> QED
    BY <1>1, <1>2, OneMore

LEMMA HalfwayStep ==
    ASSUME NEW c \in Callers,
           \A d \in Callers \ {c} : caller'[d] = caller[d]
    PROVE  /\ Cardinality(Halfway) \in Nat /\ Cardinality(Halfway') \in Nat
           /\ caller'[c].pc \in HalfwayPCs /\ caller[c].pc \notin HalfwayPCs
                => Cardinality(Halfway') = Cardinality(Halfway) + 1
           /\ caller'[c].pc \notin HalfwayPCs /\ caller[c].pc \in HalfwayPCs
                => Cardinality(Halfway') = Cardinality(Halfway) - 1
           /\ (caller'[c].pc \in HalfwayPCs <=> caller[c].pc \in HalfwayPCs) => Halfway' = Halfway
  <1>1. /\ Halfway \ {c} = Halfway' \ {c}
        /\ c \in Halfway <=> caller[c].pc \in HalfwayPCs
        /\ c \in Halfway' <=> caller'[c].pc \in HalfwayPCs
    BY DEF Halfway
  <1>2. IsFiniteSet(Halfway)
    BY FiniteAssumption, FS_Subset DEF Halfway
  <1> QED
    BY <1>1, <1>2, OneMore

LEMMA HeapStep ==
    ASSUME NEW p \in Pthreads
    PROVE  /\ Cardinality(Pthreads \ heap) \in Nat
           /\ heap' = heap \cup {p} /\ p \notin heap
                => Cardinality(Pthreads \ heap') = Cardinality(Pthreads \ heap) - 1
           /\ heap' = heap \ {p} /\ p \in heap
                => Cardinality(Pthreads \ heap') = Cardinality(Pthreads \ heap) + 1
  <1>1. IsFiniteSet(Pthreads \ heap)
    BY FiniteAssumption, FS_Subset
  <1>2. Cardinality(Pthreads \ heap) \in Nat
    BY <1>1, FS_CardinalityType
  <1> DEFINE S == Pthreads \ heap
             T == Pthreads \ heap'
  <1>3. ASSUME heap' = heap \cup {p}, p \notin heap
        PROVE  Cardinality(T) = Cardinality(S) - 1
    <2>1. S \ {p} = T \ {p} /\ p \in S /\ p \notin T
      BY <1>3
    <2> HIDE DEF S, T
    <2> QED
      BY <1>1, <2>1, OneMore DEF S
  <1>4. ASSUME heap' = heap \ {p}, p \in heap
        PROVE  Cardinality(T) = Cardinality(S) + 1
    <2>1. S \ {p} = T \ {p} /\ p \notin S /\ p \in T
      BY <1>4
    <2>2. IsFiniteSet(S)
      BY <1>1
    <2> HIDE DEF S, T
    <2> QED
      BY <2>1, <2>2, OneMore
  <1> QED
    BY <1>2, <1>3, <1>4

-----------------------------------------------------------------------------
(* The cache. *)

LEMMA AppendCached ==
    ASSUME NEW S, NEW s \in Seq(S), NEW x \in S, IsInjective(s), x \notin ToSet(s)
    PROVE  /\ Append(s, x) \in Seq(S) /\ IsInjective(Append(s, x))
           /\ ToSet(Append(s, x)) = ToSet(s) \cup {x}
  <1>1. /\ Append(s, x) \in Seq(S) /\ Len(Append(s, x)) = Len(s) + 1
        /\ \A i \in 1 .. Len(s) : Append(s, x)[i] = s[i]
        /\ Append(s, x)[Len(s) + 1] = x /\ Len(s) \in Nat
    OBVIOUS
  <1>2. /\ DOMAIN s = 1 .. Len(s) /\ DOMAIN Append(s, x) = 1 .. (Len(s) + 1)
    BY <1>1
  <1> DEFINE t == Append(s, x)
  <1> HIDE DEF t
  <1>3. IsInjective(t)
    <2> SUFFICES ASSUME NEW i \in 1 .. (Len(s) + 1), NEW j \in 1 .. (Len(s) + 1), t[i] = t[j]
                 PROVE  i = j
      BY <1>2 DEF IsInjective, t
    <2>1. \A k \in 1 .. Len(s) : t[k] = s[k] /\ s[k] # x
      BY <1>1, <1>2 DEF t, ToSet
    <2>2. t[Len(s) + 1] = x
      BY <1>1 DEF t
    <2>3. \A k, l \in 1 .. Len(s) : s[k] = s[l] => k = l
      BY <1>2 DEF IsInjective
    <2> QED
      BY <1>1, <2>1, <2>2, <2>3
  <1>4. ToSet(t) = ToSet(s) \cup {x}
    BY <1>1, <1>2 DEF ToSet, t
  <1> QED
    BY <1>1, <1>3, <1>4 DEF t

LEMMA FrontCached ==
    ASSUME NEW S, NEW s \in Seq(S), IsInjective(s), s # <<>>
    PROVE  /\ Last(s) \in S /\ Last(s) \in ToSet(s)
           /\ Front(s) \in Seq(S) /\ IsInjective(Front(s))
           /\ ToSet(Front(s)) = ToSet(s) \ {Last(s)}
  <1>1. Len(s) \in Nat /\ Len(s) > 0 /\ DOMAIN s = 1 .. Len(s)
    BY EmptySeq
  <1>2. /\ Front(s) \in Seq(S) /\ Len(Front(s)) = Len(s) - 1
        /\ \A i \in 1 .. (Len(s) - 1) : Front(s)[i] = s[i]
    BY <1>1 DEF Front
  <1>3. DOMAIN Front(s) = 1 .. (Len(s) - 1)
    BY <1>2
  <1>4. Last(s) = s[Len(s)] /\ Last(s) \in S
    BY <1>1 DEF Last
  <1>5. \A i, j \in 1 .. Len(s) : s[i] = s[j] => i = j
    BY <1>1 DEF IsInjective
  <1> DEFINE f == Front(s)
  <1> HIDE DEF f
  <1>6. IsInjective(f)
    BY <1>1, <1>2, <1>3, <1>5 DEF IsInjective, f
  <1>7. ToSet(f) = ToSet(s) \ {Last(s)}
    <2>1. ToSet(f) = {s[i] : i \in 1 .. (Len(s) - 1)}
      BY <1>2, <1>3 DEF ToSet, f
    <2>2. ToSet(s) = {s[i] : i \in 1 .. Len(s)}
      BY <1>1 DEF ToSet
    <2>3. \A i \in 1 .. Len(s) : i \in 1 .. (Len(s) - 1) <=> s[i] # s[Len(s)]
      BY <1>1, <1>5
    <2>4. 1 .. (Len(s) - 1) \subseteq 1 .. Len(s)
      BY <1>1
    <2>5. ASSUME NEW x \in ToSet(f) PROVE x \in ToSet(s) \ {Last(s)}
      BY <1>4, <2>1, <2>2, <2>3, <2>4, <2>5
    <2>6. ASSUME NEW x \in ToSet(s), x # Last(s) PROVE x \in ToSet(f)
      BY <1>4, <2>1, <2>2, <2>3, <2>6
    <2> QED
      BY <2>5, <2>6
  <1>8. Last(s) \in ToSet(s)
    <2>1. Len(s) \in DOMAIN s
      BY <1>1
    <2> QED
      BY <1>4, <2>1 DEF ToSet
  <1> QED
    BY <1>2, <1>4, <1>6, <1>7, <1>8 DEF f

-----------------------------------------------------------------------------
(* How the invariant is kept, part by part. *)

\* The forms in which a step changes its caller.
LEMMA CallerForms ==
    ASSUME TypeOK, NEW c \in Callers
    PROVE  /\ caller[c] \in CallerRecords
           /\ caller[c] = [pc |-> caller[c].pc, target |-> caller[c].target, work |-> caller[c].work]
           /\ \A pc, target : Goto(c, pc, target) =>
                caller' = [caller EXCEPT ![c] = [pc |-> pc, target |-> target,
                                                 work |-> caller[c].work]]
           /\ Done(c) => caller' = [caller EXCEPT ![c] = Idle]
  <1>1. caller[c] \in CallerRecords
    BY DEF TypeOK
  <1> QED
    BY <1>1 DEF TypeOK, CallerRecords, Goto, Done

LEMMA GotoForm ==
    ASSUME TypeOK, NEW c \in Callers, NEW pc, NEW target, Goto(c, pc, target)
    PROVE  caller' = [caller EXCEPT ![c] = [pc |-> pc, target |-> target, work |-> caller[c].work]]
BY CallerForms

LEMMA CallerChange ==
    ASSUME TypeOK, NEW c \in Callers, NEW r \in CallerRecords, caller' = [caller EXCEPT ![c] = r]
    PROVE  /\ caller' \in [Callers -> CallerRecords]
           /\ caller'[c] = r
           /\ \A d \in Callers \ {c} : caller'[d] = caller[d]
BY DEF TypeOK

LEMMA CallersStep ==
    ASSUME TypeOK, CallersInv, NEW c \in Callers, NEW r \in CallerRecords,
           caller' = [caller EXCEPT ![c] = r],
           CallerGood(c, r)',
           \A d \in Callers \ {c} : CallerGood(d, caller[d])',
           r.pc = "start" => \A d \in Callers \ {c} :
                                ~(caller[d].pc = "start" /\ caller[d].target = r.target)
    PROVE  CallersInv'
  <1>1. caller'[c] = r /\ \A d \in Callers \ {c} : caller'[d] = caller[d]
    BY CallerChange
  <1>2. \A d \in Callers : CallerGood(d, caller[d])'
    <2>1. ASSUME NEW d \in Callers PROVE CallerGood(d, caller[d])'
      <3>1. CASE d = c
        BY <1>1, <3>1 DEF CallerGood, TargetGood, JoinGood, StartGood
      <3>2. CASE d # c
        BY <1>1, <3>2 DEF CallerGood, TargetGood, JoinGood, StartGood
      <3> QED
        BY <3>1, <3>2
    <2> QED
      BY <2>1
  <1>3. OneStarter'
    BY <1>1 DEF CallersInv, OneStarter
  <1> QED
    BY <1>2, <1>3 DEF CallersInv

\* A step of a caller that leaves the Pthreads and the list of threads alone.
LEMMA QuietStep ==
    ASSUME TypeOK, CallersInv, RunInv, RefsInv, NEW c \in Callers, NEW r \in CallerRecords,
           caller' = [caller EXCEPT ![c] = r],
           CallerGood(c, r), r.pc # "start", r.pc \notin Using, caller[c].pc \notin Using,
           UNCHANGED <<pthread, run, threads>>,
           \A p \in gc_list : p \in gc_list' \/ pthread[p].terminated
    PROVE  caller' \in [Callers -> CallerRecords] /\ CallersInv' /\ RunInv' /\ RefsInv'
  <1>1. /\ caller' \in [Callers -> CallerRecords]
        /\ caller'[c] = r /\ \A d \in Callers \ {c} : caller'[d] = caller[d]
    BY CallerChange
  <1>2. \A d, x : CallerGood(d, x) <=> CallerGood(d, x)'
    BY DEF CallerGood, TargetGood, JoinGood, StartGood
  <1>3. CallersInv'
    <2>1. ASSUME NEW d \in Callers \ {c} PROVE CallerGood(d, caller[d])'
      <3>1. CallerGood(d, caller[d])
        BY DEF CallersInv
      <3> QED
        BY <1>1, <3>1 DEF CallerGood, TargetGood, JoinGood, StartGood
    <2>2. CallerGood(c, r)'
      BY DEF CallerGood, TargetGood, JoinGood, StartGood
    <2> QED
      BY <2>1, <2>2, CallersStep
  <1>4. RunInv'
    BY DEF RunInv, RunGood, TypeOK
  <1>5. RefsInv'
    <2>1. \A p : ~Uses(caller'[c], p) /\ ~Uses(caller[c], p)
      BY <1>1 DEF Uses
    <2>2. \A p : Users(p)' = Users(p)
      BY <1>1, <2>1, UsersStep
    <2> QED
      BY <2>2 DEF RefsInv, Refs
  <1> QED
    BY <1>1, <1>3, <1>4, <1>5

\* The Pthreads in M go from the hands of c to one list, or from one list to the hands of c.
LEMMA PlacesStep ==
    ASSUME TypeOK, PlacesInv, NEW c \in Callers, NEW r \in CallerRecords,
           caller' = [caller EXCEPT ![c] = r],
           NEW M \in SUBSET Pthreads,
           IsInjective(free_threads'),
           \A p \in Pthreads \ M : /\ p \in threads' <=> p \in threads
                                   /\ p \in gc_list' <=> p \in gc_list
                                   /\ p \in Cached' <=> p \in Cached
                                   /\ p \in heap' <=> p \in heap
                                   /\ p \in HeldBy(r) <=> p \in HeldBy(caller[c]),
           \A p \in M : \/ /\ p \in HeldBy(caller[c]) /\ p \notin HeldBy(r)
                           /\ InNoList(p) => InOneList(p)'
                        \/ /\ p \notin HeldBy(caller[c]) /\ p \in HeldBy(r)
                           /\ InOneList(p) /\ InNoList(p)'
    PROVE  PlacesInv'
  <1>1. caller'[c] = r /\ \A d \in Callers \ {c} : caller'[d] = caller[d]
    BY CallerChange
  <1>2. HeldBy(caller'[c]) = HeldBy(r) /\ \A d \in Callers \ {c} : HeldBy(caller'[d]) = HeldBy(caller[d])
    BY <1>1
  <1> USE DEF Holds
  <1>3. ASSUME NEW p \in Pthreads PROVE AtOne(p)'
    <2>1. AtOne(p)
      BY DEF PlacesInv
    <2>2. CASE p \notin M
      <3>1. /\ InOneList(p)' <=> InOneList(p)
            /\ InNoList(p)' <=> InNoList(p)
        BY <2>2 DEF InOneList, InNoList
      <3>2. \A d \in Callers : Holds(d, p)' <=> Holds(d, p)
        BY <1>2, <2>2
      <3> QED
        BY <2>1, <3>1, <3>2 DEF AtOne
    <2>3. CASE p \in M /\ p \in HeldBy(caller[c])
      <3>1. InNoList(p) /\ \A d \in Callers : Holds(d, p) <=> d = c
        BY <1>2, <2>1, <2>3 DEF AtOne
      <3>2. p \notin HeldBy(r) /\ InOneList(p)'
        BY <2>3, <3>1 DEF InOneList, InNoList
      <3>3. \A d \in Callers : p \notin HeldBy(caller'[d])
        BY <1>2, <3>1, <3>2
      <3> QED
        BY <3>2, <3>3 DEF AtOne
    <2>4. CASE p \in M /\ p \notin HeldBy(caller[c])
      <3>1. InOneList(p) /\ InNoList(p)' /\ p \in HeldBy(r)
        BY <2>4 DEF InOneList, InNoList
      <3>2. \A d \in Callers : p \notin HeldBy(caller[d])
        BY <2>1, <3>1 DEF AtOne, InOneList, InNoList
      <3>3. \A d \in Callers : p \in HeldBy(caller'[d]) <=> d = c
        BY <1>2, <3>1, <3>2
      <3> QED
        BY <3>1, <3>3 DEF AtOne
    <2> QED
      BY <2>2, <2>3, <2>4
  <1> QED
    BY <1>3 DEF PlacesInv

\* Nothing moves.
LEMMA PlacesSame ==
    ASSUME PlacesInv, UNCHANGED <<threads, gc_list, free_threads, heap>>,
           \A c \in Callers : HeldBy(caller'[c]) = HeldBy(caller[c])
    PROVE  PlacesInv'
  <1>1. \A p : /\ InOneList(p)' <=> InOneList(p)
               /\ InNoList(p)' <=> InNoList(p)
    BY DEF InOneList, InNoList, Cached
  <1>2. \A p : \A c \in Callers : Holds(c, p)' <=> Holds(c, p)
    BY DEF Holds
  <1>3. \A p \in Pthreads : AtOne(p)'
    BY <1>1, <1>2 DEF PlacesInv, AtOne
  <1> QED
    BY <1>3 DEF PlacesInv

LEMMA PlacesKept ==
    ASSUME PlacesInv, TotalInv, UNCHANGED places,
           \A c \in Callers : /\ HeldBy(caller'[c]) = HeldBy(caller[c])
                              /\ caller'[c].pc \in HalfwayPCs <=> caller[c].pc \in HalfwayPCs
    PROVE  PlacesInv' /\ TotalInv'
  <1>1. PlacesInv'
    BY PlacesSame DEF places
  <1>2. Halfway' = Halfway
    BY DEF Halfway
  <1> QED
    BY <1>1, <1>2 DEF TotalInv, places

-----------------------------------------------------------------------------
(* The steps that leave the Pthreads alone. *)

LEMMA InitInv == Init => IndInv
  <1> SUFFICES ASSUME Init PROVE IndInv
    OBVIOUS
  <1> USE DEF Init
  <1>1. TypeOK
    BY DEF TypeOK, PthreadRecords, CallerRecords, Fresh, Idle, PCs
  <1>2. \A c \in Callers : caller[c] = Idle
    OBVIOUS
  <1>3. CallersInv
    BY <1>2 DEF CallersInv, OneStarter, CallerGood, TargetGood, JoinGood, StartGood, Idle, Joining,
                Using
  <1>4. RunInv /\ RefsInv
    BY DEF RunInv, RunGood, RefsInv
  <1>5. PlacesInv
    <2>1. Cached = {}
      BY DEF Cached, ToSet
    <2>2. IsInjective(free_threads)
      BY DEF IsInjective
    <2>3. \A c \in Callers, p \in Pthreads : ~Holds(c, p)
      BY <1>2 DEF Holds, HeldBy, Idle
    <2> QED
      BY <2>1, <2>2, <2>3 DEF PlacesInv, AtOne, InOneList
  <1>6. TotalInv
    <2>1. Halfway = {} /\ Pthreads \ heap = {}
      BY <1>2 DEF Halfway, HalfwayPCs, Idle
    <2>2. Cardinality(Halfway) = 0 /\ Cardinality(Pthreads \ heap) = 0
      BY <2>1, FS_EmptySet, Zenon
    <2> QED
      BY <2>2 DEF TotalInv
  <1> QED
    BY <1>1, <1>3, <1>4, <1>5, <1>6 DEF IndInv

LEMMA QuietAction ==
    ASSUME IndInv, NEW c \in Callers, NEW r \in CallerRecords,
           caller' = [caller EXCEPT ![c] = r],
           CallerGood(c, r), r.pc # "start", r.pc \notin Using, caller[c].pc \notin Using,
           UNCHANGED <<pthread, run, threads>>,
           \A p \in gc_list : p \in gc_list' \/ pthread[p].terminated,
           gc_list' \in SUBSET Pthreads, heap' \in SUBSET Pthreads, total_threads' \in Int,
           free_threads' \in Seq(Pthreads),
           PlacesInv' /\ TotalInv'
    PROVE  IndInv'
  <1>1. caller' \in [Callers -> CallerRecords] /\ CallersInv' /\ RunInv' /\ RefsInv'
    BY QuietStep DEF IndInv
  <1> QED
    BY <1>1 DEF IndInv, TypeOK

LEMMA QuietKept ==
    ASSUME IndInv, NEW c \in Callers, NEW r \in CallerRecords,
           caller' = [caller EXCEPT ![c] = r],
           CallerGood(c, r), r.pc # "start", r.pc \notin Using, caller[c].pc \notin Using,
           UNCHANGED <<pthread, run, places>>,
           HeldBy(r) = HeldBy(caller[c]), r.pc \in HalfwayPCs <=> caller[c].pc \in HalfwayPCs
    PROVE  IndInv'
  <1>1. \A d \in Callers : /\ HeldBy(caller'[d]) = HeldBy(caller[d])
                           /\ caller'[d].pc \in HalfwayPCs <=> caller[d].pc \in HalfwayPCs
    BY CallerChange DEF IndInv
  <1>2. PlacesInv' /\ TotalInv'
    BY <1>1, PlacesKept DEF IndInv
  <1>3. /\ threads' = threads /\ gc_list' \in SUBSET Pthreads /\ heap' \in SUBSET Pthreads
        /\ total_threads' \in Int /\ free_threads' \in Seq(Pthreads)
        /\ \A p \in gc_list : p \in gc_list'
    BY DEF places, IndInv, TypeOK
  <1> QED
    BY <1>2, <1>3, QuietAction

\* A record of a caller is good when it neither joins, references, collects, links nor starts.
LEMMA PlainGood ==
    ASSUME NEW c \in Callers, NEW r \in CallerRecords,
           r.pc \in {"idle", "unlock", "gc", "free", "release", "uncount", "alloc", "count",
                     "allocate", "giveup", "construct", "affinity"},
           TargetGood(r)
    PROVE  CallerGood(c, r) /\ r.pc # "start" /\ r.pc \notin Using
BY DEF CallerGood, JoinGood, StartGood, Joining, Using

LEMMA WaitingStep ==
    ASSUME IndInv, NEW c \in Callers,
           Unlock(c) \/ Create(c) \/ SetAffinity(c) \/ JoinWait(c) \/ JoinGivesUp(c)
    PROVE  IndInv'
  <1> DEFINE work == caller[c].work
             target == caller[c].target
  <1>1. /\ caller[c] \in CallerRecords /\ CallerGood(c, caller[c]) /\ TypeOK
        /\ work \in SUBSET Pthreads /\ target \in Pthreads \cup {None}
    BY CallerForms DEF IndInv, CallersInv, CallerRecords
  <1>2. /\ work = {} /\ caller[c].pc \notin Using
        /\ caller[c].pc \notin HalfwayPCs \cup {"release", "construct", "link"}
    BY <1>1 DEF Unlock, Create, SetAffinity, JoinWait, JoinGivesUp, CallerGood, TargetGood, Using,
                HalfwayPCs
  <1>3. UNCHANGED <<pthread, run, places>>
    BY DEF Unlock, Create, SetAffinity, JoinWait, JoinGivesUp
  <1>4. HeldBy(caller[c]) = {}
    BY <1>2 DEF HeldBy
  <1>5. PICK pc \in {"idle", "gc", "alloc", "joined", "asleep", "backout"},
             t \in {None, target} :
            /\ caller' = [caller EXCEPT ![c] = [pc |-> pc, target |-> t, work |-> {}]]
            /\ pc \in {"joined", "asleep", "backout"} =>
                    caller[c].pc \in Joining /\ t = target
    <2>1. CASE Unlock(c) \/ SetAffinity(c)
      <3>1. caller' = [caller EXCEPT ![c] = Idle]
        BY <1>1, <2>1, CallerForms DEF Unlock, SetAffinity
      <3> QED
        BY <3>1 DEF Idle
    <2>2. CASE Create(c)
      <3>1. PICK pc \in {"gc", "alloc"} : Goto(c, pc, None)
        BY <2>2 DEF Create
      <3>2. caller' = [caller EXCEPT ![c] = [pc |-> pc, target |-> None, work |-> {}]]
        BY <1>1, <1>2, <3>1, CallerForms
      <3> QED
        BY <3>2
    <2>3. CASE JoinWait(c) \/ JoinGivesUp(c)
      <3>1. /\ caller[c].pc \in Joining
            /\ \E pc \in {"joined", "asleep", "backout"} : Goto(c, pc, target)
        BY <2>3 DEF JoinWait, JoinGivesUp, Joining
      <3>2. PICK pc \in {"joined", "asleep", "backout"} : Goto(c, pc, target)
        BY <3>1
      <3>3. caller' = [caller EXCEPT ![c] = [pc |-> pc, target |-> target, work |-> {}]]
        BY <1>1, <1>2, <3>2, CallerForms
      <3> QED
        BY <3>1, <3>3
    <2> QED
      BY <2>1, <2>2, <2>3
  <1> DEFINE r == [pc |-> pc, target |-> t, work |-> {}]
  <1>6. /\ r \in CallerRecords /\ r.pc # "start" /\ r.pc \notin Using
        /\ HeldBy(r) = {} /\ r.pc \notin HalfwayPCs
    BY <1>1 DEF CallerRecords, PCs, Joining, Using, HeldBy, HalfwayPCs
  <1>7. CallerGood(c, r)
    <2>1. CASE pc \in {"joined", "asleep", "backout"}
      BY <1>1, <1>5, <2>1 DEF CallerGood, TargetGood, JoinGood, StartGood, Joining
    <2>2. CASE pc \notin {"joined", "asleep", "backout"}
      BY <2>2 DEF CallerGood, TargetGood, JoinGood, StartGood, Joining, Using
    <2> QED
      BY <2>1, <2>2
  <1> HIDE DEF r
  <1>8. caller' = [caller EXCEPT ![c] = r]
    BY <1>5 DEF r
  <1> QED
    BY <1>2, <1>3, <1>4, <1>6, <1>7, <1>8, QuietKept

\* Leave wakes joiners: they join again.
LEMMA LeaveStep ==
    ASSUME IndInv, NEW p \in Pthreads, Leave(p)
    PROVE  IndInv'
  <1> USE DEF IndInv
  <1>1. UNCHANGED <<pthread, run, places>>
    BY DEF Leave
  <1>2. UNCHANGED <<threads, gc_list, heap, free_threads, total_threads>>
    BY <1>1 DEF places
  <1>3. \A c \in Callers :
            \/ caller'[c] = caller[c]
            \/ caller[c].pc = "asleep" /\ caller'[c] = [caller[c] EXCEPT !.pc = "join"]
    BY DEF Leave
  <1>4. \A c \in Callers : caller[c] \in CallerRecords
    BY DEF TypeOK
  <1>5. \A c \in Callers :
            /\ caller'[c] \in CallerRecords
            /\ caller'[c].target = caller[c].target /\ caller'[c].work = caller[c].work
            /\ \/ caller'[c].pc = caller[c].pc
               \/ caller[c].pc = "asleep" /\ caller'[c].pc = "join"
    <2> TAKE c \in Callers
    <2>1. CASE caller'[c] = caller[c]
      BY <1>4, <2>1
    <2>2. CASE caller[c].pc = "asleep" /\ caller'[c] = [caller[c] EXCEPT !.pc = "join"]
      BY <1>4, <2>2 DEF CallerRecords, PCs, Joining
    <2> QED
      BY <1>3, <2>1, <2>2
  <1>6. TypeOK'
    BY <1>1, <1>2, <1>5 DEF Leave, TypeOK
  <1>7. CallersInv'
    <2>1. ASSUME NEW c \in Callers PROVE CallerGood(c, caller[c])'
      <3>1. CallerGood(c, caller[c])
        BY DEF CallersInv
      <3> QED
        BY <1>1, <1>2, <1>5, <3>1 DEF CallerGood, TargetGood, JoinGood, StartGood, Joining, Using
    <2>2. OneStarter'
      BY <1>5 DEF CallersInv, OneStarter
    <2> QED
      BY <2>1, <2>2 DEF CallersInv
  <1>8. RunInv'
    BY <1>1, <1>2 DEF RunInv, RunGood
  <1>9. RefsInv'
    <2>1. \A q : Users(q)' = Users(q)
      BY <1>5 DEF Users, Using
    <2> QED
      BY <1>1, <1>2, <2>1 DEF RefsInv, Refs
  <1>10. \A c \in Callers : /\ HeldBy(caller'[c]) = HeldBy(caller[c])
                            /\ caller'[c].pc \in HalfwayPCs <=> caller[c].pc \in HalfwayPCs
    BY <1>5 DEF HeldBy, HalfwayPCs
  <1>11. PlacesInv' /\ TotalInv'
    BY <1>1, <1>10, PlacesKept
  <1> QED
    BY <1>6, <1>7, <1>8, <1>9, <1>11

-----------------------------------------------------------------------------
(* Allocation and collection: Pthreads go from hand to hand. *)

LEMMA CallerNow ==
    ASSUME IndInv, NEW c \in Callers
    PROVE  /\ TypeOK /\ caller[c] \in CallerRecords /\ TargetGood(caller[c])
           /\ caller[c].work \in SUBSET Pthreads
BY CallerForms DEF IndInv, CallersInv, CallerGood, CallerRecords

\* A Pthread in the hands of a caller is nowhere else.
LEMMA HeldIsOut ==
    ASSUME IndInv, NEW c \in Callers, NEW p \in Pthreads, p \in HeldBy(caller[c])
    PROVE  InNoList(p)
  <1>1. AtOne(p)
    BY DEF IndInv, PlacesInv
  <1> QED
    BY <1>1 DEF AtOne, Holds

LEMMA ListedIsOne ==
    ASSUME IndInv, NEW p \in Pthreads, ~InNoList(p)
    PROVE  InOneList(p) /\ \A c \in Callers : p \notin HeldBy(caller[c])
  <1>1. AtOne(p)
    BY DEF IndInv, PlacesInv
  <1> QED
    BY <1>1 DEF AtOne, Holds

\* What one caller's step does to the total.
LEMMA TotalStep ==
    ASSUME IndInv, NEW c \in Callers, NEW r \in CallerRecords, caller' = [caller EXCEPT ![c] = r],
           \/ /\ heap' = heap
              /\ \/ /\ total_threads' = total_threads
                    /\ caller[c].pc \in HalfwayPCs <=> r.pc \in HalfwayPCs
                 \/ total_threads' = total_threads + 1
                    /\ caller[c].pc \notin HalfwayPCs /\ r.pc \in HalfwayPCs
                 \/ total_threads' = total_threads - 1
                    /\ caller[c].pc \in HalfwayPCs /\ r.pc \notin HalfwayPCs
           \/ /\ total_threads' = total_threads
              /\ \E p \in Pthreads :
                    \/ heap' = heap \cup {p} /\ p \notin heap
                       /\ caller[c].pc \notin HalfwayPCs /\ r.pc \in HalfwayPCs
                    \/ heap' = heap \ {p} /\ p \in heap
                       /\ caller[c].pc \in HalfwayPCs /\ r.pc \notin HalfwayPCs
    PROVE  TotalInv' /\ total_threads' \in Int
  <1>1. caller'[c] = r /\ \A d \in Callers \ {c} : caller'[d] = caller[d]
    BY CallerChange DEF IndInv
  <1> DEFINE taken == Cardinality(Pthreads \ heap)
             halfway == Cardinality(Halfway)
  <1>2. total_threads = taken + halfway /\ total_threads \in Int
    BY DEF IndInv, TypeOK, TotalInv
  <1>3. /\ halfway \in Nat /\ halfway' \in Nat
        /\ r.pc \in HalfwayPCs /\ caller[c].pc \notin HalfwayPCs => halfway' = halfway + 1
        /\ r.pc \notin HalfwayPCs /\ caller[c].pc \in HalfwayPCs => halfway' = halfway - 1
        /\ (r.pc \in HalfwayPCs <=> caller[c].pc \in HalfwayPCs) => halfway' = halfway
    BY <1>1, HalfwayStep
  <1>4. taken \in Nat
    <2>1. IsFiniteSet(Pthreads \ heap)
      BY FiniteAssumption, FS_Subset
    <2> QED
      BY <2>1, FS_CardinalityType
  <1>5. /\ heap' = heap => taken' = taken
        /\ \A p \in Pthreads :
            /\ heap' = heap \cup {p} /\ p \notin heap => taken' = taken - 1
            /\ heap' = heap \ {p} /\ p \in heap => taken' = taken + 1
    BY HeapStep
  <1> HIDE DEF taken, halfway
  <1>6. total_threads' = taken' + halfway' /\ total_threads' \in Int
    <2>1. CASE heap' = heap
      <3>1. taken' = taken
        BY <1>5, <2>1
      <3>2. \/ total_threads' = total_threads /\ halfway' = halfway
            \/ total_threads' = total_threads + 1 /\ halfway' = halfway + 1
            \/ total_threads' = total_threads - 1 /\ halfway' = halfway - 1
        <4>1. \A p : /\ p \notin heap => heap' # heap \cup {p}
                     /\ p \in heap => heap' # heap \ {p}
          BY <2>1
        <4>2. \/ total_threads' = total_threads /\ (caller[c].pc \in HalfwayPCs <=> r.pc \in HalfwayPCs)
              \/ /\ total_threads' = total_threads + 1
                 /\ caller[c].pc \notin HalfwayPCs /\ r.pc \in HalfwayPCs
              \/ /\ total_threads' = total_threads - 1
                 /\ caller[c].pc \in HalfwayPCs /\ r.pc \notin HalfwayPCs
          BY <4>1
        <4> QED
          BY <1>3, <4>2
      <3> QED
        BY <1>2, <1>3, <1>4, <3>1, <3>2
    <2>2. CASE heap' # heap
      <3>1. /\ total_threads' = total_threads
            /\ \/ taken' = taken - 1 /\ halfway' = halfway + 1
               \/ taken' = taken + 1 /\ halfway' = halfway - 1
        BY <1>3, <1>5, <2>2
      <3> QED
        BY <1>2, <1>3, <1>4, <3>1
    <2> QED
      BY <2>1, <2>2
  <1> QED
    BY <1>6 DEF TotalInv, taken, halfway

\* Count, Uncount and GiveUp change the total only.
LEMMA CountStep ==
    ASSUME IndInv, NEW c \in Callers, Count(c) \/ Uncount(c) \/ GiveUp(c)
    PROVE  IndInv'
  <1>1. /\ TypeOK /\ caller[c] \in CallerRecords /\ TargetGood(caller[c])
        /\ caller[c].work \in SUBSET Pthreads
    BY CallerNow
  <1>2. /\ caller[c].pc \in {"count", "uncount", "giveup"}
        /\ caller[c].pc # "uncount" => caller[c].work = {}
        /\ HeldBy(caller[c]) = caller[c].work /\ caller[c].pc \notin Using
    BY <1>1 DEF Count, Uncount, GiveUp, TargetGood, HeldBy, Using
  <1>3. UNCHANGED <<pthread, run, threads, gc_list, free_threads, heap>>
    BY DEF Count, Uncount, GiveUp
  <1>4. PICK pc \in {"allocate", "free", "alloc", "idle"} :
            /\ caller' = [caller EXCEPT ![c] = [pc |-> pc, target |-> None, work |-> caller[c].work]]
            /\ caller[c].work # {} => pc = "free"
            /\ \/ /\ pc = "allocate" /\ total_threads' = total_threads + 1
                  /\ caller[c].pc = "count"
               \/ /\ pc # "allocate" /\ total_threads' = total_threads - 1
                  /\ caller[c].pc \in {"uncount", "giveup"}
    <2>1. CASE Count(c)
      <3>1. Goto(c, "allocate", None)
        BY <2>1 DEF Count
      <3>2. caller' = [caller EXCEPT ![c] = [pc |-> "allocate", target |-> None,
                                             work |-> caller[c].work]]
        BY <1>1, <3>1, CallerForms
      <3> QED
        BY <1>2, <2>1, <3>2 DEF Count
    <2>2. CASE Uncount(c)
      <3>1. PICK pc \in {"free", "alloc"} :
                Goto(c, pc, None) /\ (caller[c].work # {} => pc = "free")
        BY <2>2 DEF Uncount
      <3>2. caller' = [caller EXCEPT ![c] = [pc |-> pc, target |-> None, work |-> caller[c].work]]
        BY <1>1, <3>1, CallerForms
      <3> QED
        BY <3>1, <3>2, <2>2 DEF Uncount
    <2>3. CASE GiveUp(c)
      <3>1. caller' = [caller EXCEPT ![c] = Idle]
        BY <1>1, <2>3, CallerForms DEF GiveUp
      <3>2. Idle = [pc |-> "idle", target |-> None, work |-> caller[c].work]
        BY <1>2, <2>3 DEF Idle, GiveUp
      <3> QED
        BY <1>2, <2>3, <3>1, <3>2 DEF GiveUp
    <2> QED
      BY <2>1, <2>2, <2>3
  <1> DEFINE r == [pc |-> pc, target |-> None, work |-> caller[c].work]
  <1>5. /\ r \in CallerRecords /\ TargetGood(r) /\ r.pc = pc
        /\ HeldBy(r) = HeldBy(caller[c])
    BY <1>1, <1>2, <1>4 DEF CallerRecords, PCs, TargetGood, Joining, Using, HeldBy
  <1> HIDE DEF r
  <1>6. caller' = [caller EXCEPT ![c] = r]
    BY <1>4 DEF r
  <1>7. CallerGood(c, r) /\ r.pc # "start" /\ r.pc \notin Using
    BY <1>5, PlainGood
  <1>8. PlacesInv'
    <2>1. \A d \in Callers : HeldBy(caller'[d]) = HeldBy(caller[d])
      BY <1>1, <1>5, <1>6, CallerChange
    <2> QED
      BY <1>3, <2>1, PlacesSame DEF IndInv
  <1>9. TotalInv' /\ total_threads' \in Int
    BY <1>3, <1>4, <1>5, <1>6, TotalStep DEF HalfwayPCs
  <1> QED
    BY <1>1, <1>2, <1>3, <1>5, <1>6, <1>7, <1>8, <1>9, QuietAction DEF TypeOK

LEMMA NewWork ==
    ASSUME NEW old \in CallerRecords, NEW pc, NEW work
    PROVE  [old EXCEPT !.pc = pc, !.work = work] = [pc |-> pc, target |-> old.target, work |-> work]
  <1> DEFINE new == [old EXCEPT !.pc = pc, !.work = work]
  <1>1. /\ new \in [pc : {pc}, target : {old.target}, work : {work}]
    BY DEF CallerRecords
  <1> HIDE DEF new
  <1>2. new = [pc |-> pc, target |-> old.target, work |-> work]
    BY <1>1
  <1> QED
    BY <1>2 DEF new

LEMMA CollectStep ==
    ASSUME IndInv, NEW c \in Callers, Collect(c)
    PROVE  IndInv'
  <1> DEFINE taken == {p \in gc_list : pthread[p].terminated}
             pc == IF taken = {} THEN "alloc" ELSE "free"
             r == [pc |-> pc, target |-> caller[c].target, work |-> taken]
  <1>1. /\ TypeOK /\ caller[c] \in CallerRecords /\ TargetGood(caller[c])
        /\ caller[c].pc = "gc" /\ taken \in SUBSET Pthreads
    BY CallerNow DEF Collect, TypeOK
  <1>2. caller[c].work = {} /\ HeldBy(caller[c]) = {} /\ caller[c].pc \notin Using \cup HalfwayPCs
    BY <1>1 DEF TargetGood, HeldBy, Using, HalfwayPCs
  <1>3. caller' = [caller EXCEPT ![c] = r]
    <2>1. caller' = [caller EXCEPT ![c].pc = pc, ![c].work = taken]
      BY DEF Collect
    <2> HIDE DEF pc, taken
    <2>3. [caller[c] EXCEPT !.pc = pc, !.work = taken] = r
      BY <1>1, NewWork
    <2>4. caller' = [caller EXCEPT ![c] = [caller[c] EXCEPT !.pc = pc, !.work = taken]]
      BY <1>1, <2>1 DEF TypeOK
    <2> QED
      BY <2>3, <2>4
  <1>4. /\ r \in CallerRecords /\ TargetGood(r) /\ HeldBy(r) = taken
        /\ r.pc \in {"alloc", "free"}
    <2>1. pc \in {"alloc", "free"} /\ (taken # {} => pc = "free")
      OBVIOUS
    <2> HIDE DEF pc, taken
    <2> QED
      BY <1>1, <2>1 DEF CallerRecords, PCs, TargetGood, Joining, Using, HeldBy
  <1>5. UNCHANGED <<pthread, run, threads, free_threads, heap, total_threads>>
        /\ gc_list' = gc_list \ taken
    BY DEF Collect
  <1>6. \A p \in taken : p \in Pthreads /\ p \in gc_list
    BY <1>1
  <1>7. \A p \in gc_list : p \in gc_list' \/ pthread[p].terminated
    BY <1>5
  <1> HIDE DEF r, taken, pc
  <1>8. \A p \in taken : p \notin HeldBy(caller[c]) /\ p \in HeldBy(r) /\ InOneList(p) /\ InNoList(p)'
    <2>1. \A p \in taken : InOneList(p)
      BY <1>6, ListedIsOne DEF InNoList
    <2> QED
      BY <1>2, <1>4, <1>5, <1>6, <2>1 DEF InOneList, InNoList, Cached
  <1>9. PlacesInv'
    <2>1. IsInjective(free_threads') /\ PlacesInv /\ Cached' = Cached
      BY <1>5 DEF IndInv, PlacesInv, Cached
    <2>2. \A p \in Pthreads \ taken : /\ p \in threads' <=> p \in threads
                                      /\ p \in gc_list' <=> p \in gc_list
                                      /\ p \in Cached' <=> p \in Cached
                                      /\ p \in heap' <=> p \in heap
                                      /\ p \in HeldBy(r) <=> p \in HeldBy(caller[c])
      BY <1>2, <1>4, <1>5, <2>1
    <2> QED
      BY <1>1, <1>3, <1>4, <1>8, <2>1, <2>2, PlacesStep
  <1>10. TotalInv' /\ total_threads' \in Int
    BY <1>2, <1>3, <1>4, <1>5, TotalStep DEF HalfwayPCs
  <1>11. CallerGood(c, r) /\ r.pc # "start" /\ r.pc \notin Using
    BY <1>4, PlainGood
  <1> QED
    BY <1>1, <1>2, <1>3, <1>4, <1>5, <1>7, <1>9, <1>10, <1>11, QuietAction DEF TypeOK

\* A freed Pthread goes to the cache, or is kept in hand to be given back.
LEMMA FreeStep ==
    ASSUME IndInv, NEW c \in Callers, Free(c)
    PROVE  IndInv'
  <1>1. /\ TypeOK /\ caller[c] \in CallerRecords /\ TargetGood(caller[c])
        /\ caller[c].work \in SUBSET Pthreads /\ caller[c].pc = "free"
        /\ HeldBy(caller[c]) = caller[c].work /\ caller[c].pc \notin Using \cup HalfwayPCs
    BY CallerNow DEF Free, HeldBy, Using, HalfwayPCs
  <1>2. PICK p \in caller[c].work :
            \/ /\ caller' = [caller EXCEPT ![c] = [pc |-> "release", target |-> p,
                                                  work |-> caller[c].work \ {p}]]
               /\ UNCHANGED free_threads
            \/ /\ caller' = [caller EXCEPT
                                ![c].pc = IF caller[c].work \ {p} = {} THEN "alloc" ELSE "free",
                                ![c].work = caller[c].work \ {p}]
               /\ free_threads' = Append(free_threads, p)
    BY DEF Free
  <1>3. /\ UNCHANGED <<pthread, run, threads, gc_list, heap, total_threads>>
        /\ p \in Pthreads /\ p \in HeldBy(caller[c])
    BY <1>1 DEF Free
  <1>4. InNoList(p)
    BY <1>3, HeldIsOut
  <1> DEFINE rest == caller[c].work \ {p}
  <1>5. CASE /\ caller' = [caller EXCEPT ![c] = [pc |-> "release", target |-> p, work |-> rest]]
             /\ UNCHANGED free_threads
    <2> DEFINE r == [pc |-> "release", target |-> p, work |-> rest]
    <2>1. /\ r \in CallerRecords /\ TargetGood(r) /\ r.pc = "release"
          /\ HeldBy(r) = HeldBy(caller[c])
      BY <1>1, <1>3 DEF CallerRecords, PCs, TargetGood, Joining, Using, HeldBy
    <2> HIDE DEF r
    <2>2. caller' = [caller EXCEPT ![c] = r] /\ UNCHANGED <<pthread, run, places>>
      BY <1>3, <1>5 DEF r, places
    <2>3. CallerGood(c, r) /\ r.pc # "start" /\ r.pc \notin Using
      BY <2>1, PlainGood
    <2>4. r.pc \notin HalfwayPCs
      BY <2>1 DEF HalfwayPCs
    <2> QED
      BY <1>1, <2>1, <2>2, <2>3, <2>4, QuietKept
  <1>6. CASE /\ caller' = [caller EXCEPT ![c].pc = IF rest = {} THEN "alloc" ELSE "free",
                                         ![c].work = rest]
             /\ free_threads' = Append(free_threads, p)
    <2> DEFINE pc == IF rest = {} THEN "alloc" ELSE "free"
               r == [pc |-> pc, target |-> caller[c].target, work |-> rest]
    <2>1. pc \in {"alloc", "free"} /\ (rest # {} => pc = "free")
      OBVIOUS
    <2>2. caller' = [caller EXCEPT ![c].pc = pc, ![c].work = rest]
      BY <1>6
    <2> HIDE DEF pc
    <2>3. caller' = [caller EXCEPT ![c] = r]
      BY <1>1, <2>2 DEF TypeOK, CallerRecords
    <2>4. /\ r \in CallerRecords /\ TargetGood(r) /\ r.pc \in {"alloc", "free"}
          /\ HeldBy(r) = rest
      BY <1>1, <2>1 DEF CallerRecords, PCs, TargetGood, Joining, Using, HeldBy
    <2> HIDE DEF r
    <2>5. /\ free_threads' \in Seq(Pthreads) /\ IsInjective(free_threads')
          /\ Cached' = Cached \cup {p}
      <3>1. IsInjective(free_threads) /\ p \notin ToSet(free_threads)
        BY <1>4 DEF IndInv, PlacesInv, InNoList, Cached
      <3> QED
        BY <1>1, <1>3, <1>6, <3>1, AppendCached DEF TypeOK, Cached
    <2>6. PlacesInv'
      <3>1. PlacesInv
        BY DEF IndInv
      <3>2. \A q \in Pthreads \ {p} : /\ q \in threads' <=> q \in threads
                                      /\ q \in gc_list' <=> q \in gc_list
                                      /\ q \in Cached' <=> q \in Cached
                                      /\ q \in heap' <=> q \in heap
                                      /\ q \in HeldBy(r) <=> q \in HeldBy(caller[c])
        BY <1>1, <1>3, <2>4, <2>5
      <3>3. p \notin HeldBy(r) /\ InOneList(p)'
        BY <1>3, <1>4, <2>4, <2>5 DEF InOneList, InNoList
      <3>4. \A q \in {p} : /\ q \in HeldBy(caller[c]) /\ q \notin HeldBy(r)
                           /\ InNoList(q) => InOneList(q)'
        BY <1>3, <3>3 DEF InOneList
      <3>5. {p} \in SUBSET Pthreads
        BY <1>3
      <3> QED
        BY <1>1, <2>3, <2>4, <2>5, <3>1, <3>2, <3>4, <3>5, PlacesStep
    <2>7. r.pc \notin HalfwayPCs
      BY <2>4 DEF HalfwayPCs
    <2>8. TotalInv' /\ total_threads' \in Int
      BY <1>1, <1>3, <2>3, <2>4, <2>7, TotalStep
    <2>9. CallerGood(c, r) /\ r.pc # "start" /\ r.pc \notin Using
      BY <2>4, PlainGood
    <2>10. \A q \in gc_list : q \in gc_list'
      BY <1>3
    <2> QED
      BY <1>1, <1>3, <2>3, <2>4, <2>5, <2>6, <2>8, <2>9, <2>10, QuietAction DEF TypeOK
  <1> QED
    BY <1>2, <1>5, <1>6

\* One Pthread goes from the hands of c to a list, or from a list to the hands of c.
LEMMA OneMoves ==
    ASSUME IndInv, NEW c \in Callers, NEW r \in CallerRecords, caller' = [caller EXCEPT ![c] = r],
           NEW p \in Pthreads, IsInjective(free_threads'),
           \A q \in Pthreads \ {p} :
                /\ q \in threads' <=> q \in threads
                /\ q \in gc_list' <=> q \in gc_list
                /\ q \in Cached' <=> q \in Cached
                /\ q \in heap' <=> q \in heap
                /\ q \in HeldBy(r) <=> q \in HeldBy(caller[c]),
           \/ /\ p \in HeldBy(caller[c]) /\ p \notin HeldBy(r)
              /\ InOneList(p)'
           \/ /\ p \in HeldBy(r) /\ p \notin HeldBy(caller[c])
              /\ ~InNoList(p) /\ InNoList(p)'
    PROVE  PlacesInv'
  <1>1. ~InNoList(p) => InOneList(p)
    BY ListedIsOne
  <1>2. \A q \in {p} :
            \/ /\ q \in HeldBy(caller[c]) /\ q \notin HeldBy(r)
               /\ InNoList(q) => InOneList(q)'
            \/ /\ q \notin HeldBy(caller[c]) /\ q \in HeldBy(r)
               /\ InOneList(q) /\ InNoList(q)'
    BY <1>1 DEF InOneList, InNoList
  <1>3. {p} \in SUBSET Pthreads /\ TypeOK /\ PlacesInv
    BY DEF IndInv
  <1> QED
    BY <1>2, <1>3, PlacesStep

LEMMA ReleaseStep ==
    ASSUME IndInv, NEW c \in Callers, Release(c)
    PROVE  IndInv'
  <1> DEFINE r == [pc |-> "uncount", target |-> None, work |-> caller[c].work]
  <1>1. /\ TypeOK /\ caller[c] \in CallerRecords /\ TargetGood(caller[c])
        /\ caller[c].work \in SUBSET Pthreads /\ caller[c].pc = "release"
    BY CallerNow DEF Release
  <1> PICK p \in Pthreads : p = caller[c].target
    BY <1>1 DEF TargetGood
  <1>2. /\ p \in Pthreads /\ p \notin caller[c].work
        /\ HeldBy(caller[c]) = caller[c].work \cup {p}
        /\ caller[c].pc \notin Using \cup HalfwayPCs
    BY <1>1 DEF TargetGood, HeldBy, Using, HalfwayPCs
  <1>3. caller' = [caller EXCEPT ![c] = r]
    BY <1>1, CallerForms DEF Release
  <1>4. /\ r \in CallerRecords /\ TargetGood(r) /\ r.pc = "uncount"
        /\ HeldBy(r) = caller[c].work
    BY <1>1 DEF CallerRecords, PCs, TargetGood, Joining, Using, HeldBy
  <1>5. /\ UNCHANGED <<pthread, run, threads, gc_list, free_threads, total_threads>>
        /\ heap' = heap \cup {p}
    BY DEF Release
  <1>6. InNoList(p)
    BY <1>2, HeldIsOut
  <1> HIDE DEF r
  <1>7. PlacesInv'
    <2>1. IsInjective(free_threads') /\ Cached' = Cached
      BY <1>5 DEF IndInv, PlacesInv, Cached
    <2>2. InOneList(p)'
      BY <1>5, <1>6, <2>1 DEF InNoList, InOneList
    <2>3. \A q \in Pthreads \ {p} :
                /\ q \in threads' <=> q \in threads
                /\ q \in gc_list' <=> q \in gc_list
                /\ q \in Cached' <=> q \in Cached
                /\ q \in heap' <=> q \in heap
                /\ q \in HeldBy(r) <=> q \in HeldBy(caller[c])
      BY <1>2, <1>4, <1>5, <2>1
    <2>4. p \in HeldBy(caller[c]) /\ p \notin HeldBy(r)
      BY <1>2, <1>4
    <2> QED
      BY <1>3, <1>4, <2>1, <2>2, <2>3, <2>4, OneMoves
  <1>8. TotalInv' /\ total_threads' \in Int
    BY <1>2, <1>3, <1>4, <1>5, <1>6, TotalStep DEF HalfwayPCs, InNoList
  <1>9. CallerGood(c, r) /\ r.pc # "start" /\ r.pc \notin Using
    BY <1>4, PlainGood
  <1>10. heap' \in SUBSET Pthreads
    BY <1>1, <1>2, <1>5 DEF TypeOK
  <1> QED
    BY <1>1, <1>2, <1>3, <1>4, <1>5, <1>7, <1>8, <1>9, <1>10, QuietAction DEF TypeOK

\* A new Pthread comes from the cache or from the heap, if there is one.
LEMMA AllocStep ==
    ASSUME IndInv, NEW c \in Callers, Alloc(c)
    PROVE  IndInv'
  <1>1. /\ TypeOK /\ caller[c] \in CallerRecords /\ TargetGood(caller[c])
        /\ caller[c].pc = "alloc"
    BY CallerNow DEF Alloc
  <1>2. /\ caller[c].work = {} /\ HeldBy(caller[c]) = {}
        /\ caller[c].pc \notin Using \cup HalfwayPCs
    BY <1>1 DEF TargetGood, HeldBy, Using, HalfwayPCs
  <1>3. UNCHANGED <<pthread, run, threads, gc_list, heap, total_threads>>
    BY DEF Alloc
  <1>4. CASE free_threads # <<>>
    <2> PICK p \in Pthreads : p = Last(free_threads)
      BY <1>1, <1>4, FrontCached DEF IndInv, PlacesInv, TypeOK
    <2> DEFINE r == [pc |-> "construct", target |-> p, work |-> {}]
    <2>1. IsInjective(free_threads) /\ free_threads \in Seq(Pthreads)
      BY <1>1 DEF IndInv, PlacesInv, TypeOK
    <2>2. Goto(c, "construct", p) /\ free_threads' = Front(free_threads)
      BY <1>4 DEF Alloc
    <2>3. /\ p \in Pthreads /\ p \in Cached
          /\ free_threads' \in Seq(Pthreads) /\ IsInjective(free_threads')
          /\ Cached' = Cached \ {p}
      BY <1>4, <2>1, <2>2, FrontCached DEF Cached
    <2>4. caller' = [caller EXCEPT ![c] = r]
      BY <1>1, <1>2, <2>2, CallerForms
    <2>5. /\ r \in CallerRecords /\ TargetGood(r) /\ r.pc = "construct"
          /\ HeldBy(r) = {p}
      BY <2>3 DEF CallerRecords, PCs, TargetGood, HeldBy
    <2> HIDE DEF r
    <2>6. PlacesInv'
      <3>1. ~InNoList(p)
        BY <2>3 DEF InNoList
      <3>2. InNoList(p)'
        BY <1>3, <2>3, <3>1, ListedIsOne DEF InNoList, InOneList
      <3> QED
        BY <1>2, <1>3, <2>3, <2>4, <2>5, <3>1, <3>2, OneMoves
    <2>7. r.pc \notin HalfwayPCs
      BY <2>5 DEF HalfwayPCs
    <2>8. TotalInv' /\ total_threads' \in Int
      BY <1>2, <1>3, <2>4, <2>5, <2>7, TotalStep
    <2>9. CallerGood(c, r) /\ r.pc # "start" /\ r.pc \notin Using
      BY <2>5, PlainGood
    <2> QED
      BY <1>1, <1>2, <1>3, <2>3, <2>4, <2>5, <2>6, <2>8, <2>9, QuietAction DEF TypeOK
  <1>5. CASE free_threads = <<>>
    <2>1. PICK pc \in {"idle", "count"} :
                caller' = [caller EXCEPT ![c] = [pc |-> pc, target |-> None, work |-> {}]]
      <3>1. Done(c) \/ Goto(c, "count", None)
        BY <1>5 DEF Alloc
      <3>2. Done(c) => caller' = [caller EXCEPT ![c] = [pc |-> "idle", target |-> None, work |-> {}]]
        BY <1>1, CallerForms DEF Idle
      <3>3. Goto(c, "count", None) =>
                caller' = [caller EXCEPT ![c] = [pc |-> "count", target |-> None, work |-> {}]]
        BY <1>1, <1>2, CallerForms
      <3> QED
        BY <3>1, <3>2, <3>3
    <2> DEFINE r == [pc |-> pc, target |-> None, work |-> {}]
    <2>2. /\ r \in CallerRecords /\ TargetGood(r) /\ r.pc \in {"idle", "count"}
          /\ HeldBy(r) = {} /\ r.pc \notin HalfwayPCs
      BY DEF CallerRecords, PCs, TargetGood, HeldBy, Joining, Using, HalfwayPCs
    <2> HIDE DEF r
    <2>3. caller' = [caller EXCEPT ![c] = r] /\ UNCHANGED <<pthread, run, places>>
      BY <1>3, <1>5, <2>1 DEF r, places, Alloc
    <2>4. CallerGood(c, r) /\ r.pc # "start" /\ r.pc \notin Using
      BY <2>2, PlainGood
    <2> QED
      BY <1>2, <2>2, <2>3, <2>4, QuietKept
  <1> QED
    BY <1>4, <1>5

LEMMA AllocateStep ==
    ASSUME IndInv, NEW c \in Callers, Allocate(c)
    PROVE  IndInv'
  <1>1. /\ TypeOK /\ caller[c] \in CallerRecords /\ TargetGood(caller[c])
        /\ caller[c].pc = "allocate"
    BY CallerNow DEF Allocate
  <1>2. /\ caller[c].work = {} /\ HeldBy(caller[c]) = {}
        /\ caller[c].pc \notin Using /\ caller[c].pc \in HalfwayPCs
    BY <1>1 DEF TargetGood, HeldBy, Using, HalfwayPCs
  <1>3. UNCHANGED <<pthread, run, threads, gc_list, free_threads, total_threads>>
    BY DEF Allocate
  <1>4. CASE heap = {}
    <2> DEFINE r == [pc |-> "giveup", target |-> None, work |-> {}]
    <2>1. Goto(c, "giveup", None) /\ UNCHANGED heap
      BY <1>4 DEF Allocate
    <2>2. caller' = [caller EXCEPT ![c] = r]
      BY <1>1, <1>2, <2>1, CallerForms
    <2>3. /\ r \in CallerRecords /\ TargetGood(r) /\ r.pc = "giveup"
          /\ HeldBy(r) = {} /\ r.pc \in HalfwayPCs
      BY DEF CallerRecords, PCs, TargetGood, HeldBy, Joining, Using, HalfwayPCs
    <2> HIDE DEF r
    <2>4. UNCHANGED <<pthread, run, places>>
      BY <1>3, <2>1 DEF places
    <2>5. CallerGood(c, r) /\ r.pc # "start" /\ r.pc \notin Using
      BY <2>3, PlainGood
    <2> QED
      BY <1>2, <2>2, <2>3, <2>4, <2>5, QuietKept
  <1>5. CASE heap # {}
    <2>1. PICK p \in heap : Goto(c, "construct", p) /\ heap' = heap \ {p}
      BY <1>5 DEF Allocate
    <2> DEFINE r == [pc |-> "construct", target |-> p, work |-> {}]
    <2>2. caller' = [caller EXCEPT ![c] = r]
      BY <1>1, <1>2, <2>1, CallerForms
    <2>3. p \in Pthreads /\ heap' \in SUBSET Pthreads
      BY <1>1, <2>1 DEF TypeOK
    <2>4. /\ r \in CallerRecords /\ TargetGood(r) /\ r.pc = "construct"
          /\ HeldBy(r) = {p} /\ r.pc \notin HalfwayPCs
      BY <2>3 DEF CallerRecords, PCs, TargetGood, HeldBy, HalfwayPCs
    <2> HIDE DEF r
    <2>5. PlacesInv'
      <3>1. ~InNoList(p) /\ p \in heap
        BY <2>1 DEF InNoList
      <3>2. IsInjective(free_threads') /\ Cached' = Cached
        BY <1>3 DEF IndInv, PlacesInv, Cached
      <3>3. InNoList(p)'
        BY <1>3, <2>1, <2>3, <3>1, <3>2, ListedIsOne DEF InNoList, InOneList
      <3> QED
        BY <1>2, <1>3, <2>1, <2>2, <2>3, <2>4, <3>1, <3>2, <3>3, OneMoves
    <2>6. TotalInv' /\ total_threads' \in Int
      BY <1>2, <1>3, <2>1, <2>2, <2>3, <2>4, TotalStep
    <2>7. CallerGood(c, r) /\ r.pc # "start" /\ r.pc \notin Using
      BY <2>4, PlainGood
    <2> QED
      BY <1>1, <1>2, <1>3, <2>2, <2>3, <2>4, <2>5, <2>6, <2>7, QuietAction DEF TypeOK
  <1> QED
    BY <1>4, <1>5

-----------------------------------------------------------------------------
(* A Pthread is constructed, linked and started. *)

\* Who has a Pthread in hand that is not linked is the only one with it as a target that matters.
LEMMA TargetsOf ==
    ASSUME IndInv, NEW c \in Callers, NEW d \in Callers \ {c}, NEW p \in Pthreads,
           p \in HeldBy(caller[c]), caller[d].target = p
    PROVE  /\ caller[d].pc \notin Joining \cup Using \cup {"start", "link"}
           /\ p \notin threads /\ p \notin gc_list /\ run[p] = "none"
  <1>1. InNoList(p)
    BY HeldIsOut
  <1>2. p \notin HeldBy(caller[d])
    BY <1>1 DEF IndInv, PlacesInv, AtOne, InOneList, InNoList, Holds
  <1>3. CallerGood(d, caller[d])
    BY DEF IndInv, CallersInv
  <1>4. run[p] = "none"
    BY <1>1 DEF IndInv, RunInv, RunGood, InNoList
  <1> QED
    BY <1>1, <1>2, <1>3, <1>4 DEF InNoList, HeldBy, CallerGood

\* The fields of a constructed Pthread that matter.
LEMMA RecordForms ==
    ASSUME NEW old \in PthreadRecords, NEW n \in Int, NEW b \in BOOLEAN
    PROVE  /\ [old EXCEPT !.refcount = n, !.detached = b] \in PthreadRecords
           /\ [old EXCEPT !.refcount = n, !.detached = b].refcount = n
           /\ [old EXCEPT !.refcount = n, !.detached = b].dead = old.dead
           /\ [old EXCEPT !.refcount = n, !.detached = b].terminated = old.terminated
BY DEF PthreadRecords

LEMMA ConstructStep ==
    ASSUME IndInv, NEW c \in Callers, Construct(c)
    PROVE  IndInv'
  <1>1. /\ TypeOK /\ caller[c] \in CallerRecords /\ TargetGood(caller[c])
        /\ caller[c].pc = "construct" /\ PlacesInv /\ TotalInv
    BY CallerNow DEF Construct, IndInv
  <1> PICK p \in Pthreads : p = caller[c].target
    BY <1>1 DEF TargetGood
  <1>2. /\ caller[c].work = {} /\ HeldBy(caller[c]) = {p} /\ caller[c].pc \notin HalfwayPCs
        /\ ~Uses(caller[c], p)
    BY <1>1 DEF TargetGood, HeldBy, HalfwayPCs, Using, Uses
  <1>3. InNoList(p) /\ run[p] = "none"
    <2>1. InNoList(p)
      BY <1>2, HeldIsOut
    <2> QED
      BY <2>1 DEF IndInv, RunInv, RunGood, InNoList
  <1>4. PICK f \in PthreadRecords :
            /\ pthread' = [pthread EXCEPT ![p] = f]
            /\ f.refcount = 1 /\ ~f.dead /\ ~f.terminated
    <2>1. PICK detached \in BOOLEAN :
            pthread' = [pthread EXCEPT ![p] = [Fresh EXCEPT !.refcount = 1, !.detached = detached]]
      BY DEF Construct
    <2>5. Fresh \in PthreadRecords
      BY DEF Fresh, PthreadRecords
    <2>2. PICK old \in PthreadRecords : old = Fresh
      BY <2>5
    <2>3. old.dead = FALSE /\ old.terminated = FALSE
      BY <2>2 DEF Fresh
    <2>4. pthread' = [pthread EXCEPT ![p] = [old EXCEPT !.refcount = 1, !.detached = detached]]
      BY <2>1, <2>2
    <2>6. PICK one \in Int : one = 1
      OBVIOUS
    <2> DEFINE new == [old EXCEPT !.refcount = one, !.detached = detached]
    <2>7. new \in PthreadRecords /\ new.refcount = one /\ ~new.dead /\ ~new.terminated
      BY <2>3, RecordForms
    <2>8. pthread' = [pthread EXCEPT ![p] = new]
      BY <2>4, <2>6
    <2> HIDE DEF new
    <2> QED
      BY <2>6, <2>7, <2>8
  <1> DEFINE r == [pc |-> "link", target |-> p, work |-> {}]
  <1>5. caller' = [caller EXCEPT ![c] = r]
    <2>1. Goto(c, "link", p)
      BY DEF Construct
    <2>2. caller' = [caller EXCEPT ![c] = [pc |-> "link", target |-> p, work |-> caller[c].work]]
      BY <1>1, <2>1, CallerForms
    <2> QED
      BY <1>2, <2>2
  <1>6. /\ r \in CallerRecords /\ TargetGood(r) /\ r.pc = "link" /\ r.target = p
        /\ HeldBy(r) = {p} /\ r.pc \notin HalfwayPCs /\ \A q : ~Uses(r, q) /\ ~Uses(caller[c], q)
    BY <1>1 DEF CallerRecords, PCs, TargetGood, HeldBy, HalfwayPCs, Joining, Using, Uses
  <1> HIDE DEF r
  <1>7. UNCHANGED <<run, places>> /\ UNCHANGED <<threads, gc_list, free_threads, heap, total_threads>>
    BY DEF Construct, places
  <1>8. /\ caller' \in [Callers -> CallerRecords]
        /\ caller'[c] = r /\ \A d \in Callers \ {c} : caller'[d] = caller[d]
    BY <1>1, <1>5, <1>6, CallerChange
  <1>9. /\ pthread' \in [Pthreads -> PthreadRecords] /\ pthread'[p] = f
        /\ \A q \in Pthreads \ {p} : pthread'[q] = pthread[q]
    BY <1>1, <1>4 DEF TypeOK
  <1>10. TypeOK'
    BY <1>1, <1>7, <1>8, <1>9 DEF TypeOK
  <1>11. CallersInv'
    <2>1. CallerGood(c, r)'
      BY <1>3, <1>4, <1>6, <1>7, <1>9 DEF CallerGood, JoinGood, StartGood, TargetGood, Joining, Using
    <2>2. ASSUME NEW d \in Callers \ {c} PROVE CallerGood(d, caller[d])'
      <3>1. CallerGood(d, caller[d])
        BY DEF IndInv, CallersInv
      <3>2. CASE caller[d].target = p
        <4>1. caller[d].pc \notin Joining \cup Using \cup {"start", "link"}
          BY <1>2, <3>2, TargetsOf
        <4> QED
          BY <1>8, <3>1, <4>1 DEF CallerGood, JoinGood, StartGood, TargetGood
      <3>3. CASE caller[d].target # p
        BY <1>7, <1>8, <1>9, <3>1, <3>3 DEF CallerGood, JoinGood, StartGood, TargetGood, Joining
      <3> QED
        BY <3>2, <3>3
    <2> QED
      BY <1>1, <1>5, <1>6, <2>1, <2>2, CallersStep DEF IndInv
  <1>12. RunInv'
    <2>1. ASSUME NEW q \in Pthreads PROVE RunGood(q)'
      BY <1>3, <1>7, <1>9 DEF IndInv, RunInv, RunGood
    <2> QED
      BY <2>1 DEF RunInv
  <1>13. RefsInv'
    <2>1. ASSUME NEW q \in threads' PROVE Refs(q)'
      <3>1. q \in threads /\ q # p /\ q \in Pthreads
        BY <1>1, <1>3, <1>7 DEF InNoList, TypeOK
      <3>2. Users(q)' = Users(q)
        BY <1>6, <1>8, UsersStep
      <3> QED
        BY <1>7, <1>9, <3>1, <3>2 DEF IndInv, RefsInv, Refs
    <2> QED
      BY <2>1 DEF RefsInv
  <1>14. PlacesInv' /\ TotalInv'
    <2>1. \A d \in Callers : /\ HeldBy(caller'[d]) = HeldBy(caller[d])
                             /\ caller'[d].pc \in HalfwayPCs <=> caller[d].pc \in HalfwayPCs
      BY <1>2, <1>6, <1>8
    <2> QED
      BY <1>1, <1>7, <2>1, PlacesKept
  <1> QED
    BY <1>10, <1>11, <1>12, <1>13, <1>14 DEF IndInv

\* A Pthread nobody uses has no users to count.
LEMMA NoUsers ==
    ASSUME NEW p, \A c \in Callers : ~Uses(caller[c], p)
    PROVE  Cardinality(Users(p)) = 0
  <1>1. Users(p) = {}
    BY DEF Users, Uses
  <1> QED
    BY <1>1, FS_EmptySet

LEMMA LinkStep ==
    ASSUME IndInv, NEW c \in Callers, Link(c)
    PROVE  IndInv'
  <1>1. /\ TypeOK /\ caller[c] \in CallerRecords /\ TargetGood(caller[c]) /\ StartGood(caller[c])
        /\ caller[c].pc = "link"
    BY CallerNow DEF Link, IndInv, CallersInv, CallerGood
  <1> PICK p \in Pthreads : p = caller[c].target
    BY <1>1 DEF TargetGood
  <1>2. /\ caller[c].work = {} /\ HeldBy(caller[c]) = {p} /\ caller[c].pc \notin HalfwayPCs
        /\ \A q : ~Uses(caller[c], q)
    BY <1>1 DEF TargetGood, HeldBy, HalfwayPCs, Using, Uses
  <1>3. /\ InNoList(p) /\ run[p] = "none" /\ ~pthread[p].dead /\ ~pthread[p].terminated
        /\ pthread[p].refcount = 1
    BY <1>1, <1>2, HeldIsOut DEF StartGood
  <1> DEFINE r == [pc |-> "start", target |-> p, work |-> {}]
  <1>4. caller' = [caller EXCEPT ![c] = r]
    <2>1. Goto(c, "start", p)
      BY DEF Link
    <2>2. caller' = [caller EXCEPT ![c] = [pc |-> "start", target |-> p, work |-> caller[c].work]]
      BY <1>1, <2>1, CallerForms
    <2> QED
      BY <1>2, <2>2
  <1>5. /\ r \in CallerRecords /\ TargetGood(r) /\ r.pc = "start" /\ r.target = p
        /\ HeldBy(r) = {} /\ r.pc \notin HalfwayPCs /\ \A q : ~Uses(r, q)
    BY <1>1 DEF CallerRecords, PCs, TargetGood, HeldBy, HalfwayPCs, Joining, Using, Uses
  <1> HIDE DEF r
  <1>6. UNCHANGED <<pthread, run, gc_list, free_threads, heap, total_threads>>
        /\ threads' = threads \cup {p}
    BY DEF Link
  <1>7. /\ caller' \in [Callers -> CallerRecords]
        /\ caller'[c] = r /\ \A d \in Callers \ {c} : caller'[d] = caller[d]
    BY <1>1, <1>4, <1>5, CallerChange
  <1>8. TypeOK'
    BY <1>1, <1>6, <1>7 DEF TypeOK
  <1>9. \A d \in Callers \ {c} :
            caller[d].target = p => caller[d].pc \notin Joining \cup Using \cup {"start", "link"}
    BY <1>2, TargetsOf
  <1>10. CallersInv'
    <2>1. CallerGood(c, r)'
      BY <1>3, <1>5, <1>6 DEF CallerGood, JoinGood, StartGood, TargetGood, Joining, Using
    <2>2. ASSUME NEW d \in Callers \ {c} PROVE CallerGood(d, caller[d])'
      <3>1. CallerGood(d, caller[d])
        BY DEF IndInv, CallersInv
      <3> QED
        BY <1>6, <1>7, <3>1 DEF CallerGood, JoinGood, StartGood, TargetGood
    <2>3. \A d \in Callers \ {c} : ~(caller[d].pc = "start" /\ caller[d].target = r.target)
      BY <1>5, <1>9
    <2> QED
      BY <1>1, <1>4, <1>5, <2>1, <2>2, <2>3, CallersStep DEF IndInv
  <1>11. RunInv'
    BY <1>6 DEF IndInv, RunInv, RunGood
  <1>12. RefsInv'
    <2>1. ASSUME NEW q \in threads' PROVE Refs(q)'
      <3>1. Users(q)' = Users(q)
        BY <1>2, <1>5, <1>7, UsersStep
      <3>2. CASE q # p
        BY <1>6, <3>1, <3>2 DEF IndInv, RefsInv, Refs
      <3>3. CASE q = p
        <4>1. \A d \in Callers : ~Uses(caller[d], p)
          BY <1>2, <1>9 DEF Uses
        <4>2. Cardinality(Users(p)') = 0
          BY <3>1, <3>3, <4>1, NoUsers
        <4> QED
          BY <1>3, <1>6, <3>3, <4>2 DEF Refs
      <3> QED
        BY <3>2, <3>3
    <2> QED
      BY <2>1 DEF RefsInv
  <1>13. PlacesInv'
    <2>1. IsInjective(free_threads') /\ Cached' = Cached
      BY <1>6 DEF IndInv, PlacesInv, Cached
    <2>2. InOneList(p)'
      BY <1>3, <1>6, <2>1 DEF InNoList, InOneList
    <2>3. \A q \in Pthreads \ {p} :
                /\ q \in threads' <=> q \in threads
                /\ q \in gc_list' <=> q \in gc_list
                /\ q \in Cached' <=> q \in Cached
                /\ q \in heap' <=> q \in heap
                /\ q \in HeldBy(r) <=> q \in HeldBy(caller[c])
      BY <1>2, <1>5, <1>6, <2>1
    <2>4. p \in HeldBy(caller[c]) /\ p \notin HeldBy(r)
      BY <1>2, <1>5
    <2> QED
      BY <1>4, <1>5, <2>1, <2>2, <2>3, <2>4, OneMoves
  <1>14. TotalInv'
    BY <1>2, <1>4, <1>5, <1>6, TotalStep
  <1> QED
    BY <1>8, <1>10, <1>11, <1>12, <1>13, <1>14 DEF IndInv

\* The thread of a new Pthread begins to run.
LEMMA StartStep ==
    ASSUME IndInv, NEW c \in Callers, Start(c)
    PROVE  IndInv'
  <1>1. /\ TypeOK /\ caller[c] \in CallerRecords /\ CallerGood(c, caller[c])
        /\ caller[c].pc = "start" /\ PlacesInv /\ TotalInv
    BY CallerNow DEF Start, IndInv, CallersInv
  <1> PICK p \in Pthreads : p = caller[c].target
    BY <1>1 DEF CallerGood, TargetGood
  <1>2. /\ caller[c].work = {} /\ HeldBy(caller[c]) = {} /\ caller[c].pc \notin HalfwayPCs
        /\ \A q : ~Uses(caller[c], q)
    BY <1>1 DEF CallerGood, TargetGood, HeldBy, HalfwayPCs, Using, Uses
  <1>3. /\ p \in threads /\ run[p] = "none" /\ ~pthread[p].dead /\ ~pthread[p].terminated
    BY <1>1 DEF CallerGood, StartGood
  <1> DEFINE r == [pc |-> "affinity", target |-> p, work |-> {}]
  <1>4. caller' = [caller EXCEPT ![c] = r]
    <2>1. Goto(c, "affinity", p)
      BY DEF Start
    <2>2. caller' = [caller EXCEPT ![c] = [pc |-> "affinity", target |-> p, work |-> caller[c].work]]
      BY <1>1, <2>1, CallerForms
    <2> QED
      BY <1>2, <2>2
  <1>5. /\ r \in CallerRecords /\ TargetGood(r) /\ r.pc = "affinity"
        /\ HeldBy(r) = {} /\ r.pc \notin HalfwayPCs /\ \A q : ~Uses(r, q)
    BY <1>1 DEF CallerRecords, PCs, TargetGood, HeldBy, HalfwayPCs, Joining, Using, Uses
  <1> HIDE DEF r
  <1>6. /\ UNCHANGED <<pthread, places>>
        /\ UNCHANGED <<threads, gc_list, free_threads, heap, total_threads>>
        /\ run' = [run EXCEPT ![p] = "running"]
    BY DEF Start, places
  <1>7. /\ caller' \in [Callers -> CallerRecords]
        /\ caller'[c] = r /\ \A d \in Callers \ {c} : caller'[d] = caller[d]
    BY <1>1, <1>4, <1>5, CallerChange
  <1>8. /\ run'[p] = "running" /\ \A q \in Pthreads \ {p} : run'[q] = run[q]
        /\ run' \in [Pthreads -> {"none", "running", "collect", "publish"}]
    BY <1>1, <1>6 DEF TypeOK
  <1>9. TypeOK'
    BY <1>1, <1>6, <1>7, <1>8 DEF TypeOK
  <1>10. CallersInv'
    <2>1. CallerGood(c, r)'
      BY <1>5 DEF CallerGood, JoinGood, StartGood, TargetGood, Joining, Using
    <2>2. ASSUME NEW d \in Callers \ {c} PROVE CallerGood(d, caller[d])'
      <3>1. CallerGood(d, caller[d])
        BY DEF IndInv, CallersInv
      <3>2. CASE caller[d].target = p /\ caller[d].pc \in {"link", "start"}
        <4>1. caller[d].pc = "link"
          BY <1>1, <3>2 DEF IndInv, CallersInv, OneStarter
        <4>2. p \in HeldBy(caller[d])
          BY <3>2, <4>1 DEF HeldBy
        <4>3. InNoList(p)
          BY <4>2, HeldIsOut
        <4> QED
          BY <1>3, <4>3 DEF InNoList
      <3>3. CASE ~(caller[d].target = p /\ caller[d].pc \in {"link", "start"})
        BY <1>6, <1>7, <1>8, <3>1, <3>3 DEF CallerGood, JoinGood, StartGood, TargetGood
      <3> QED
        BY <3>2, <3>3
    <2> QED
      BY <1>1, <1>4, <1>5, <2>1, <2>2, CallersStep DEF IndInv
  <1>11. RunInv'
    <2>1. ASSUME NEW q \in Pthreads PROVE RunGood(q)'
      BY <1>3, <1>6, <1>8 DEF IndInv, RunInv, RunGood
    <2> QED
      BY <2>1 DEF RunInv
  <1>12. RefsInv'
    <2>1. ASSUME NEW q \in threads' PROVE Refs(q)'
      <3>1. q \in threads /\ q \in Pthreads
        BY <1>1, <1>6 DEF TypeOK
      <3>2. Users(q)' = Users(q)
        BY <1>2, <1>5, <1>7, UsersStep
      <3>3. run'[q] = "collect" <=> run[q] = "collect"
        BY <1>3, <1>8, <3>1
      <3> QED
        BY <1>6, <3>1, <3>2, <3>3 DEF IndInv, RefsInv, Refs
    <2> QED
      BY <2>1 DEF RefsInv
  <1>13. PlacesInv' /\ TotalInv'
    <2>1. \A d \in Callers : /\ HeldBy(caller'[d]) = HeldBy(caller[d])
                             /\ caller'[d].pc \in HalfwayPCs <=> caller[d].pc \in HalfwayPCs
      BY <1>2, <1>5, <1>7
    <2> QED
      BY <1>1, <1>6, <2>1, PlacesKept
  <1> QED
    BY <1>9, <1>10, <1>11, <1>12, <1>13 DEF IndInv

-----------------------------------------------------------------------------
(* Joining, detaching and references: the fields of a linked Pthread change. *)

\* The fields a step can change, one by one.
LEMMA Refcounted ==
    ASSUME NEW old \in PthreadRecords, NEW n \in Int
    PROVE  /\ [old EXCEPT !.refcount = n] \in PthreadRecords
           /\ [old EXCEPT !.refcount = n].refcount = n
           /\ [old EXCEPT !.refcount = n].dead = old.dead
           /\ [old EXCEPT !.refcount = n].detached = old.detached
           /\ [old EXCEPT !.refcount = n].joiner = old.joiner
           /\ [old EXCEPT !.refcount = n].terminated = old.terminated
BY DEF PthreadRecords

LEMMA JoinerSet ==
    ASSUME NEW old \in PthreadRecords, NEW j \in Callers \cup {None}
    PROVE  /\ [old EXCEPT !.joiner = j] \in PthreadRecords
           /\ [old EXCEPT !.joiner = j].refcount = old.refcount
           /\ [old EXCEPT !.joiner = j].dead = old.dead
           /\ [old EXCEPT !.joiner = j].detached = old.detached
           /\ [old EXCEPT !.joiner = j].joiner = j
           /\ [old EXCEPT !.joiner = j].terminated = old.terminated
BY DEF PthreadRecords

LEMMA DetachedSet ==
    ASSUME NEW old \in PthreadRecords, NEW b \in BOOLEAN
    PROVE  /\ [old EXCEPT !.detached = b] \in PthreadRecords
           /\ [old EXCEPT !.detached = b].refcount = old.refcount
           /\ [old EXCEPT !.detached = b].dead = old.dead
           /\ [old EXCEPT !.detached = b].detached = b
           /\ [old EXCEPT !.detached = b].joiner = old.joiner
           /\ [old EXCEPT !.detached = b].terminated = old.terminated
BY DEF PthreadRecords

\* What Pin adds to the reference count.
LEMMA Pinned ==
    ASSUME NEW f \in PthreadRecords
    PROVE  /\ Pin(f) \in PthreadRecords
           /\ Pin(f).refcount = f.refcount + (IF ShouldCollect(f) THEN 1 ELSE 0)
           /\ Pin(f).dead = f.dead /\ Pin(f).terminated = f.terminated
           /\ Pin(f).detached = f.detached /\ Pin(f).joiner = f.joiner
  <1>1. f.refcount \in Int /\ f.refcount + 1 \in Int
    BY DEF PthreadRecords
  <1>2. CASE ShouldCollect(f)
    <2>1. Pin(f) = [f EXCEPT !.refcount = f.refcount + 1]
      BY <1>2 DEF Pin
    <2> QED
      BY <1>1, <1>2, <2>1, Refcounted
  <1>3. CASE ~ShouldCollect(f)
    <2>1. Pin(f) = f
      BY <1>3 DEF Pin
    <2> QED
      BY <1>1, <1>3, <2>1
  <1> QED
    BY <1>2, <1>3

\* The conditions on the new fields f of p and the next record r of the caller c.
Refers(c, p, f, r) ==
    /\ f.dead = pthread[p].dead /\ f.terminated = pthread[p].terminated
    /\ caller[c].pc \in {"idle"} \cup Joining \cup Using
    /\ caller[c].pc \in Joining \cup Using => caller[c].target = p
    /\ r.work = {} /\ r.pc \in {"idle"} \cup Joining \cup Using
    /\ r.pc \in Joining \cup Using => r.target = p
    /\ r.pc \in Joining => f.joiner = c /\ ~f.detached
    /\ \A d \in Callers \ {c} : caller[d].pc \in Joining /\ caller[d].target = p =>
                                f.joiner = d /\ ~f.detached
    /\ f.refcount = pthread[p].refcount + (IF Uses(r, p) THEN 1 ELSE 0)
                                        - (IF Uses(caller[c], p) THEN 1 ELSE 0)

\* A caller changes the fields of the linked p and goes on with it or is done: its own count of
\* references, the joiners and the rest of the state stay right.
LEMMA ReferStep ==
    ASSUME IndInv, NEW c \in Callers, NEW p \in threads,
           NEW f \in PthreadRecords, NEW r \in CallerRecords,
           pthread' = [pthread EXCEPT ![p] = f], caller' = [caller EXCEPT ![c] = r],
           UNCHANGED <<run, places>>,
           Refers(c, p, f, r)
    PROVE  IndInv'
  <1> USE DEF Refers
  <1>1. /\ TypeOK /\ caller[c] \in CallerRecords /\ TargetGood(caller[c]) /\ PlacesInv /\ TotalInv
        /\ p \in Pthreads
    BY CallerNow DEF IndInv, TypeOK
  <1>2. /\ caller[c].work = {} /\ HeldBy(caller[c]) = {} /\ caller[c].pc \notin HalfwayPCs
        /\ \A q : q # p => ~Uses(caller[c], q)
    BY <1>1 DEF TargetGood, HeldBy, HalfwayPCs, Joining, Using, Uses
  <1>3. /\ TargetGood(r) /\ HeldBy(r) = {} /\ r.pc \notin HalfwayPCs
        /\ r.pc \notin {"start", "link"} /\ \A q : q # p => ~Uses(r, q)
    BY <1>1 DEF TargetGood, HeldBy, HalfwayPCs, Joining, Using, Uses
  <1>4. UNCHANGED <<threads, gc_list, free_threads, heap, total_threads>>
    BY DEF places
  <1>5. /\ caller' \in [Callers -> CallerRecords]
        /\ caller'[c] = r /\ \A d \in Callers \ {c} : caller'[d] = caller[d]
    BY <1>1, CallerChange
  <1>6. /\ pthread' \in [Pthreads -> PthreadRecords] /\ pthread'[p] = f
        /\ \A q \in Pthreads \ {p} : pthread'[q] = pthread[q]
    BY <1>1 DEF TypeOK
  <1>7. TypeOK'
    BY <1>1, <1>4, <1>5, <1>6 DEF TypeOK
  <1>8. CallersInv'
    <2>1. CallerGood(c, r)'
      BY <1>3, <1>4, <1>6 DEF CallerGood, JoinGood, StartGood, TargetGood
    <2>2. ASSUME NEW d \in Callers \ {c} PROVE CallerGood(d, caller[d])'
      <3>1. CallerGood(d, caller[d])
        BY DEF IndInv, CallersInv
      <3>2. CASE caller[d].target = p
        <4>1. caller[d].pc # "link"
          <5>1. CASE caller[d].pc = "link"
            <6>1. p \in HeldBy(caller[d])
              BY <3>2, <5>1 DEF HeldBy
            <6>2. InNoList(p)
              BY <1>1, <6>1, HeldIsOut
            <6> QED
              BY <6>2 DEF InNoList
          <5> QED
            BY <5>1
        <4>2. caller[d].pc = "start" => run[p] = "none" /\ ~f.dead /\ ~f.terminated
          BY <3>1, <3>2 DEF CallerGood, StartGood
        <4> QED
          BY <1>4, <1>5, <1>6, <3>1, <3>2, <4>1, <4>2 DEF CallerGood, JoinGood, StartGood, TargetGood
      <3>3. CASE caller[d].target # p
        BY <1>4, <1>5, <1>6, <3>1, <3>3 DEF CallerGood, JoinGood, StartGood, TargetGood, Joining
      <3> QED
        BY <3>2, <3>3
    <2> QED
      BY <1>1, <1>3, <2>1, <2>2, CallersStep DEF IndInv
  <1>9. RunInv'
    <2>1. ASSUME NEW q \in Pthreads PROVE RunGood(q)'
      <3>1. RunGood(q)
        BY DEF IndInv, RunInv
      <3> QED
        BY <1>4, <1>6, <3>1 DEF RunGood
    <2> QED
      BY <2>1 DEF RunInv
  <1>10. RefsInv'
    <2>1. ASSUME NEW q \in threads' PROVE Refs(q)'
      <3>1. q \in threads /\ q \in Pthreads /\ Refs(q)
        BY <1>1, <1>4 DEF TypeOK, IndInv, RefsInv
      <3>2. CASE q # p
        <4>1. Users(q)' = Users(q)
          BY <1>2, <1>3, <1>5, <3>2, UsersStep
        <4> QED
          BY <1>6, <3>1, <3>2, <4>1 DEF Refs
      <3>3. CASE q = p
        <4> DEFINE users == Cardinality(Users(p))
        <4>1. /\ users \in Nat /\ users' \in Nat
              /\ users' = users + (IF Uses(r, p) THEN 1 ELSE 0)
                                - (IF Uses(caller[c], p) THEN 1 ELSE 0)
          <5>1. (Uses(r, p) <=> Uses(caller[c], p)) => users' = users
            BY <1>5, UsersStep
          <5> QED
            BY <1>5, <5>1, UsersStep
        <4>2. pthread[p].refcount = (IF pthread[p].dead THEN 0 ELSE 1) + users
                                    + (IF run[p] = "collect" THEN 1 ELSE 0)
          BY <3>1, <3>3 DEF Refs
        <4> HIDE DEF users
        <4>3. f.refcount = (IF f.dead THEN 0 ELSE 1) + users'
                           + (IF run[p] = "collect" THEN 1 ELSE 0)
          BY <4>1, <4>2
        <4> QED
          BY <1>6, <3>3, <4>1, <4>3 DEF Refs, users
      <3> QED
        BY <3>2, <3>3
    <2> QED
      BY <2>1 DEF RefsInv
  <1>11. PlacesInv' /\ TotalInv'
    <2>1. \A d \in Callers : /\ HeldBy(caller'[d]) = HeldBy(caller[d])
                             /\ caller'[d].pc \in HalfwayPCs <=> caller[d].pc \in HalfwayPCs
      BY <1>2, <1>3, <1>5
    <2> QED
      BY <1>1, <2>1, PlacesKept
  <1> QED
    BY <1>7, <1>8, <1>9, <1>10, <1>11 DEF IndInv

LEMMA JoinStep ==
    ASSUME IndInv, NEW c \in Callers, NEW p \in Pthreads, Join(c, p)
    PROVE  IndInv'
  <1>1. /\ TypeOK /\ caller[c] \in CallerRecords /\ TargetGood(caller[c]) /\ CallersInv
        /\ caller[c].pc = "idle" /\ p \in threads /\ ~pthread[p].detached
        /\ pthread[p].joiner = None /\ caller[c].work = {} /\ pthread[p] \in PthreadRecords
    BY CallerNow DEF Join, IndInv, TargetGood, TypeOK
  <1> DEFINE f == [pthread[p] EXCEPT !.joiner = c]
             r == [pc |-> "join", target |-> p, work |-> {}]
  <1>2. /\ f \in PthreadRecords /\ f.joiner = c /\ f.refcount = pthread[p].refcount
        /\ f.dead = pthread[p].dead /\ f.detached = pthread[p].detached
        /\ f.terminated = pthread[p].terminated
    BY <1>1, JoinerSet
  <1>3. pthread' = [pthread EXCEPT ![p] = f] /\ UNCHANGED <<run, places>>
    BY DEF Join
  <1>4. caller' = [caller EXCEPT ![c] = r]
    <2>1. Goto(c, "join", p)
      BY DEF Join
    <2>2. caller' = [caller EXCEPT ![c] = [pc |-> "join", target |-> p, work |-> caller[c].work]]
      BY <1>1, <2>1, CallerForms
    <2> QED
      BY <1>1, <2>2
  <1>5. /\ r \in CallerRecords /\ r.pc = "join" /\ r.target = p /\ r.work = {}
        /\ ~Uses(r, p) /\ ~Uses(caller[c], p) /\ r.pc \in Joining
    BY <1>1 DEF CallerRecords, PCs, Joining, Using, Uses
  <1>6. ASSUME NEW d \in Callers \ {c}, caller[d].pc \in Joining, caller[d].target = p
        PROVE  FALSE
    <2>1. pthread[p].joiner = d
      BY <1>1, <1>6 DEF CallersInv, CallerGood, JoinGood
    <2> QED
      BY <1>1, <2>1, BoundAssumption
  <1>7. f.refcount = pthread[p].refcount + 0 - 0
    BY <1>1, <1>2 DEF PthreadRecords
  <1> HIDE DEF f, r
  <1>9. f.refcount = pthread[p].refcount + (IF Uses(r, p) THEN 1 ELSE 0)
                                         - (IF Uses(caller[c], p) THEN 1 ELSE 0)
    BY <1>5, <1>7
  <1>10. ~f.detached /\ caller[c].pc \notin Joining \cup Using
    BY <1>1, <1>2 DEF Joining, Using
  <1>8. Refers(c, p, f, r)
    BY <1>1, <1>2, <1>5, <1>6, <1>9, <1>10 DEF Refers
  <1> QED
    BY <1>1, <1>2, <1>3, <1>4, <1>5, <1>8, ReferStep

LEMMA BackoutStep ==
    ASSUME IndInv, NEW c \in Callers, BackoutJoin(c)
    PROVE  IndInv'
  <1>1. /\ TypeOK /\ caller[c] \in CallerRecords /\ CallersInv /\ CallerGood(c, caller[c])
        /\ caller[c].pc = "backout" /\ caller[c].pc \in Joining
    BY CallerNow DEF BackoutJoin, IndInv, CallersInv, Joining
  <1> PICK p \in threads : p = caller[c].target
    BY <1>1 DEF CallerGood
  <1>2. pthread[p] \in PthreadRecords /\ None \in Callers \cup {None} /\ p \in Pthreads
    BY <1>1 DEF TypeOK
  <1> DEFINE f == [pthread[p] EXCEPT !.joiner = None]
  <1>3. /\ f \in PthreadRecords /\ f.refcount = pthread[p].refcount
        /\ f.dead = pthread[p].dead /\ f.detached = pthread[p].detached
        /\ f.terminated = pthread[p].terminated
    BY <1>2, JoinerSet
  <1>4. /\ pthread' = [pthread EXCEPT ![p] = f] /\ UNCHANGED <<run, places>>
        /\ caller' = [caller EXCEPT ![c] = Idle]
    BY <1>1, CallerForms DEF BackoutJoin
  <1>5. /\ Idle \in CallerRecords /\ Idle.pc = "idle" /\ Idle.work = {}
        /\ ~Uses(Idle, p) /\ ~Uses(caller[c], p) /\ Idle.pc \notin Joining \cup Using
    BY <1>1 DEF CallerRecords, PCs, Joining, Using, Uses, Idle
  <1>6. ASSUME NEW d \in Callers \ {c}, caller[d].pc \in Joining, caller[d].target = p
        PROVE  FALSE
    <2>1. pthread[p].joiner = d /\ pthread[p].joiner = c
      BY <1>1, <1>6 DEF CallersInv, CallerGood, JoinGood
    <2> QED
      BY <2>1
  <1>7. f.refcount = pthread[p].refcount + 0 - 0
    BY <1>2, <1>3 DEF PthreadRecords
  <1> HIDE DEF f
  <1>8. Refers(c, p, f, Idle)
    BY <1>1, <1>3, <1>5, <1>6, <1>7 DEF Refers
  <1> QED
    BY <1>3, <1>4, <1>5, <1>8, ReferStep

\* Joined, Detach and RefDelete: new fields, and perhaps a Pthread to collect.
LEMMA SettleStep ==
    ASSUME IndInv, NEW c \in Callers, NEW p \in threads, NEW fields \in PthreadRecords,
           SettleAndTryCollect(c, p, fields), UNCHANGED <<run, places>>,
           fields.dead = pthread[p].dead, fields.terminated = pthread[p].terminated,
           caller[c].pc \in {"idle"} \cup Joining \cup Using,
           caller[c].pc \in Joining \cup Using => caller[c].target = p,
           \A d \in Callers \ {c} : caller[d].pc \in Joining /\ caller[d].target = p =>
                                        fields.joiner = d /\ ~fields.detached,
           fields.refcount = pthread[p].refcount - (IF Uses(caller[c], p) THEN 1 ELSE 0)
    PROVE  IndInv'
  <1> DEFINE f == Pin(fields)
  <1>1. /\ TypeOK /\ caller[c] \in CallerRecords /\ TargetGood(caller[c]) /\ p \in Pthreads
        /\ caller[c].work = {}
    BY CallerNow DEF IndInv, TypeOK, TargetGood, Joining, Using
  <1>2. /\ f \in PthreadRecords
        /\ f.refcount = fields.refcount + (IF ShouldCollect(fields) THEN 1 ELSE 0)
        /\ f.dead = fields.dead /\ f.terminated = fields.terminated
        /\ f.detached = fields.detached /\ f.joiner = fields.joiner
    BY Pinned
  <1>3. pthread' = [pthread EXCEPT ![p] = f]
    BY DEF SettleAndTryCollect
  <1>4. fields.refcount \in Int /\ pthread[p].refcount \in Int
    BY <1>1 DEF PthreadRecords, TypeOK
  <1> HIDE DEF f
  <1>5. CASE ShouldCollect(fields)
    <2> DEFINE r == [pc |-> "collect", target |-> p, work |-> {}]
    <2>1. Goto(c, "collect", p)
      BY <1>5 DEF SettleAndTryCollect
    <2>2. caller' = [caller EXCEPT ![c] = [pc |-> "collect", target |-> p, work |-> caller[c].work]]
      BY <1>1, <2>1, GotoForm
    <2>3. caller' = [caller EXCEPT ![c] = r]
      BY <1>1, <2>2
    <2>4. /\ r \in CallerRecords /\ r.target = p /\ r.work = {}
          /\ Uses(r, p) /\ r.pc \in Using /\ r.pc \notin Joining
      BY <1>1 DEF CallerRecords, PCs, Joining, Using, Uses
    <2>5. f.refcount = pthread[p].refcount + (IF Uses(r, p) THEN 1 ELSE 0)
                                           - (IF Uses(caller[c], p) THEN 1 ELSE 0)
      BY <1>2, <1>4, <1>5, <2>4
    <2> HIDE DEF r
    <2>6. Refers(c, p, f, r)
      BY <1>1, <1>2, <2>4, <2>5 DEF Refers
    <2> QED
      BY <1>2, <1>3, <2>3, <2>4, <2>6, ReferStep
  <1>6. CASE ~ShouldCollect(fields)
    <2>1. caller' = [caller EXCEPT ![c] = Idle]
      BY <1>1, <1>6, CallerForms DEF SettleAndTryCollect
    <2>2. /\ Idle \in CallerRecords /\ Idle.pc = "idle" /\ Idle.work = {}
          /\ ~Uses(Idle, p) /\ Idle.pc \notin Joining \cup Using
      BY <1>1 DEF CallerRecords, PCs, Joining, Using, Uses, Idle
    <2>3. f.refcount = pthread[p].refcount + (IF Uses(Idle, p) THEN 1 ELSE 0)
                                           - (IF Uses(caller[c], p) THEN 1 ELSE 0)
      BY <1>2, <1>4, <1>6, <2>2
    <2>4. Refers(c, p, f, Idle)
      BY <1>1, <1>2, <2>2, <2>3 DEF Refers
    <2> QED
      BY <1>2, <1>3, <2>1, <2>2, <2>4, ReferStep
  <1> QED
    BY <1>5, <1>6

LEMMA JoinedStep ==
    ASSUME IndInv, NEW c \in Callers, Joined(c)
    PROVE  IndInv'
  <1>1. /\ TypeOK /\ caller[c] \in CallerRecords /\ CallersInv /\ CallerGood(c, caller[c])
        /\ caller[c].pc = "joined" /\ caller[c].pc \in Joining /\ caller[c].pc \notin Using
    BY CallerNow DEF Joined, IndInv, CallersInv, Joining, Using
  <1> PICK p \in threads : p = caller[c].target
    BY <1>1 DEF CallerGood
  <1>2. pthread[p] \in PthreadRecords /\ p \in Pthreads
    BY <1>1 DEF TypeOK
  <1> PICK detached \in BOOLEAN : detached = TRUE
    OBVIOUS
  <1> DEFINE g == [pthread[p] EXCEPT !.detached = detached]
             f == [g EXCEPT !.joiner = None]
  <1>3. /\ g \in PthreadRecords /\ g.refcount = pthread[p].refcount
        /\ g.dead = pthread[p].dead /\ g.terminated = pthread[p].terminated
    BY <1>2, DetachedSet
  <1>4. /\ f \in PthreadRecords /\ f.refcount = g.refcount
        /\ f.dead = g.dead /\ f.terminated = g.terminated
    <2> HIDE DEF g
    <2> QED
      BY <1>3, JoinerSet
  <1>5. f = [pthread[p] EXCEPT !.detached = TRUE, !.joiner = None]
    BY <1>2 DEF PthreadRecords
  <1>6. SettleAndTryCollect(c, p, f) /\ UNCHANGED <<run, places>>
    BY <1>5 DEF Joined
  <1>7. ASSUME NEW d \in Callers \ {c}, caller[d].pc \in Joining, caller[d].target = p
        PROVE  FALSE
    <2>1. pthread[p].joiner = d /\ pthread[p].joiner = c
      BY <1>1, <1>7 DEF CallersInv, CallerGood, JoinGood
    <2> QED
      BY <2>1
  <1> HIDE DEF f, g
  <1>8. ~Uses(caller[c], p) /\ f.refcount = pthread[p].refcount - 0
    BY <1>1, <1>2, <1>3, <1>4 DEF Uses, PthreadRecords
  <1> QED
    BY <1>1, <1>3, <1>4, <1>6, <1>7, <1>8, SettleStep

LEMMA DetachStep ==
    ASSUME IndInv, NEW c \in Callers, NEW p \in Pthreads, Detach(c, p)
    PROVE  IndInv'
  <1>1. /\ TypeOK /\ CallersInv /\ p \in threads /\ caller[c].pc = "idle"
        /\ pthread[p].joiner = None /\ pthread[p] \in PthreadRecords
        /\ UNCHANGED <<run, places>>
    BY DEF Detach, IndInv, TypeOK
  <1> PICK detached \in BOOLEAN : detached = TRUE
    OBVIOUS
  <1> DEFINE f == [pthread[p] EXCEPT !.detached = detached]
  <1>2. /\ f \in PthreadRecords /\ f.refcount = pthread[p].refcount
        /\ f.dead = pthread[p].dead /\ f.terminated = pthread[p].terminated
    BY <1>1, DetachedSet
  <1>3. SettleAndTryCollect(c, p, f)
    BY DEF Detach
  <1>4. ASSUME NEW d \in Callers \ {c}, caller[d].pc \in Joining, caller[d].target = p
        PROVE  FALSE
    <2>1. pthread[p].joiner = d
      BY <1>1, <1>4 DEF CallersInv, CallerGood, JoinGood
    <2> QED
      BY <1>1, <2>1, BoundAssumption
  <1> HIDE DEF f
  <1>5. /\ ~Uses(caller[c], p) /\ f.refcount = pthread[p].refcount - 0
        /\ caller[c].pc \notin Joining \cup Using
    BY <1>1, <1>2 DEF Uses, Joining, Using, PthreadRecords
  <1> QED
    BY <1>1, <1>2, <1>3, <1>4, <1>5, SettleStep

LEMMA RefDeleteStep ==
    ASSUME IndInv, NEW c \in Callers, RefDelete(c)
    PROVE  IndInv'
  <1>1. /\ TypeOK /\ CallersInv /\ CallerGood(c, caller[c])
        /\ caller[c].pc = "ref" /\ caller[c].pc \in Using
    BY DEF RefDelete, IndInv, CallersInv, Using
  <1> PICK p \in threads : p = caller[c].target
    BY <1>1 DEF CallerGood
  <1>2. /\ pthread[p] \in PthreadRecords /\ p \in Pthreads
        /\ pthread[p].refcount \in Int /\ pthread[p].refcount - 1 \in Int
    BY <1>1 DEF TypeOK, PthreadRecords
  <1> DEFINE f == [pthread[p] EXCEPT !.refcount = pthread[p].refcount - 1]
  <1>3. /\ f \in PthreadRecords /\ f.refcount = pthread[p].refcount - 1
        /\ f.dead = pthread[p].dead /\ f.terminated = pthread[p].terminated
        /\ f.joiner = pthread[p].joiner /\ f.detached = pthread[p].detached
    BY <1>2, Refcounted
  <1>4. SettleAndTryCollect(c, p, f) /\ UNCHANGED <<run, places>>
    BY DEF RefDelete
  <1>5. ASSUME NEW d \in Callers \ {c}, caller[d].pc \in Joining, caller[d].target = p
        PROVE  f.joiner = d /\ ~f.detached
    BY <1>1, <1>3, <1>5 DEF CallersInv, CallerGood, JoinGood
  <1> HIDE DEF f
  <1>6. Uses(caller[c], p)
    BY <1>1 DEF Uses
  <1> QED
    BY <1>1, <1>3, <1>4, <1>5, <1>6, SettleStep

LEMMA RefAddStep ==
    ASSUME IndInv, NEW c \in Callers, NEW p \in Pthreads, RefAdd(c, p)
    PROVE  IndInv'
  <1>1. /\ TypeOK /\ CallersInv /\ p \in threads /\ caller[c].pc = "idle"
        /\ UNCHANGED <<run, places>> /\ caller[c].work = {} /\ TargetGood(caller[c])
    BY CallerNow DEF RefAdd, IndInv, TargetGood
  <1>2. /\ pthread[p] \in PthreadRecords
        /\ pthread[p].refcount \in Int /\ pthread[p].refcount + 1 \in Int
    BY <1>1 DEF TypeOK, PthreadRecords
  <1> DEFINE f == [pthread[p] EXCEPT !.refcount = pthread[p].refcount + 1]
             r == [pc |-> "ref", target |-> p, work |-> {}]
  <1>3. /\ f \in PthreadRecords /\ f.refcount = pthread[p].refcount + 1
        /\ f.dead = pthread[p].dead /\ f.terminated = pthread[p].terminated
        /\ f.joiner = pthread[p].joiner /\ f.detached = pthread[p].detached
    BY <1>2, Refcounted
  <1>4. pthread' = [pthread EXCEPT ![p] = f]
    BY DEF RefAdd
  <1>5. caller' = [caller EXCEPT ![c] = r]
    <2>1. Goto(c, "ref", p)
      BY DEF RefAdd
    <2>2. caller' = [caller EXCEPT ![c] = [pc |-> "ref", target |-> p, work |-> caller[c].work]]
      BY <1>1, <2>1, CallerForms
    <2> QED
      BY <1>1, <2>2
  <1>6. /\ r \in CallerRecords /\ r.target = p /\ r.work = {}
        /\ Uses(r, p) /\ r.pc \in Using /\ r.pc \notin Joining
        /\ ~Uses(caller[c], p) /\ caller[c].pc \notin Joining \cup Using
    BY <1>1 DEF CallerRecords, PCs, Joining, Using, Uses
  <1>7. ASSUME NEW d \in Callers \ {c}, caller[d].pc \in Joining, caller[d].target = p
        PROVE  f.joiner = d /\ ~f.detached
    BY <1>1, <1>3, <1>7 DEF CallersInv, CallerGood, JoinGood
  <1> HIDE DEF f, r
  <1>8. f.refcount = pthread[p].refcount + 1 - 0
    BY <1>2, <1>3
  <1>9. Refers(c, p, f, r)
    BY <1>1, <1>3, <1>6, <1>7, <1>8 DEF Refers
  <1> QED
    BY <1>1, <1>3, <1>4, <1>5, <1>6, <1>9, ReferStep

-----------------------------------------------------------------------------
(* The thread of a Pthread ends, and the Pthread is collected. *)

\* A thread that has not published its end changes its own fields: nobody links or starts it.
LEMMA SelfStep ==
    ASSUME IndInv, NEW p \in Pthreads, NEW f \in PthreadRecords,
           NEW x \in {"none", "running", "collect", "publish"},
           pthread' = [pthread EXCEPT ![p] = f], run' = [run EXCEPT ![p] = x],
           UNCHANGED <<caller, places>>,
           run[p] # "none", f.joiner = pthread[p].joiner, f.detached = pthread[p].detached,
           RunGood(p)',
           p \in threads => f.refcount = (IF f.dead THEN 0 ELSE 1) + Cardinality(Users(p))
                                         + (IF x = "collect" THEN 1 ELSE 0)
    PROVE  IndInv'
  <1>1. TypeOK /\ CallersInv /\ RunInv /\ RefsInv /\ PlacesInv /\ TotalInv
    BY DEF IndInv
  <1>2. UNCHANGED <<threads, gc_list, free_threads, heap, total_threads>>
    BY DEF places
  <1>3. /\ pthread' \in [Pthreads -> PthreadRecords] /\ pthread'[p] = f
        /\ \A q \in Pthreads \ {p} : pthread'[q] = pthread[q]
        /\ run' \in [Pthreads -> {"none", "running", "collect", "publish"}] /\ run'[p] = x
        /\ \A q \in Pthreads \ {p} : run'[q] = run[q]
    BY <1>1 DEF TypeOK
  <1>4. TypeOK'
    BY <1>1, <1>2, <1>3 DEF TypeOK
  <1>5. CallersInv'
    <2>1. ASSUME NEW d \in Callers PROVE CallerGood(d, caller[d])'
      <3>1. CallerGood(d, caller[d])
        BY <1>1 DEF CallersInv
      <3>2. CASE caller[d].target = p
        <4>1. caller[d].pc \notin {"link", "start"}
          BY <3>1, <3>2 DEF CallerGood, StartGood
        <4> QED
          BY <1>2, <1>3, <3>1, <3>2, <4>1 DEF CallerGood, JoinGood, StartGood, TargetGood
      <3>3. CASE caller[d].target # p
        BY <1>2, <1>3, <3>1, <3>3 DEF CallerGood, JoinGood, StartGood, TargetGood, Joining
      <3> QED
        BY <3>2, <3>3
    <2> QED
      BY <1>1, <2>1 DEF CallersInv, OneStarter
  <1>6. RunInv'
    <2>1. ASSUME NEW q \in Pthreads, q # p PROVE RunGood(q)'
      BY <1>1, <1>2, <1>3, <2>1 DEF RunInv, RunGood
    <2> QED
      BY <2>1 DEF RunInv
  <1>7. RefsInv'
    <2>1. ASSUME NEW q \in threads' PROVE Refs(q)'
      <3>1. q \in threads /\ q \in Pthreads /\ Refs(q)
        BY <1>1, <1>2 DEF TypeOK, RefsInv
      <3>2. Users(q)' = Users(q)
        BY DEF Users
      <3>3. CASE q # p
        BY <1>3, <3>1, <3>2, <3>3 DEF Refs
      <3>4. CASE q = p
        BY <1>3, <3>1, <3>2, <3>4 DEF Refs
      <3> QED
        BY <3>3, <3>4
    <2> QED
      BY <2>1 DEF RefsInv
  <1>8. PlacesInv' /\ TotalInv'
    BY <1>1, PlacesKept
  <1> QED
    BY <1>4, <1>5, <1>6, <1>7, <1>8 DEF IndInv

LEMMA DieStep ==
    ASSUME IndInv, NEW p \in Pthreads, Die(p)
    PROVE  IndInv'
  <1>1. /\ run[p] = "running" /\ p \in threads /\ ~pthread[p].dead /\ ~pthread[p].terminated
        /\ pthread[p] \in PthreadRecords /\ TypeOK
        /\ UNCHANGED <<caller, places>> /\ UNCHANGED threads
    BY DEF Die, IndInv, RunInv, RunGood, TypeOK, places
  <1>2. /\ Cardinality(Users(p)) \in Nat
        /\ pthread[p].refcount = 1 + Cardinality(Users(p))
    BY <1>1 DEF IndInv, RefsInv, Refs
  <1>3. pthread[p].refcount - 1 \in Int /\ pthread[p].refcount - 1 = Cardinality(Users(p))
    BY <1>2
  <1> PICK dead \in BOOLEAN : dead = TRUE
    OBVIOUS
  <1> DEFINE h == [pthread[p] EXCEPT !.refcount = pthread[p].refcount - 1]
             g == [h EXCEPT !.dead = dead]
             f == Pin(g)
             x == IF ShouldCollect(g) THEN "collect" ELSE "publish"
  <1>4. /\ h \in PthreadRecords /\ h.refcount = Cardinality(Users(p))
        /\ h.terminated = pthread[p].terminated
        /\ h.joiner = pthread[p].joiner /\ h.detached = pthread[p].detached
    BY <1>1, <1>3, Refcounted
  <1>5. /\ g \in PthreadRecords /\ g.dead /\ g.refcount = h.refcount
        /\ g.terminated = h.terminated /\ g.joiner = h.joiner /\ g.detached = h.detached
    <2> HIDE DEF h
    <2> QED
      BY <1>4 DEF PthreadRecords
  <1>6. g = [pthread[p] EXCEPT !.dead = TRUE, !.refcount = pthread[p].refcount - 1]
    BY <1>1 DEF PthreadRecords
  <1>7. pthread' = [pthread EXCEPT ![p] = f] /\ run' = [run EXCEPT ![p] = x]
    BY <1>6 DEF Die
  <1> HIDE DEF g, h
  <1>8. /\ f \in PthreadRecords /\ f.dead /\ ~f.terminated
        /\ f.refcount = Cardinality(Users(p)) + (IF ShouldCollect(g) THEN 1 ELSE 0)
        /\ f.joiner = pthread[p].joiner /\ f.detached = pthread[p].detached
    BY <1>1, <1>4, <1>5, Pinned
  <1>9. /\ x \in {"collect", "publish"}
        /\ (IF x = "collect" THEN 1 ELSE 0) = (IF ShouldCollect(g) THEN 1 ELSE 0)
    OBVIOUS
  <1> HIDE DEF f, x
  <1>10. RunGood(p)'
    <2>1. pthread'[p] = f /\ run'[p] = x
      BY <1>1, <1>7 DEF TypeOK
    <2> QED
      BY <1>1, <1>8, <1>9, <2>1 DEF RunGood
  <1>11. f.refcount = (IF f.dead THEN 0 ELSE 1) + Cardinality(Users(p))
                      + (IF x = "collect" THEN 1 ELSE 0)
    BY <1>2, <1>8, <1>9
  <1> QED
    BY <1>1, <1>7, <1>8, <1>9, <1>10, <1>11, SelfStep

LEMMA PublishStep ==
    ASSUME IndInv, NEW p \in Pthreads, Publish(p)
    PROVE  IndInv'
  <1>1. /\ run[p] = "publish" /\ pthread[p].dead /\ pthread[p] \in PthreadRecords /\ TypeOK
        /\ UNCHANGED <<caller, places>> /\ UNCHANGED <<threads, gc_list>>
        /\ run' = [run EXCEPT ![p] = "none"]
    BY DEF Publish, IndInv, RunInv, RunGood, TypeOK, places
  <1> PICK terminated \in BOOLEAN : terminated = TRUE
    OBVIOUS
  <1> DEFINE f == [pthread[p] EXCEPT !.terminated = terminated]
  <1>2. pthread' = [pthread EXCEPT ![p] = f]
    BY <1>1 DEF Publish
  <1>3. /\ f \in PthreadRecords /\ f.dead = pthread[p].dead /\ f.refcount = pthread[p].refcount
        /\ f.joiner = pthread[p].joiner /\ f.detached = pthread[p].detached
    BY <1>1 DEF PthreadRecords
  <1> HIDE DEF f
  <1>4. RunGood(p)'
    <2>1. run'[p] = "none"
      BY <1>1 DEF TypeOK
    <2> QED
      BY <2>1 DEF RunGood
  <1>5. ASSUME p \in threads
        PROVE  f.refcount = (IF f.dead THEN 0 ELSE 1) + Cardinality(Users(p)) + 0
    <2>1. Refs(p)
      BY <1>5 DEF IndInv, RefsInv
    <2> QED
      BY <1>1, <1>3, <2>1 DEF Refs
  <1> QED
    BY <1>1, <1>2, <1>3, <1>4, <1>5, SelfStep

\* One who uses p, or its own thread, drops the pin: p is collected when that was the last count.
LEMMA GcStep ==
    ASSUME IndInv, NEW p \in threads, NEW f \in PthreadRecords,
           pthread' = [pthread EXCEPT ![p] = f],
           f.refcount = pthread[p].refcount - 1, f.dead = pthread[p].dead,
           f.detached = pthread[p].detached, f.joiner = pthread[p].joiner,
           f.terminated = pthread[p].terminated,
           IF ShouldCollect(f) THEN threads' = threads \ {p} /\ gc_list' = gc_list \cup {p}
                               ELSE UNCHANGED <<threads, gc_list>>,
           UNCHANGED <<free_threads, heap, total_threads>>,
           caller' \in [Callers -> CallerRecords],
           run' \in [Pthreads -> {"none", "running", "collect", "publish"}],
           \A q \in Pthreads \ {p} : run'[q] = run[q],
           run'[p] = run[p] \/ (run[p] = "collect" /\ run'[p] = "publish"),
           \A d \in Callers : \/ caller'[d] = caller[d]
                              \/ /\ caller[d].pc = "collect" /\ caller'[d].pc = "unlock"
                                 /\ caller'[d].work = caller[d].work,
           \A q \in threads : q # p => Users(q)' = Users(q),
           Cardinality(Users(p)') \in Nat,
           Cardinality(Users(p)') + (IF run'[p] = "collect" THEN 1 ELSE 0)
                = Cardinality(Users(p)) + (IF run[p] = "collect" THEN 1 ELSE 0) - 1
    PROVE  IndInv'
  <1>1. /\ TypeOK /\ CallersInv /\ RunInv /\ RefsInv /\ PlacesInv /\ TotalInv
        /\ p \in Pthreads /\ RunGood(p) /\ Refs(p)
    BY DEF IndInv, TypeOK, RunInv, RefsInv
  <1>2. /\ pthread' \in [Pthreads -> PthreadRecords] /\ pthread'[p] = f
        /\ \A q \in Pthreads \ {p} : pthread'[q] = pthread[q]
    BY <1>1 DEF TypeOK
  <1>3. /\ threads' \subseteq threads /\ gc_list \subseteq gc_list'
        /\ \A q : q # p => (q \in threads' <=> q \in threads) /\ (q \in gc_list' <=> q \in gc_list)
        /\ p \in threads' \cup gc_list'
        /\ threads' \in SUBSET Pthreads /\ gc_list' \in SUBSET Pthreads
        /\ ~ShouldCollect(f) => threads' = threads
    BY <1>1 DEF TypeOK
  <1>4. TypeOK'
    BY <1>1, <1>2, <1>3 DEF TypeOK
  \* The count, before and after.
  <1>5. f.refcount = (IF f.dead THEN 0 ELSE 1) + Cardinality(Users(p)')
                     + (IF run'[p] = "collect" THEN 1 ELSE 0)
    <2>1. /\ Cardinality(Users(p)) \in Nat
          /\ pthread[p].refcount = (IF pthread[p].dead THEN 0 ELSE 1) + Cardinality(Users(p))
                                   + (IF run[p] = "collect" THEN 1 ELSE 0)
      BY <1>1 DEF Refs
    <2> DEFINE a == Cardinality(Users(p))
               b == Cardinality(Users(p)')
    <2>2. /\ a \in Nat /\ b \in Nat
          /\ b + (IF run'[p] = "collect" THEN 1 ELSE 0)
                = a + (IF run[p] = "collect" THEN 1 ELSE 0) - 1
          /\ pthread[p].refcount = (IF pthread[p].dead THEN 0 ELSE 1) + a
                                   + (IF run[p] = "collect" THEN 1 ELSE 0)
      BY <2>1
    <2> HIDE DEF a, b
    <2>3. f.refcount = (IF f.dead THEN 0 ELSE 1) + b + (IF run'[p] = "collect" THEN 1 ELSE 0)
      BY <2>2
    <2> QED
      BY <2>3 DEF b
  \* What is collected is not used, not joined, not about to start and does not run.
  <1>6. ASSUME ShouldCollect(f)
        PROVE  /\ f.dead /\ f.detached /\ run'[p] \notin {"running", "collect"}
               /\ \A d \in Callers : ~Uses(caller'[d], p)
    <2>1. f.dead /\ f.detached /\ f.refcount = 0
      BY <1>6 DEF ShouldCollect
    <2>2. Cardinality(Users(p)') = 0 /\ run'[p] # "collect"
      <3> DEFINE b == Cardinality(Users(p)')
      <3>1. b \in Nat /\ f.refcount = (IF f.dead THEN 0 ELSE 1) + b
                                      + (IF run'[p] = "collect" THEN 1 ELSE 0)
        BY <1>5
      <3> HIDE DEF b
      <3>2. b = 0 /\ run'[p] # "collect"
        BY <2>1, <3>1
      <3> QED
        BY <3>2 DEF b
    <2>3. Users(p)' = {}
      <3>1. IsFiniteSet(Users(p)')
        BY FiniteAssumption, FS_Subset DEF Users
      <3> QED
        BY <2>2, <3>1, FS_EmptySet
    <2>4. run'[p] # "running"
      BY <1>1, <2>1 DEF RunGood
    <2>5. \A d \in Callers : ~Uses(caller'[d], p)
      BY <2>3 DEF Users, Uses
    <2> QED
      BY <2>1, <2>2, <2>4, <2>5
  <1>7. CallersInv'
    <2>1. ASSUME NEW d \in Callers PROVE CallerGood(d, caller[d])'
      <3>1. CallerGood(d, caller[d])
        BY <1>1 DEF CallersInv
      <3>2. CASE caller'[d] # caller[d]
        <4>1. /\ caller'[d].pc = "unlock" /\ caller'[d].work = {} /\ caller'[d] \in CallerRecords
          BY <3>1, <3>2 DEF CallerGood, TargetGood
        <4> QED
          BY <4>1 DEF CallerGood, TargetGood, JoinGood, StartGood, Joining, Using
      <3>3. CASE caller'[d] = caller[d] /\ caller[d].target = p
        <4>1. CASE ShouldCollect(f)
          <5>1. caller[d].pc \notin Joining \cup Using \cup {"link", "start"}
            BY <1>6, <3>1, <3>3, <4>1 DEF CallerGood, JoinGood, StartGood, Uses
          <5> QED
            BY <3>1, <3>3, <5>1 DEF CallerGood, JoinGood, StartGood, TargetGood
        <4>2. CASE ~ShouldCollect(f)
          <5>1. caller[d].pc # "link"
            <6>1. CASE caller[d].pc = "link"
              <7>1. p \in HeldBy(caller[d])
                BY <3>3, <6>1 DEF HeldBy
              <7>2. InNoList(p)
                BY <1>1, <7>1, HeldIsOut
              <7> QED
                BY <7>2 DEF InNoList
            <6> QED
              BY <6>1
          <5>2. caller[d].pc = "start" => run'[p] = "none"
            BY <3>1, <3>3 DEF CallerGood, StartGood
          <5> QED
            BY <1>2, <1>3, <3>1, <3>3, <4>2, <5>1, <5>2
            DEF CallerGood, JoinGood, StartGood, TargetGood
        <4> QED
          BY <4>1, <4>2
      <3>4. CASE caller'[d] = caller[d] /\ caller[d].target # p
        BY <1>2, <1>3, <3>1, <3>4 DEF CallerGood, JoinGood, StartGood, TargetGood, Joining
      <3> QED
        BY <3>2, <3>3, <3>4
    <2>2. OneStarter'
      <3>1. \A d \in Callers : caller'[d].pc = "start" => caller'[d] = caller[d]
        OBVIOUS
      <3> QED
        BY <1>1, <3>1 DEF CallersInv, OneStarter
    <2> QED
      BY <2>1, <2>2 DEF CallersInv
  <1>8. RunInv'
    <2>1. ASSUME NEW q \in Pthreads, q # p PROVE RunGood(q)'
      BY <1>1, <1>2, <1>3, <2>1 DEF RunInv, RunGood
    <2>2. RunGood(p)'
      BY <1>1, <1>2, <1>3, <1>6 DEF RunGood
    <2> QED
      BY <2>1, <2>2 DEF RunInv
  <1>9. RefsInv'
    <2>1. ASSUME NEW q \in threads' PROVE Refs(q)'
      <3>1. q \in threads /\ q \in Pthreads /\ Refs(q)
        BY <1>1, <1>3 DEF TypeOK, RefsInv
      <3>2. CASE q # p
        <4>1. Users(q)' = Users(q)
          BY <3>1, <3>2
        <4> QED
          BY <1>2, <3>1, <3>2, <4>1 DEF Refs
      <3>3. CASE q = p
        BY <1>2, <1>5, <3>3 DEF Refs
      <3> QED
        BY <3>2, <3>3
    <2> QED
      BY <2>1 DEF RefsInv
  <1>10. \A d \in Callers : /\ HeldBy(caller'[d]) = HeldBy(caller[d])
                            /\ caller'[d].pc \in HalfwayPCs <=> caller[d].pc \in HalfwayPCs
    BY DEF HeldBy, HalfwayPCs
  <1>11. PlacesInv'
    <2>1. ASSUME NEW q \in Pthreads PROVE AtOne(q)'
      <3>1. AtOne(q)
        BY <1>1 DEF PlacesInv
      <3>2. (InOneList(q) => InOneList(q)') /\ (InNoList(q) => InNoList(q)')
        BY <1>3 DEF InOneList, InNoList, Cached
      <3>3. \A d \in Callers : Holds(d, q)' <=> Holds(d, q)
        BY <1>10 DEF Holds
      <3> QED
        BY <3>1, <3>2, <3>3 DEF AtOne
    <2> QED
      BY <1>1, <2>1 DEF PlacesInv
  <1>12. TotalInv'
    <2>1. Halfway' = Halfway
      BY <1>10 DEF Halfway
    <2> QED
      BY <1>1, <2>1 DEF TotalInv
  <1> QED
    BY <1>4, <1>7, <1>8, <1>9, <1>11, <1>12 DEF IndInv

\* What both collectors do to p.
LEMMA MoveForm ==
    ASSUME TypeOK, NEW p \in Pthreads, MoveToGc(p)
    PROVE  \E f \in PthreadRecords :
              /\ pthread' = [pthread EXCEPT ![p] = f]
              /\ f.refcount = pthread[p].refcount - 1 /\ f.dead = pthread[p].dead
              /\ f.detached = pthread[p].detached /\ f.joiner = pthread[p].joiner
              /\ f.terminated = pthread[p].terminated
              /\ IF ShouldCollect(f) THEN threads' = threads \ {p} /\ gc_list' = gc_list \cup {p}
                                     ELSE UNCHANGED <<threads, gc_list>>
  <1> DEFINE f == [pthread[p] EXCEPT !.refcount = pthread[p].refcount - 1]
  <1>1. pthread[p] \in PthreadRecords /\ pthread[p].refcount - 1 \in Int
    BY DEF TypeOK, PthreadRecords
  <1>2. /\ f \in PthreadRecords /\ f.refcount = pthread[p].refcount - 1 /\ f.dead = pthread[p].dead
        /\ f.detached = pthread[p].detached /\ f.joiner = pthread[p].joiner
        /\ f.terminated = pthread[p].terminated
    BY <1>1, Refcounted
  <1>3. /\ pthread' = [pthread EXCEPT ![p] = f]
        /\ IF ShouldCollect(f) THEN threads' = threads \ {p} /\ gc_list' = gc_list \cup {p}
                               ELSE UNCHANGED <<threads, gc_list>>
    BY DEF MoveToGc
  <1> HIDE DEF f
  <1> QED
    BY <1>2, <1>3

LEMMA TryCollectStep ==
    ASSUME IndInv, NEW c \in Callers, TryCollect(c)
    PROVE  IndInv'
  <1>1. /\ TypeOK /\ CallersInv /\ CallerGood(c, caller[c]) /\ caller[c].pc = "collect"
        /\ caller[c].pc \in Using /\ caller[c] \in CallerRecords
    BY CallerNow DEF TryCollect, IndInv, CallersInv, Using
  <1> PICK p \in threads : p = caller[c].target
    BY <1>1 DEF CallerGood
  <1>2. p \in Pthreads
    BY <1>1 DEF TypeOK
  <1>3. MoveToGc(p) /\ UNCHANGED <<run, free_threads, heap, total_threads>>
    BY DEF TryCollect
  <1>4. PICK f \in PthreadRecords :
              /\ pthread' = [pthread EXCEPT ![p] = f]
              /\ f.refcount = pthread[p].refcount - 1 /\ f.dead = pthread[p].dead
              /\ f.detached = pthread[p].detached /\ f.joiner = pthread[p].joiner
              /\ f.terminated = pthread[p].terminated
              /\ IF ShouldCollect(f) THEN threads' = threads \ {p} /\ gc_list' = gc_list \cup {p}
                                     ELSE UNCHANGED <<threads, gc_list>>
    BY <1>1, <1>2, <1>3, MoveForm
  <1> DEFINE r == [pc |-> "unlock", target |-> p, work |-> caller[c].work]
  <1>5. caller' = [caller EXCEPT ![c] = r]
    <2>1. Goto(c, "unlock", p)
      BY DEF TryCollect
    <2> QED
      BY <1>1, <2>1, GotoForm
  <1>6. r \in CallerRecords /\ r.pc = "unlock" /\ r.work = caller[c].work /\ r.pc \notin Using
    BY <1>1, <1>2 DEF CallerRecords, PCs, Using
  <1> HIDE DEF r
  <1>7. /\ caller' \in [Callers -> CallerRecords]
        /\ caller'[c] = r /\ \A d \in Callers \ {c} : caller'[d] = caller[d]
    BY <1>1, <1>5, <1>6, CallerChange
  <1>8. \A d \in Callers : \/ caller'[d] = caller[d]
                           \/ /\ caller[d].pc = "collect" /\ caller'[d].pc = "unlock"
                              /\ caller'[d].work = caller[d].work
    BY <1>1, <1>6, <1>7
  <1>9. /\ Uses(caller[c], p) /\ \A q : q # p => ~Uses(caller[c], q)
        /\ \A q : ~Uses(caller'[c], q)
    BY <1>1, <1>6, <1>7 DEF Uses
  <1>10. \A q \in threads : q # p => Users(q)' = Users(q)
    <2>1. ASSUME NEW q \in threads, q # p PROVE Users(q)' = Users(q)
      BY <1>7, <1>9, <2>1, UsersStep
    <2> QED
      BY <2>1
  <1>11. /\ Cardinality(Users(p)') \in Nat /\ Cardinality(Users(p)) \in Nat
         /\ Cardinality(Users(p)') = Cardinality(Users(p)) - 1
    BY <1>7, <1>9, UsersStep
  <1>12. run' \in [Pthreads -> {"none", "running", "collect", "publish"}] /\ run' = run
    BY <1>1, <1>3 DEF TypeOK
  <1>13. Cardinality(Users(p)') + (IF run'[p] = "collect" THEN 1 ELSE 0)
            = Cardinality(Users(p)) + (IF run[p] = "collect" THEN 1 ELSE 0) - 1
    <2> DEFINE a == Cardinality(Users(p))
               b == Cardinality(Users(p)')
    <2>1. a \in Nat /\ b = a - 1
      BY <1>11
    <2> HIDE DEF a, b
    <2>2. b + (IF run'[p] = "collect" THEN 1 ELSE 0) = a + (IF run[p] = "collect" THEN 1 ELSE 0) - 1
      BY <1>12, <2>1
    <2> QED
      BY <2>2 DEF a, b
  <1> QED
    BY <1>3, <1>4, <1>7, <1>8, <1>10, <1>11, <1>12, <1>13, GcStep

LEMMA TryCollectSelfStep ==
    ASSUME IndInv, NEW p \in Pthreads, TryCollectSelf(p)
    PROVE  IndInv'
  <1>1. /\ TypeOK /\ RunInv /\ run[p] = "collect" /\ p \in threads
        /\ UNCHANGED <<caller, free_threads, heap, total_threads>>
        /\ run' = [run EXCEPT ![p] = "publish"]
    BY DEF TryCollectSelf, IndInv, RunInv, RunGood
  <1>2. PICK f \in PthreadRecords :
              /\ pthread' = [pthread EXCEPT ![p] = f]
              /\ f.refcount = pthread[p].refcount - 1 /\ f.dead = pthread[p].dead
              /\ f.detached = pthread[p].detached /\ f.joiner = pthread[p].joiner
              /\ f.terminated = pthread[p].terminated
              /\ IF ShouldCollect(f) THEN threads' = threads \ {p} /\ gc_list' = gc_list \cup {p}
                                     ELSE UNCHANGED <<threads, gc_list>>
    BY <1>1, MoveForm DEF TryCollectSelf
  <1>3. /\ run' \in [Pthreads -> {"none", "running", "collect", "publish"}]
        /\ run'[p] = "publish" /\ \A q \in Pthreads \ {p} : run'[q] = run[q]
    BY <1>1 DEF TypeOK
  <1>4. caller' \in [Callers -> CallerRecords] /\ \A d \in Callers : caller'[d] = caller[d]
    BY <1>1 DEF TypeOK
  <1>5. \A q : Users(q)' = Users(q)
    BY <1>1 DEF Users
  <1>6. Cardinality(Users(p)) \in Nat
    BY <1>1 DEF IndInv, RefsInv, Refs
  <1>7. /\ Cardinality(Users(p)') \in Nat
        /\ Cardinality(Users(p)') + (IF run'[p] = "collect" THEN 1 ELSE 0)
            = Cardinality(Users(p)) + (IF run[p] = "collect" THEN 1 ELSE 0) - 1
    BY <1>1, <1>3, <1>5, <1>6
  <1> QED
    BY <1>1, <1>2, <1>3, <1>4, <1>5, <1>7, GcStep

-----------------------------------------------------------------------------
(* The invariant, and what follows. *)

LEMMA NextInv == IndInv /\ [Next]_vars => IndInv'
  <1> SUFFICES ASSUME IndInv, [Next]_vars PROVE IndInv'
    OBVIOUS
  <1>1. ASSUME NEW c \in Callers, Step(c) PROVE IndInv'
    <2>1. CASE TryCollect(c)
      BY <2>1, TryCollectStep
    <2>2. CASE Unlock(c) \/ SetAffinity(c) \/ JoinWait(c)
      BY <2>2, WaitingStep
    <2>3. CASE Collect(c)
      BY <2>3, CollectStep
    <2>4. CASE Free(c)
      BY <2>4, FreeStep
    <2>5. CASE Release(c)
      BY <2>5, ReleaseStep
    <2>6. CASE Uncount(c) \/ Count(c) \/ GiveUp(c)
      BY <2>6, CountStep
    <2>7. CASE Alloc(c)
      BY <2>7, AllocStep
    <2>8. CASE Allocate(c)
      BY <2>8, AllocateStep
    <2>9. CASE Construct(c)
      BY <2>9, ConstructStep
    <2>10. CASE Link(c)
      BY <2>10, LinkStep
    <2>11. CASE Start(c)
      BY <2>11, StartStep
    <2>12. CASE BackoutJoin(c)
      BY <2>12, BackoutStep
    <2>13. CASE Joined(c)
      BY <2>13, JoinedStep
    <2>14. CASE RefDelete(c)
      BY <2>14, RefDeleteStep
    <2> QED
      BY <1>1, <2>1, <2>2, <2>3, <2>4, <2>5, <2>6, <2>7, <2>8, <2>9, <2>10, <2>11, <2>12, <2>13,
         <2>14 DEF Step
  <1>2. ASSUME NEW c \in Callers, Create(c) \/ JoinGivesUp(c) PROVE IndInv'
    BY <1>2, WaitingStep
  <1>3. ASSUME NEW c \in Callers, NEW p \in Pthreads, Join(c, p) PROVE IndInv'
    BY <1>3, JoinStep
  <1>4. ASSUME NEW c \in Callers, NEW p \in Pthreads, Detach(c, p) PROVE IndInv'
    BY <1>4, DetachStep
  <1>5. ASSUME NEW c \in Callers, NEW p \in Pthreads, RefAdd(c, p) PROVE IndInv'
    BY <1>5, RefAddStep
  <1>6. ASSUME NEW p \in Pthreads, Die(p) PROVE IndInv'
    BY <1>6, DieStep
  <1>7. ASSUME NEW p \in Pthreads, ExitStep(p) PROVE IndInv'
    BY <1>7, TryCollectSelfStep, PublishStep, LeaveStep DEF ExitStep
  <1>8. CASE UNCHANGED vars
    <2>1. /\ UNCHANGED <<pthread, run, threads, gc_list, free_threads, heap, total_threads, caller>>
      BY <1>8 DEF vars
    <2>2. /\ \A p : Users(p)' = Users(p) /\ (InOneList(p)' <=> InOneList(p))
                    /\ (InNoList(p)' <=> InNoList(p))
          /\ \A p : \A c \in Callers : Holds(c, p)' <=> Holds(c, p)
      BY <2>1 DEF Users, InOneList, InNoList, Holds, HeldBy, Cached
    <2>3. TypeOK' /\ CallersInv' /\ RunInv'
      BY <2>1 DEF IndInv, TypeOK, CallersInv, OneStarter, CallerGood, TargetGood, JoinGood, StartGood,
                  RunInv, RunGood
    <2>4. RefsInv'
      BY <2>1, <2>2 DEF IndInv, RefsInv, Refs
    <2>5. PlacesInv' /\ TotalInv'
      BY <2>1, PlacesKept DEF IndInv, places
    <2> QED
      BY <2>3, <2>4, <2>5 DEF IndInv
  <1> QED
    BY <1>1, <1>2, <1>3, <1>4, <1>5, <1>6, <1>7, <1>8 DEF Next

LEMMA Invariant == Spec => []IndInv
  <1>1. Init => IndInv
    BY InitInv
  <1>2. IndInv /\ [Next]_vars => IndInv'
    BY NextInv
  <1> QED
    BY <1>1, <1>2, PTL DEF Spec

\* RefAdd, RefDelete, TryCollect and ExitThread: while a Pthread is linked its refcount is exactly
\* what keeps it, however the callers and the thread itself interleave.
THEOREM RefsAreCounted == Spec => []RefsCounted
  <1>1. IndInv => RefsCounted
    <2> SUFFICES ASSUME IndInv, NEW p \in threads
                 PROVE  pthread[p].refcount =
                            (IF pthread[p].dead THEN 0 ELSE 1)
                            + Cardinality({c \in Callers : /\ caller[c].pc \in {"ref", "collect"}
                                                           /\ caller[c].target = p})
                            + (IF run[p] = "collect" THEN 1 ELSE 0)
      BY DEF RefsCounted
    <2>1. Refs(p)
      BY DEF IndInv, RefsInv
    <2> QED
      BY <2>1 DEF Refs, Users, Using
  <1> QED
    BY <1>1, Invariant, PTL

\* Alloc, Free, Link and Collect: a Pthread is linked, to be collected, cached, in the heap or in the
\* hands of one caller, and only one of these.
THEOREM OneOwner == Spec => []OnePlace
  <1>1. IndInv => OnePlace
    <2> SUFFICES ASSUME IndInv PROVE OnePlace
      OBVIOUS
    <2>1. PlacesInv
      BY DEF IndInv
    <2>2. \A c \in Callers : Held(c) = HeldBy(caller[c])
      BY DEF Held, HeldBy
    <2>3. ASSUME NEW p \in Pthreads
          PROVE  LET places_of == <<p \in threads, p \in gc_list, p \in ToSet(free_threads),
                                    p \in heap, \E c \in Callers : p \in Held(c)>>
                 IN  \E i \in 1 .. 5 : \A j \in 1 .. 5 : places_of[j] <=> i = j
      <3> DEFINE held == \E c \in Callers : p \in Held(c)
                 of == <<p \in threads, p \in gc_list, p \in ToSet(free_threads), p \in heap, held>>
      <3>1. \/ InOneList(p) /\ ~held
            \/ InNoList(p) /\ held
        BY <2>1, <2>2 DEF PlacesInv, AtOne, Holds
      <3>2. /\ of[1] <=> p \in threads
            /\ of[2] <=> p \in gc_list
            /\ of[3] <=> p \in Cached
            /\ of[4] <=> p \in heap
            /\ of[5] <=> held
        BY DEF Cached
      <3> HIDE DEF of, held
      <3>3. \A j \in 1 .. 5 : j = 1 \/ j = 2 \/ j = 3 \/ j = 4 \/ j = 5
        OBVIOUS
      <3>4. \E i \in {1, 2, 3, 4, 5} : \A j \in {1, 2, 3, 4, 5} : of[j] <=> i = j
        BY <3>1, <3>2 DEF InOneList, InNoList
      <3>5. \E i \in 1 .. 5 : \A j \in 1 .. 5 : of[j] <=> i = j
        BY <3>3, <3>4
      <3> QED
        BY <3>5 DEF of, held
    <2>4. ASSUME NEW c \in Callers, NEW d \in Callers, c # d, NEW p \in Held(c), p \in Held(d)
          PROVE  FALSE
      <3>1. Holds(c, p) /\ Holds(d, p)
        BY <2>2, <2>4 DEF Holds
      <3>2. p \in Pthreads
        <4>1. caller[c] \in CallerRecords /\ TargetGood(caller[c])
          BY DEF IndInv, TypeOK, CallersInv, CallerGood
        <4> QED
          BY <3>1, <4>1 DEF Holds, HeldBy, TargetGood, CallerRecords
      <3>3. AtOne(p)
        BY <2>1, <3>2 DEF PlacesInv
      <3> QED
        BY <2>4, <3>1, <3>3 DEF AtOne
    <2>5. \A c, d \in Callers : c # d => Held(c) \cap Held(d) = {}
      BY <2>4
    <2> QED
      BY <2>1, <2>3, <2>5 DEF OnePlace, PlacesInv
  <1> QED
    BY <1>1, Invariant, PTL

\* JoinThread, RefDelete, detach and TryCollect work on a Pthread they looked up before: it has not
\* been unlinked, freed or recycled since.
THEOREM UsedStay == Spec => []UsedStaysLinked
  <1>1. IndInv => UsedStaysLinked
    BY DEF IndInv, CallersInv, CallerGood, RunInv, RunGood, UsedStaysLinked, Joining, Using
  <1> QED
    BY <1>1, Invariant, PTL

\* ThreadState::Alloc and Free: total_threads, which Alloc compares with MaxThreads, is neither lost
\* nor counted twice.
THEOREM TotalIsCounted == Spec => []TotalCounted
  <1>1. IndInv => TotalCounted
    BY DEF IndInv, TotalInv, TotalCounted, Halfway, HalfwayPCs
  <1> QED
    BY <1>1, Invariant, PTL

=============================================================================
