--------------------------- MODULE P2PLinkProofs ---------------------------
(***************************************************************************)
(* Proofs about P2PLink: the invariant of P2PInvariant.tla is inductive,   *)
(* so TimerArmed always holds and the two connections implement the byte   *)
(* streams of ByteStreams.tla, whatever the configuration, the initial     *)
(* sequence numbers, the lengths of the streams and what the network does. *)
(*                                                                         *)
(* From the bottom: sequence numbers and pieces of sequences; what each    *)
(* function of p2p_tcp.cpp leaves of a connection (named ...Frame for what *)
(* it changes, ...Same for what it leaves alone, ...Core and ...Fine for   *)
(* what holds then); what a handler at one side means for the other side   *)
(* and for the wire; every action; the refinement.                         *)
(***************************************************************************)
EXTENDS P2PInvariant, FiniteSetTheorems, SequenceTheorems, WellFoundedInduction, TLAPS

\* The two truth values are the Booleans.
LEMMA Booleans == TRUE \in BOOLEAN /\ FALSE \in BOOLEAN
OBVIOUS

\* Half of the sequence numbers (the i32 cast of SeqLt) is half.
LEMMA HalfIsHalf == M \in Nat /\ Half \in Nat /\ M = 2 * Half /\ Half > 2
BY SequenceAssumption, SizeAssumption DEF Half

\* The signed difference of the code, by cases.
LEMMA SubCases ==
    ASSUME NEW a \in Nos, NEW b \in Nos
    PROVE  SeqSub(a, b) \in Nos /\ SeqSub(a, b) = IF a >= b THEN a - b ELSE a - b + M
<1>1. M \in Nat
  BY HalfIsHalf
<1>2. CASE a >= b
  <2>1. a - b \in 0 .. M - 1
    BY <1>1, <1>2 DEF Nos
  <2>2. \A x \in 0 .. M - 1 : x % M = x
    BY <1>1
  <2> QED BY <1>2, <2>1, <2>2 DEF SeqSub, Nos
<1>3. CASE ~(a >= b)
  <2>1. a - b \in -(M - 1) .. -1
    BY <1>1, <1>3 DEF Nos
  <2>2. \A x \in -(M - 1) .. -1 : x % M = x + M
    BY <1>1
  <2> QED BY <1>1, <1>3, <2>1, <2>2 DEF SeqSub, Nos
<1> QED BY <1>2, <1>3

\* A sequence number is 0 away from itself.
LEMMA SubSelf ==
    ASSUME NEW a \in Nos
    PROVE  SeqSub(a, a) = 0
BY SubCases DEF Nos

\* Adding to a number adds to its distance, as long as that stays in range.
LEMMA SubAdd ==
    ASSUME NEW a \in Nos, NEW base \in Nos, NEW n \in Int, SeqSub(a, base) + n \in Nos
    PROVE  (a + n) % M \in Nos /\ SeqSub((a + n) % M, base) = SeqSub(a, base) + n
<1> DEFINE s == SeqSub(a, base)
<1>1. M \in Nat /\ s \in Nos /\ s = IF a >= base THEN a - base ELSE a - base + M
  BY SubCases, HalfIsHalf
<1>2. n > -M /\ n < M
  BY <1>1 DEF Nos
<1>3. (a + n) % M = IF a + n < 0 THEN a + n + M ELSE IF a + n >= M THEN a + n - M ELSE a + n
  <2>1. \A x \in -M .. -1 : x % M = x + M
    BY <1>1
  <2>2. \A x \in 0 .. M - 1 : x % M = x
    BY <1>1
  <2>3. \A x \in M .. 2 * M - 1 : x % M = x - M
    BY <1>1
  <2> QED BY <1>1, <1>2, <2>1, <2>2, <2>3 DEF Nos
<1>4. (a + n) % M \in Nos
  BY <1>1, <1>2, <1>3 DEF Nos
<1> DEFINE t == (a + n) % M
<1>5. SeqSub(t, base) = IF t >= base THEN t - base ELSE t - base + M
  BY <1>4, SubCases
<1> QED BY <1>1, <1>2, <1>3, <1>4, <1>5 DEF Nos

\* Distances from one base subtract.
LEMMA SubDiff ==
    ASSUME NEW a \in Nos, NEW b \in Nos, NEW base \in Nos, SeqSub(a, base) >= SeqSub(b, base)
    PROVE  SeqSub(a, b) = SeqSub(a, base) - SeqSub(b, base)
<1>1. /\ SeqSub(a, base) = IF a >= base THEN a - base ELSE a - base + M
      /\ SeqSub(b, base) = IF b >= base THEN b - base ELSE b - base + M
      /\ SeqSub(a, b) = IF a >= b THEN a - b ELSE a - b + M
  BY SubCases
<1> QED BY <1>1, HalfIsHalf DEF Nos

\* Numbers at the same distance are the same.
LEMMA SubInjective ==
    ASSUME NEW a \in Nos, NEW b \in Nos, NEW base \in Nos
    PROVE  a = b <=> SeqSub(a, base) = SeqSub(b, base)
<1>1. /\ SeqSub(a, base) = IF a >= base THEN a - base ELSE a - base + M
      /\ SeqSub(b, base) = IF b >= base THEN b - base ELSE b - base + M
  BY SubCases
<1> QED BY <1>1, HalfIsHalf DEF Nos

\* Between numbers that are less than half a turn from a common base, the comparison of the code
\* is the comparison of the positions.
LEMMA SubOrder ==
    ASSUME NEW a \in Nos, NEW b \in Nos, NEW base \in Nos,
           SeqSub(a, base) < Half, SeqSub(b, base) < Half
    PROVE  /\ SeqLt(a, b) <=> SeqSub(a, base) < SeqSub(b, base)
           /\ SeqLe(a, b) <=> SeqSub(a, base) <= SeqSub(b, base)
<1>1. SeqSub(a, base) \in Nos /\ SeqSub(b, base) \in Nos /\ SeqSub(a, b) \in Nos
  BY SubCases
<1>2. SeqLt(a, b) <=> SeqSub(a, base) < SeqSub(b, base)
  <2>1. CASE SeqSub(a, base) >= SeqSub(b, base)
    <3>1. SeqSub(a, b) = SeqSub(a, base) - SeqSub(b, base)
      BY <2>1, SubDiff
    <3> QED BY <1>1, <2>1, <3>1, HalfIsHalf DEF SeqLt, Half, Nos
  <2>2. CASE SeqSub(a, base) < SeqSub(b, base)
    <3>1. SeqSub(b, a) = SeqSub(b, base) - SeqSub(a, base) /\ SeqSub(b, a) \in Nos
      <4>1. SeqSub(b, base) >= SeqSub(a, base)
        BY <1>1, <2>2 DEF Nos
      <4> QED BY <4>1, SubDiff, SubCases
    <3>2. SeqSub(a, b) = M - SeqSub(b, a)
      <4>1. /\ SeqSub(a, b) = IF a >= b THEN a - b ELSE a - b + M
            /\ SeqSub(b, a) = IF b >= a THEN b - a ELSE b - a + M
        BY SubCases
      <4>2. a # b
        BY <2>2, <1>1 DEF Nos
      <4> QED BY <4>1, <4>2, HalfIsHalf DEF Nos
    <3> QED BY <1>1, <2>2, <3>1, <3>2, HalfIsHalf DEF SeqLt, Half, Nos
  <2> QED BY <1>1, <2>1, <2>2 DEF Nos
<1> QED BY <1>1, <1>2, SubInjective DEF SeqLe, Nos

\* The first byte of a stream follows its initial sequence number.
LEMMA SubAfter ==
    ASSUME NEW a \in Nos, NEW base \in Nos, SeqSub(a, base) >= 1
    PROVE  SeqSub(a, base + 1) = SeqSub(a, base) - 1
<1>1. M \in Nat /\ M > 0
  BY HalfIsHalf
<1>2. \A x \in -M .. -1 : x % M = x + M
  BY <1>1
<1>3. \A x \in 0 .. M - 1 : x % M = x
  BY <1>1
<1>4. SeqSub(a, base) = IF a >= base THEN a - base ELSE a - base + M
  BY SubCases
<1>5. a - (base + 1) \in -M .. M - 1
  BY <1>1 DEF Nos
<1>6. (a - (base + 1)) % M = SeqSub(a, base) - 1
  BY <1>1, <1>2, <1>3, <1>4, <1>5 DEF Nos
<1> QED BY <1>6 DEF SeqSub

\* What a piece of a sequence is.
LEMMA Piece ==
    ASSUME NEW s \in Seq(Nat), NEW a \in Nat \ {0}, NEW b \in Nat, b <= Len(s), a <= b + 1
    PROVE  /\ SubSeq(s, a, b) \in Seq(Nat) /\ Len(SubSeq(s, a, b)) = b - a + 1
           /\ \A i \in 1 .. b - a + 1 : SubSeq(s, a, b)[i] = s[a + i - 1]
<1>1. \A i \in a .. b : s[i] \in Nat
  BY ElementOfSeq
<1> QED BY <1>1, SubSeqProperties

\* A piece of a piece is a piece.
LEMMA PieceOfPiece ==
    ASSUME NEW s \in Seq(Nat), NEW a \in Nat \ {0}, NEW b \in Nat, b <= Len(s), a <= b + 1,
           NEW i \in Nat \ {0}, NEW j \in Nat, i <= j + 1, j <= b - a + 1
    PROVE  SubSeq(SubSeq(s, a, b), i, j) = SubSeq(s, a + i - 1, a + j - 1)
<1> DEFINE t == SubSeq(s, a, b)
           u == SubSeq(t, i, j)
           v == SubSeq(s, a + i - 1, a + j - 1)
<1>1. /\ t \in Seq(Nat) /\ Len(t) = b - a + 1
      /\ \A m \in 1 .. b - a + 1 : t[m] = s[a + m - 1]
  BY Piece
<1>2. /\ v \in Seq(Nat) /\ Len(v) = j - i + 1
      /\ \A m \in 1 .. j - i + 1 : v[m] = s[(a + i - 1) + m - 1]
  <2>1. a + i - 1 \in Nat \ {0} /\ a + j - 1 \in Nat /\ a + j - 1 <= Len(s)
        /\ a + i - 1 <= (a + j - 1) + 1
    OBVIOUS
  <2> HIDE DEF v
  <2>2. v = SubSeq(s, a + i - 1, a + j - 1)
    BY DEF v
  <2> QED BY <2>1, <2>2, Piece
<1> HIDE DEF t, v
<1>3. /\ u \in Seq(Nat) /\ Len(u) = j - i + 1
      /\ \A m \in 1 .. j - i + 1 : u[m] = t[i + m - 1]
  BY <1>1, Piece, SMTT(30)
<1> HIDE DEF u
<1>4. \A m \in 1 .. j - i + 1 : u[m] = v[m]
  BY <1>1, <1>2, <1>3
<1>5. u = v
  BY <1>2, <1>3, <1>4, SeqEqual
<1> QED BY <1>5 DEF t, u, v

\* Two pieces that touch join to one.
LEMMA PieceJoined ==
    ASSUME NEW s \in Seq(Nat), NEW a \in Nat \ {0}, NEW b \in Nat, NEW e \in Nat,
           a <= b + 1, b <= e, e <= Len(s)
    PROVE  SubSeq(s, a, b) \o SubSeq(s, b + 1, e) = SubSeq(s, a, e)
BY ConcatAdjacentSubSeq

\* A piece that ends before it begins is empty.
LEMMA PieceEmpty ==
    ASSUME NEW s \in Seq(Nat), NEW a \in Int
    PROVE  SubSeq(s, a, a - 1) = <<>>
BY SubSeqEmpty

\* A stream that grows keeps its pieces, and what is left of it grows with it.
LEMMA PieceGrown ==
    ASSUME NEW s \in Seq(Nat), NEW x \in Nat, NEW a \in Nat \ {0}, a <= Len(s) + 1
    PROVE  /\ Append(s, x) \in Seq(Nat) /\ Len(Append(s, x)) = Len(s) + 1
           /\ \A b \in Nat : b <= Len(s) /\ a <= b + 1 => SubSeq(Append(s, x), a, b) = SubSeq(s, a, b)
           /\ SubSeq(Append(s, x), a, Len(s) + 1) = SubSeq(s, a, Len(s)) \o <<x>>
<1> DEFINE t == Append(s, x)
<1>1. t \in Seq(Nat) /\ Len(t) = Len(s) + 1 /\ t[Len(s) + 1] = x
      /\ \A i \in 1 .. Len(s) : t[i] = s[i]
  OBVIOUS
<1> HIDE DEF t
<1>2. ASSUME NEW b \in Nat, b <= Len(s), a <= b + 1
      PROVE  SubSeq(t, a, b) = SubSeq(s, a, b)
  <2> DEFINE u == SubSeq(t, a, b)
             v == SubSeq(s, a, b)
  <2>1. u \in Seq(Nat) /\ Len(u) = b - a + 1 /\ \A i \in 1 .. b - a + 1 : u[i] = t[a + i - 1]
    BY <1>1, <1>2, Piece, SMTT(30)
  <2>2. v \in Seq(Nat) /\ Len(v) = b - a + 1 /\ \A i \in 1 .. b - a + 1 : v[i] = s[a + i - 1]
    BY <1>2, Piece
  <2> HIDE DEF u, v
  <2>3. \A i \in 1 .. b - a + 1 : u[i] = v[i]
    <3> SUFFICES ASSUME NEW i \in 1 .. b - a + 1 PROVE u[i] = v[i]
      OBVIOUS
    <3>1. a + i - 1 \in 1 .. Len(s)
      BY <1>2
    <3> QED BY <1>1, <2>1, <2>2, <3>1
  <2>4. u = v
    BY <2>1, <2>2, <2>3, SeqEqual
  <2> QED BY <2>4 DEF u, v
<1>3. SubSeq(t, a, Len(s) + 1) = SubSeq(s, a, Len(s)) \o <<x>>
  <2>1. SubSeq(t, a, Len(s)) \o SubSeq(t, Len(s) + 1, Len(s) + 1) = SubSeq(t, a, Len(s) + 1)
    <3> DEFINE n == Len(s)
               e == n + 1
    <3>1. n \in Nat /\ e \in Nat /\ a <= n + 1 /\ n <= e /\ e <= Len(t)
      BY <1>1
    <3> HIDE DEF n, e
    <3>2. SubSeq(t, a, n) \o SubSeq(t, n + 1, e) = SubSeq(t, a, e)
      BY <1>1, <3>1, PieceJoined
    <3> QED BY <3>2 DEF n, e
  <2>2. SubSeq(t, Len(s) + 1, Len(s) + 1) = <<x>>
    <3> DEFINE n == Len(s) + 1
               u == SubSeq(t, n, n)
    <3>0. n \in Nat \ {0} /\ n <= Len(t)
      BY <1>1
    <3> HIDE DEF n
    <3>1. u \in Seq(Nat) /\ Len(u) = n - n + 1 /\ \A i \in 1 .. n - n + 1 : u[i] = t[n + i - 1]
      BY <1>1, <3>0, Piece
    <3> HIDE DEF u
    <3>2. Len(u) = 1 /\ u[1] = t[n]
      BY <3>0, <3>1
    <3>3. u[1] = x
      BY <1>1, <3>2 DEF n
    <3>4. u = <<x>>
      <4>1. <<x>> \in Seq(Nat) /\ Len(<<x>>) = 1 /\ <<x>>[1] = x
        OBVIOUS
      <4>2. \A i \in 1 .. Len(u) : u[i] = <<x>>[i]
        BY <3>2, <3>3
      <4>3. u \in Seq(Nat) /\ Len(u) = Len(<<x>>)
        BY <3>1, <3>2, <4>1
      <4> HIDE DEF u
      <4> QED BY <4>1, <4>2, <4>3, SeqEqual, Zenon
    <3> QED BY <3>4 DEF n, u
  <2>3. SubSeq(t, a, Len(s)) = SubSeq(s, a, Len(s))
    BY <1>2
  <2> QED BY <2>1, <2>2, <2>3
<1> QED BY <1>1, <1>2, <1>3 DEF t

\* A sequence is empty when its length is 0.
LEMMA EmptyIffNoBytes ==
    ASSUME NEW S, NEW s \in Seq(S)
    PROVE  Len(s) \in Nat /\ (s = <<>> <=> Len(s) = 0)
BY EmptySeq, LenProperties

\* The numbers a segment occupies: its bytes, and one each for a SYN and a FIN.
LEMMA LengthCounted ==
    ASSUME NEW seg \in Segs
    PROVE  /\ Len(seg.data) \in Nat /\ SegmentLength(seg) \in Nat
           /\ "Syn" \in seg.flags /\ "Fin" \in seg.flags => SegmentLength(seg) = Len(seg.data) + 2
           /\ "Syn" \in seg.flags /\ "Fin" \notin seg.flags => SegmentLength(seg) = Len(seg.data) + 1
           /\ "Syn" \notin seg.flags /\ "Fin" \in seg.flags => SegmentLength(seg) = Len(seg.data) + 1
           /\ "Syn" \notin seg.flags /\ "Fin" \notin seg.flags => SegmentLength(seg) = Len(seg.data)
<1> DEFINE marks == seg.flags \cap {"Syn", "Fin"}
<1>0. Len(seg.data) \in Nat
  BY LenProperties DEF Segs
<1>1. Cardinality({}) = 0
  BY FS_EmptySet
<1>2. Cardinality({"Syn"}) = 1 /\ Cardinality({"Fin"}) = 1 /\ IsFiniteSet({"Syn"})
  BY FS_Singleton
<1>3. Cardinality({"Syn"} \cup {"Fin"}) = 2
  BY <1>2, FS_AddElement
<1>8. SegmentLength(seg) = Len(seg.data) + Cardinality(marks)
  BY DEF SegmentLength
<1>4. "Syn" \in seg.flags /\ "Fin" \in seg.flags => Cardinality(marks) = 2
  <2> SUFFICES ASSUME "Syn" \in seg.flags, "Fin" \in seg.flags PROVE Cardinality(marks) = 2
    OBVIOUS
  <2>1. marks = {"Syn"} \cup {"Fin"}
    OBVIOUS
  <2> QED BY <1>3, <2>1, Zenon
<1>5. "Syn" \in seg.flags /\ "Fin" \notin seg.flags => Cardinality(marks) = 1
  <2> SUFFICES ASSUME "Syn" \in seg.flags, "Fin" \notin seg.flags PROVE Cardinality(marks) = 1
    OBVIOUS
  <2>1. marks = {"Syn"}
    OBVIOUS
  <2> QED BY <1>2, <2>1, Zenon
<1>6. "Syn" \notin seg.flags /\ "Fin" \in seg.flags => Cardinality(marks) = 1
  <2> SUFFICES ASSUME "Syn" \notin seg.flags, "Fin" \in seg.flags PROVE Cardinality(marks) = 1
    OBVIOUS
  <2>1. marks = {"Fin"}
    OBVIOUS
  <2> QED BY <1>2, <2>1, Zenon
<1>7. "Syn" \notin seg.flags /\ "Fin" \notin seg.flags => Cardinality(marks) = 0
  <2> SUFFICES ASSUME "Syn" \notin seg.flags, "Fin" \notin seg.flags PROVE Cardinality(marks) = 0
    OBVIOUS
  <2>1. marks = {}
    OBVIOUS
  <2> QED BY <1>1, <2>1, Zenon
<1> HIDE DEF marks
<1> QED BY <1>0, <1>4, <1>5, <1>6, <1>7, <1>8

\* Induction, stated for a set.
LEMMA LeastOf ==
    ASSUME NEW T \in SUBSET Nat, T # {}
    PROVE  \E x \in T : \A y \in T : x <= y
<1> DEFINE R == OpToRel(<, Nat)
<1>1. IsWellFoundedOn(R, Nat)
  BY NatLessThanWellFounded
<1>2. \E x \in T : \A y \in T : ~(<<y, x>> \in R)
  <2> HIDE DEF R
  <2> QED BY <1>1, WFMin
<1>3. \A x, y \in Nat : y < x => <<y, x>> \in R
  BY DEF OpToRel
<1> HIDE DEF R
<1>4. PICK x \in T : \A y \in T : ~(<<y, x>> \in R)
  BY <1>2
<1>5. \A y \in T : ~(y < x)
  BY <1>3, <1>4
<1>6. \A y \in T : x <= y
  BY <1>5
<1> QED BY <1>6

\* Counting from 0 to N stays in a set that every count below N leads on in: no induction over
\* data is needed.
LEMMA UpTo ==
    ASSUME NEW N \in Nat, NEW T, 0 \in T,
           \A n \in Nat : n \in T /\ n < N => n + 1 \in T
    PROVE  \A n \in 0 .. N : n \in T
<1> SUFFICES ASSUME NEW n \in 0 .. N, n \notin T PROVE FALSE
  OBVIOUS
<1> DEFINE B == {j \in 0 .. N : j \notin T}
<1>1. PICK m \in B : \A y \in B : m <= y
  <2>1. B \in SUBSET Nat /\ B # {}
    OBVIOUS
  <2> HIDE DEF B
  <2> QED BY <2>1, LeastOf
<1>2. m # 0 /\ m \in Nat /\ m <= N
  OBVIOUS
<1>3. m - 1 \in Nat /\ m - 1 \notin B
  BY <1>1, <1>2
<1>4. m - 1 \in T
  BY <1>2, <1>3
<1>5. m \in T
  BY <1>2, <1>3, <1>4
<1> QED BY <1>5

\* How far a connection has received is a positive number.
LEMMA PosType ==
    ASSUME NEW k, IsAround(k), NEW c, Typed(c)
    PROVE  /\ Len(c.recv_buf) \in Nat /\ Pos(k, c) \in Nat /\ Pos(k, c) >= 1
           /\ One(c.fin_received) \in 0 .. 1 /\ One(c.fin_queued) \in 0 .. 1
<1>1. Len(c.recv_buf) \in Nat
  BY LenProperties DEF Typed
<1>2. c.fin_received \in BOOLEAN /\ c.fin_queued \in BOOLEAN /\ k.read \in Nat
  BY DEF Typed, IsAround
<1>3. One(c.fin_received) \in 0 .. 1 /\ One(c.fin_queued) \in 0 .. 1
  BY <1>2 DEF One
<1> QED BY <1>1, <1>2, <1>3, SMTT(30) DEF Pos

\* The positions of a connection are numbers in range.
LEMMA OffsetType ==
    ASSUME NEW c, Typed(c)
    PROVE  /\ Una(c) \in Nos /\ Nxt(c) \in Nos /\ Top(c) \in Nos /\ Buf(c) \in Nos
           /\ Len(c.send_buf) \in Nat /\ End(c) \in Nat /\ Horizon(c) \in 0 .. M
<1>1. Una(c) \in Nos /\ Nxt(c) \in Nos /\ Top(c) \in Nos /\ Buf(c) \in Nos
  BY SubCases DEF Typed, Una, Nxt, Top, Buf
<1>2. Len(c.send_buf) \in Nat
  BY LenProperties DEF Typed
<1> QED BY <1>1, <1>2, HalfIsHalf DEF Nos, End, Horizon

\* A segment that belongs to a stream still does when more is known of both streams.
LEMMA BelongsGrows ==
    ASSUME NEW iss \in Nos, NEW irs \in Nos, NEW s \in Seq(Nat),
           NEW ended, NEW ended2, ended => ended2,
           NEW pos \in Nat, NEW pos2 \in Nat, pos <= pos2,
           NEW horizon \in Nat, NEW horizon2 \in Nat, horizon <= horizon2,
           NEW seg, Belongs(iss, irs, s, ended, pos, horizon, seg)
    PROVE  Belongs(iss, irs, s, ended2, pos2, horizon2, seg)
<1>1. seg \in Segs
  BY DEF Belongs
<1>2. CASE "Rst" \in seg.flags
  BY <1>1, <1>2 DEF Belongs
<1>3. CASE "Rst" \notin seg.flags
  <2>1. SeqSub(seg.seq, iss) \in Nat /\ SeqSub(seg.ack, irs) \in Nat
    BY <1>1, SubCases DEF Segs, Nos
  <2>2. SegmentLength(seg) \in Nat
    BY <1>1, LengthCounted
  <2>3. SegmentLength(seg) > 0 => SeqSub(seg.seq, iss) < horizon2
    BY <1>3, <2>1, <2>2 DEF Belongs
  <2>4. "Ack" \in seg.flags => SeqSub(seg.ack, irs) \in 1 .. pos2
    BY <1>3 DEF Belongs
  <2>5. "Fin" \in seg.flags => ended2 /\ SeqSub(seg.seq, iss) + Len(seg.data) = Len(s) + 1
    BY <1>3 DEF Belongs
  <2> QED BY <1>1, <1>3, <2>3, <2>4, <2>5 DEF Belongs
<1> QED BY <1>2, <1>3

\* A segment that belongs to a connection still does when the connection goes on.
LEMMA LeavesGrows ==
    ASSUME NEW k, IsAround(k), NEW c, Typed(c), NEW d, Typed(d), Grows(k, c, d),
           NEW seg, Leaves(k, c, seg)
    PROVE  Leaves(k, d, seg)
<1>1. Pos(k, c) \in Nat /\ Pos(k, d) \in Nat
  BY PosType
<1>2. Horizon(c) \in Nat /\ Horizon(d) \in Nat
  BY OffsetType, HalfIsHalf
<1>3. k.iss \in Nos /\ k.irs \in Nos /\ k.sent \in Seq(Nat)
  BY DEF IsAround
<1> QED BY <1>1, <1>2, <1>3, BelongsGrows DEF Leaves, Grows

\* What is in the out list still belongs when the connection goes on.
LEMMA OutKept ==
    ASSUME NEW k, IsAround(k), NEW c, Typed(c), OutOK(k, c), NEW d, Typed(d), Grows(k, c, d),
           d.out = c.out
    PROVE  OutOK(k, d)
BY LeavesGrows DEF OutOK

\* So does the list with one more segment that belongs.
LEMMA OutMore ==
    ASSUME NEW k, IsAround(k), NEW c, Typed(c), OutOK(k, c), NEW d, Typed(d), Grows(k, c, d),
           NEW seg, Leaves(k, d, seg), d.out = Append(c.out, seg)
    PROVE  OutOK(k, d)
<1>1. seg \in Segs
  BY DEF Leaves, Belongs
<1>2. /\ Append(c.out, seg) \in Seq(Segs) /\ Len(Append(c.out, seg)) = Len(c.out) + 1
      /\ Append(c.out, seg)[Len(c.out) + 1] = seg
      /\ \A i \in 1 .. Len(c.out) : Append(c.out, seg)[i] = c.out[i]
      /\ Len(c.out) \in Nat
  BY <1>1 DEF OutOK
<1>3. ASSUME NEW i \in 1 .. Len(c.out) + 1
      PROVE  Leaves(k, d, Append(c.out, seg)[i])
  <2>1. CASE i = Len(c.out) + 1
    BY <1>2, <2>1
  <2>2. CASE i # Len(c.out) + 1
    <3>1. i \in 1 .. Len(c.out)
      BY <1>2, <2>2
    <3>2. Leaves(k, c, c.out[i])
      BY <3>1 DEF OutOK
    <3>3. Leaves(k, d, c.out[i])
      BY <3>2, LeavesGrows
    <3> QED BY <1>2, <3>1, <3>3
  <2> QED BY <2>1, <2>2
<1> QED BY <1>2, <1>3 DEF OutOK

-----------------------------------------------------------------------------

\* What sending leaves alone.
LEMMA SameFields ==
    ASSUME NEW c, NEW d, Same(c, d, SendFields)
    PROVE  /\ DOMAIN d = Fields
           /\ d.state = c.state /\ d.error = c.error /\ d.iss = c.iss /\ d.snd_una = c.snd_una
           /\ d.buf_seq = c.buf_seq /\ d.snd_wnd = c.snd_wnd /\ d.send_buf = c.send_buf
           /\ d.fin_queued = c.fin_queued /\ d.cwnd = c.cwnd /\ d.ssthresh = c.ssthresh
           /\ d.retries = c.retries /\ d.time_wait = c.time_wait /\ d.irs = c.irs
           /\ d.rcv_nxt = c.rcv_nxt /\ d.rcv_offset = c.rcv_offset /\ d.recv_buf = c.recv_buf
           /\ d.out_of_order = c.out_of_order /\ d.peer_fin_seq = c.peer_fin_seq
           /\ d.fin_received = c.fin_received
           /\ d.in_recovery = c.in_recovery /\ d.recover = c.recover
           /\ Una(d) = Una(c) /\ Buf(d) = Buf(c) /\ End(d) = End(c)
           /\ \A k : Pos(k, d) = Pos(k, c)
BY DEF Same, Fields, NewConnection, SendFields, Una, Buf, End, Pos

\* Sending nothing is a way of sending.
LEMMA SentNothing ==
    ASSUME NEW k, NEW c, Ready(k, c)
    PROVE  Sent(k, c, c)
<1>1. Typed(c) /\ DOMAIN c = Fields
  BY DEF Ready, Typed
<1>2. Nxt(c) \in Nat /\ Top(c) \in Nat
  BY <1>1, OffsetType DEF Nos
<1> QED BY <1>1, <1>2 DEF Ready, Sent, Same

\* Who sent can send again.
LEMMA ReadyAfter ==
    ASSUME NEW k, NEW c, Ready(k, c), NEW d, Sent(k, c, d)
    PROVE  Ready(k, d)
<1>1. Typed(c) /\ Typed(d)
  BY DEF Ready, Sent
<1>2. Una(c) \in Nat /\ Nxt(c) \in Nat /\ Nxt(d) \in Nat /\ Top(c) \in Nat /\ Top(d) \in Nat
  BY <1>1, OffsetType DEF Nos
<1>3. Same(c, d, SendFields)
  BY DEF Sent
<1> QED BY <1>1, <1>2, <1>3, SameFields DEF Ready, Sent

\* Sending twice is sending.
LEMMA SentTwice ==
    ASSUME NEW k, NEW c, Ready(k, c), NEW d, Sent(k, c, d), NEW e, Sent(k, d, e)
    PROVE  Sent(k, c, e)
<1>1. Typed(c) /\ Typed(d) /\ Typed(e)
  BY DEF Ready, Sent
<1>2. /\ Nxt(c) \in Nat /\ Nxt(d) \in Nat /\ Nxt(e) \in Nat
      /\ Top(c) \in Nat /\ Top(d) \in Nat /\ Top(e) \in Nat
  BY <1>1, OffsetType DEF Nos
<1>3. Same(c, d, SendFields) /\ Same(d, e, SendFields)
  BY DEF Sent
<1>4. Same(c, e, SendFields)
  BY <1>3 DEF Same
<1>5. End(d) = End(c) /\ d.fin_queued = c.fin_queued
  BY <1>3, SameFields
<1> QED BY <1>1, <1>2, <1>4, <1>5 DEF Sent

-----------------------------------------------------------------------------

\* What EmitSegment changes.
LEMMA EmitFrame ==
    ASSUME NEW c, DOMAIN c = Fields, NEW seq, NEW flags, NEW data
    PROVE  Emits(c, EmitSegment(c, seq, flags, data), Emitted(c, seq, flags, data), flags)
BY DEF Emits, EmitSegment, Emitted, EmitFields, Fields, Same, NewConnection

\* A segment that may leave may be emitted.
LEMMA EmitSent ==
    ASSUME NEW k, IsAround(k), NEW c, Typed(c), OutOK(k, c), NEW seq, NEW flags, NEW data,
           Leaves(k, c, Emitted(c, seq, flags, data)),
           Nxt(c) <= Top(c), Top(c) <= End(c) + One(c.fin_queued)
    PROVE  Sent(k, c, EmitSegment(c, seq, flags, data))
<1> DEFINE d == EmitSegment(c, seq, flags, data)
           seg == Emitted(c, seq, flags, data)
<1>1. /\ Same(c, d, EmitFields)
      /\ d.out = Append(c.out, seg)
      /\ \/ d.unacked_segments = 0 /\ d.delayed_ack = FALSE
         \/ d.unacked_segments = c.unacked_segments /\ d.delayed_ack = c.delayed_ack
  <2>1. Emits(c, d, seg, flags)
    BY EmitFrame DEF Typed
  <2> HIDE DEF d, seg
  <2> QED BY <2>1 DEF Emits
<1> HIDE DEF d, seg
<1>2. Same(c, d, SendFields)
  BY <1>1 DEF Same, SendFields, EmitFields
<1>3. /\ d.snd_nxt = c.snd_nxt /\ d.snd_max = c.snd_max /\ d.retransmit = c.retransmit
      /\ d.persist = c.persist /\ DOMAIN d = Fields
  BY <1>1 DEF Same, EmitFields, Fields, NewConnection
<1>4. Typed(d)
  <2>1. d.unacked_segments \in Nat /\ d.delayed_ack \in BOOLEAN
    <3>1. c.unacked_segments \in Nat /\ c.delayed_ack \in BOOLEAN
      BY DEF Typed
    <3>2. d.unacked_segments \in Nat
      BY <1>1, <3>1
    <3>3. d.delayed_ack \in BOOLEAN
      BY <1>1, <3>1, Zenon
    <3> QED BY <3>2, <3>3
  <2> QED BY <1>2, <1>3, <2>1, SameFields, SMTT(30) DEF Typed
<1>5. Top(d) = Top(c) /\ Nxt(d) = Nxt(c)
  BY <1>2, <1>3, SameFields DEF Top, Nxt
<1>6. Grows(k, c, d) /\ Grows(k, d, c)
  BY <1>2, <1>4, <1>5, SameFields, PosType, OffsetType DEF Grows, Horizon
<1>7. Leaves(k, d, seg)
  BY <1>4, <1>6, LeavesGrows DEF seg
<1>8. OutOK(k, d)
  BY <1>1, <1>4, <1>6, <1>7, OutMore
<1> QED BY <1>1, <1>2, <1>3, <1>4, <1>5, <1>8, OffsetType DEF Sent, d, Nos

\* A number in range is its own remainder.
LEMMA NumberItself ==
    ASSUME NEW a \in Nos
    PROVE  a % M = a
<1>1. M \in Nat /\ \A x \in 0 .. M - 1 : x % M = x
  BY HalfIsHalf
<1> QED BY <1>1 DEF Nos

\* The window offered is a number (ReceiveWindow).
LEMMA WindowType ==
    ASSUME NEW c, Typed(c)
    PROVE  ReceiveWindow(c) \in Nat
<1>1. Len(c.recv_buf) \in Nat
  BY LenProperties DEF Typed
<1> QED BY <1>1, SizeAssumption DEF ReceiveWindow, Least

\* What EmitSegment makes is a segment with the flags and the data asked for.
LEMMA EmittedType ==
    ASSUME NEW c, Typed(c), NEW seq \in Int, NEW flags \in SUBSET Flags, NEW data \in Seq(Nat),
           NEW seg, seg = Emitted(c, seq, flags, data)
    PROVE  /\ seg \in Segs /\ seg.seq = seq % M /\ seg.flags = flags /\ seg.data = data
           /\ "Ack" \in flags => seg.ack = c.rcv_nxt
<1>1. seq % M \in Nos
  BY HalfIsHalf DEF Nos
<1>2. ReceiveWindow(c) \in Nat
  BY WindowType
<1>3. c.rcv_nxt \in Nos /\ 0 \in Nos
  BY HalfIsHalf DEF Typed, Nos
<1>4. CASE "Ack" \in flags
  BY <1>1, <1>2, <1>3, <1>4 DEF Emitted, Segment, Segs
<1>5. CASE "Ack" \notin flags
  BY <1>1, <1>2, <1>3, <1>5 DEF Emitted, Segment, Segs
<1> QED BY <1>4, <1>5

\* A pure acknowledgement from anywhere in what was sent.
LEMMA AckBelongs ==
    ASSUME NEW k, NEW c, Acks(k, c), NEW seq \in Int, NEW h \in Nat
    PROVE  Belongs(k.iss, k.irs, k.sent, c.fin_queued, Pos(k, c), h, Emitted(c, seq, {"Ack"}, <<>>))
<1> DEFINE seg == Emitted(c, seq, {"Ack"}, <<>>)
<1>0. Typed(c) /\ SeqSub(c.rcv_nxt, k.irs) \in 1 .. Pos(k, c) /\ k.iss \in Nos
  BY DEF Acks, IsAround
<1>1. /\ seg \in Segs /\ seg.flags = {"Ack"} /\ seg.data = <<>>
      /\ seg.ack = c.rcv_nxt
  <2> DEFINE f == {"Ack"}
             b == <<>>
  <2>1. f \in SUBSET Flags /\ b \in Seq(Nat) /\ "Ack" \in f
    BY EmptySeq DEF Flags
  <2>2. seg = Emitted(c, seq, f, b)
    OBVIOUS
  <2> HIDE DEF seg, f, b
  <2>3. seg \in Segs /\ seg.seq = seq % M /\ seg.flags = f /\ seg.data = b /\ seg.ack = c.rcv_nxt
    BY <1>0, <2>1, <2>2, EmittedType
  <2> QED BY <2>3, Zenon DEF f, b
<1>2. SegmentLength(seg) = 0
  <2>1. "Syn" \notin seg.flags /\ "Fin" \notin seg.flags /\ Len(seg.data) = 0
    BY <1>1
  <2> QED BY <1>1, <2>1, LengthCounted
<1> HIDE DEF seg
<1>4. Belongs(k.iss, k.irs, k.sent, c.fin_queued, Pos(k, c), h, seg)
  BY <1>0, <1>1, <1>2 DEF Belongs
<1> QED BY <1>4 DEF seg

\* A piece of the send buffer.
LEMMA DataBelongs ==
    ASSUME NEW k, NEW c, Ready(k, c), NEW seq \in Nos, NEW len \in Nat, len > 0,
           Buf(c) <= SeqSub(seq, k.iss), SeqSub(seq, k.iss) + len <= End(c),
           NEW h \in Nat, SeqSub(seq, k.iss) < h
    PROVE  LET offset == SeqSub(seq, c.buf_seq)
               data == SubSeq(c.send_buf, offset + 1, offset + len)
           IN  Belongs(k.iss, k.irs, k.sent, c.fin_queued, Pos(k, c), h,
                       Emitted(c, seq, {"Ack"}, data))
<1> DEFINE s == SeqSub(seq, k.iss)
           offset == SeqSub(seq, c.buf_seq)
           data == SubSeq(c.send_buf, offset + 1, offset + len)
           seg == Emitted(c, seq, {"Ack"}, data)
<1>0. /\ Typed(c) /\ SeqSub(c.rcv_nxt, k.irs) \in 1 .. Pos(k, c) /\ k.iss \in Nos
      /\ c.iss = k.iss /\ c.buf_seq \in Nos /\ k.sent \in Seq(Nat) /\ Buf(c) >= 1
      /\ End(c) = Len(k.sent) + 1 /\ c.send_buf = SubSeq(k.sent, Buf(c), Len(k.sent))
  BY DEF Ready, IsAround, Typed
<1>1. s \in Nat /\ Buf(c) \in Nat /\ Len(c.send_buf) \in Nat
  <2>1. s \in Nos
    BY <1>0, SubCases
  <2>2. Buf(c) \in Nos /\ Len(c.send_buf) \in Nat
    BY <1>0, OffsetType
  <2> QED BY <2>1, <2>2, HalfIsHalf DEF Nos
<1>2. offset = s - Buf(c) /\ offset \in Nat
  <2>1. SeqSub(seq, c.iss) >= SeqSub(c.buf_seq, c.iss)
    BY <1>0, <1>1 DEF Buf
  <2>2. offset = SeqSub(seq, c.iss) - SeqSub(c.buf_seq, c.iss)
    BY <1>0, <2>1, SubDiff
  <2> QED BY <1>0, <1>1, <2>2, SMTT(30) DEF Buf
<1>3. data = SubSeq(k.sent, s, s + len - 1)
  <2>1. Buf(c) \in Nat \ {0} /\ Len(k.sent) \in Nat /\ Buf(c) <= Len(k.sent) + 1
        /\ offset + 1 \in Nat \ {0} /\ offset + len \in Nat /\ offset + 1 <= (offset + len) + 1
        /\ offset + len <= Len(k.sent) - Buf(c) + 1
    <3>1. Len(k.sent) \in Nat /\ s + len <= Len(k.sent) + 1
      BY <1>0, LenProperties
    <3>2. Buf(c) <= s
      OBVIOUS
    <3> DEFINE n == Len(k.sent)
               b == Buf(c)
    <3>3. n \in Nat /\ s + len <= n + 1 /\ b <= s /\ s \in Nat /\ b \in Nat /\ b >= 1
          /\ offset = s - b
      BY <1>0, <1>1, <1>2, <3>1, <3>2
    <3> HIDE DEF s, offset, n, b
    <3>4. b \in Nat \ {0} /\ n \in Nat /\ b <= n + 1
          /\ offset + 1 \in Nat \ {0} /\ offset + len \in Nat /\ offset + 1 <= (offset + len) + 1
          /\ offset + len <= n - b + 1
      BY <3>3
    <3> QED BY <3>4 DEF n, b
  <2>2. data = SubSeq(k.sent, Buf(c) + (offset + 1) - 1, Buf(c) + (offset + len) - 1)
    <3> DEFINE i == offset + 1
               j == offset + len
               n == Len(k.sent)
    <3>1. n \in Nat /\ i \in Nat \ {0} /\ j \in Nat /\ i <= j + 1 /\ j <= n - Buf(c) + 1
          /\ Buf(c) <= n + 1 /\ n <= Len(k.sent)
      BY <2>1
    <3>0. k.sent \in Seq(Nat) /\ Buf(c) \in Nat \ {0}
      BY <1>0, <2>1
    <3> HIDE DEF i, j, n
    <3> DEFINE b == Buf(c)
    <3> HIDE DEF b
    <3>2. SubSeq(SubSeq(k.sent, b, n), i, j) = SubSeq(k.sent, b + i - 1, b + j - 1)
      <4>1. k.sent \in Seq(Nat) /\ b \in Nat \ {0} /\ n \in Nat /\ b <= n + 1 /\ n <= Len(k.sent)
            /\ i \in Nat \ {0} /\ j \in Nat /\ i <= j + 1 /\ j <= n - b + 1
        BY <3>0, <3>1 DEF b
      <4> QED BY <4>1, PieceOfPiece
    <3> QED BY <1>0, <3>2 DEF i, j, n, b
  <2>3. Buf(c) + (offset + 1) - 1 = s /\ Buf(c) + (offset + len) - 1 = s + len - 1
    <3> HIDE DEF s, offset
    <3> QED BY <1>1, <1>2
  <2> QED BY <2>2, <2>3
<1>4. data \in Seq(Nat) /\ Len(data) = len
  <2>1. s \in Nat \ {0} /\ s + len - 1 \in Nat /\ s + len - 1 <= Len(k.sent) /\ s <= (s + len - 1) + 1
    <3>1. Len(k.sent) \in Nat /\ s + len <= Len(k.sent) + 1
      BY <1>0, LenProperties
    <3>2. Buf(c) <= s
      OBVIOUS
    <3> HIDE DEF s
    <3> QED BY <1>0, <1>1, <3>1, <3>2
  <2> HIDE DEF data, s
  <2>2. data \in Seq(Nat) /\ Len(data) = (s + len - 1) - s + 1
    BY <1>0, <1>3, <2>1, Piece
  <2> QED BY <2>1, <2>2
<1> HIDE DEF offset, data
<1>5. /\ seg \in Segs /\ seg.seq = seq /\ seg.flags = {"Ack"} /\ seg.data = data
      /\ seg.ack = c.rcv_nxt
  <2> DEFINE f == {"Ack"}
             b == data
  <2>1. f \in SUBSET Flags /\ b \in Seq(Nat) /\ "Ack" \in f
    BY <1>4, EmptySeq DEF Flags
  <2>2. seg = Emitted(c, seq, f, b)
    OBVIOUS
  <2> HIDE DEF seg, f, b
  <2>5. seq \in Int
    BY HalfIsHalf DEF Nos
  <2>3. seg \in Segs /\ seg.seq = seq % M /\ seg.flags = f /\ seg.data = b /\ seg.ack = c.rcv_nxt
    BY <1>0, <2>5, <2>1, <2>2, EmittedType
  <2>4. seq % M = seq
    BY NumberItself
  <2> QED BY <2>3, <2>4, Zenon DEF f, b
<1> HIDE DEF seg
<1>6. SegmentLength(seg) = len
  BY <1>4, <1>5, LengthCounted
<1>7. Belongs(k.iss, k.irs, k.sent, c.fin_queued, Pos(k, c), h, seg)
  <2>1. /\ s >= 1 /\ s + Len(seg.data) <= Len(k.sent) + 1
        /\ s < h
    BY <1>0, <1>1, <1>4, <1>5, <1>6
  <2>2. /\ seg.data = SubSeq(k.sent, s, s + Len(seg.data) - 1)
        /\ s = SeqSub(seg.seq, k.iss)
    BY <1>3, <1>4, <1>5
  <2> HIDE DEF s
  <2> QED BY <1>0, <1>5, <2>1, <2>2 DEF Belongs
<1> QED BY <1>7 DEF seg, data, offset

\* The FIN comes after the last byte.
LEMMA FinBelongs ==
    ASSUME NEW k, NEW c, Ready(k, c), c.fin_queued, NEW h \in Nat, End(c) < h
    PROVE  /\ FinSeq(c) \in Nos /\ SeqSub(FinSeq(c), c.iss) = End(c)
           /\ Belongs(k.iss, k.irs, k.sent, c.fin_queued, Pos(k, c), h,
                      Emitted(c, FinSeq(c), {"Fin", "Ack"}, <<>>))
<1> DEFINE seg == Emitted(c, FinSeq(c), {"Fin", "Ack"}, <<>>)
<1>0. /\ Typed(c) /\ SeqSub(c.rcv_nxt, k.irs) \in 1 .. Pos(k, c) /\ k.iss \in Nos
      /\ c.iss = k.iss /\ c.buf_seq \in Nos /\ End(c) = Len(k.sent) + 1
      /\ Len(k.sent) \in Nat /\ Len(k.sent) + 2 < Half
  BY LenProperties DEF Ready, IsAround, Typed
<1>1. FinSeq(c) \in Nos /\ SeqSub(FinSeq(c), c.iss) = End(c)
  <2>1. Len(c.send_buf) \in Int
    BY <1>0, OffsetType
  <2>2. End(c) \in Nos
    BY <1>0, HalfIsHalf DEF Nos
  <2>3. SeqSub(c.buf_seq, c.iss) + Len(c.send_buf) = End(c)
    BY DEF End, Buf
  <2>4. SeqSub((c.buf_seq + Len(c.send_buf)) % M, c.iss) = SeqSub(c.buf_seq, c.iss) + Len(c.send_buf)
        /\ (c.buf_seq + Len(c.send_buf)) % M \in Nos
    BY <1>0, <2>1, <2>2, <2>3, SubAdd
  <2> QED BY <2>3, <2>4 DEF FinSeq
<1>2. /\ seg \in Segs /\ seg.seq = FinSeq(c) /\ seg.flags = {"Fin", "Ack"} /\ seg.data = <<>>
      /\ seg.ack = c.rcv_nxt
  <2> DEFINE f == {"Fin", "Ack"}
             b == <<>>
  <2>1. f \in SUBSET Flags /\ b \in Seq(Nat) /\ "Ack" \in f
    BY EmptySeq DEF Flags
  <2>2. seg = Emitted(c, FinSeq(c), f, b)
    OBVIOUS
  <2> HIDE DEF seg, f, b
  <2>5. FinSeq(c) \in Int
    BY <1>1, HalfIsHalf DEF Nos
  <2>3. seg \in Segs /\ seg.seq = FinSeq(c) % M /\ seg.flags = f /\ seg.data = b /\ seg.ack = c.rcv_nxt
    BY <1>0, <2>5, <2>1, <2>2, EmittedType
  <2>4. FinSeq(c) % M = FinSeq(c)
    BY <1>1, NumberItself
  <2> QED BY <2>3, <2>4, Zenon DEF f, b
<1> HIDE DEF seg
<1>3. SegmentLength(seg) = 1 /\ Len(seg.data) = 0
  BY <1>2, LengthCounted
<1>4. Belongs(k.iss, k.irs, k.sent, c.fin_queued, Pos(k, c), h, seg)
  BY <1>0, <1>1, <1>2, <1>3 DEF Belongs
<1> QED BY <1>1, <1>4 DEF seg

\* Where the numbers of a connection that is ready to send are.
LEMMA Places ==
    ASSUME NEW k, NEW c, Ready(k, c)
    PROVE  /\ Una(c) \in Nat /\ Nxt(c) \in Nat /\ Top(c) \in Nat /\ Buf(c) \in Nat /\ End(c) \in Nat
           /\ End(c) + 1 < Half /\ Top(c) < Half /\ Buf(c) <= End(c)
           /\ 1 <= Buf(c) /\ Buf(c) <= Una(c) /\ Una(c) <= Nxt(c) /\ Nxt(c) <= Top(c)
           /\ Top(c) <= End(c) + One(c.fin_queued) /\ One(c.fin_queued) \in 0 .. 1
           /\ c.fin_queued => One(c.fin_queued) = 1
           /\ ~c.fin_queued => One(c.fin_queued) = 0
           /\ End(c) = Buf(c) + Len(c.send_buf) /\ Len(c.send_buf) \in Nat
<1>1. Typed(c) /\ IsAround(k)
  BY DEF Ready
<1>2. Una(c) \in Nat /\ Nxt(c) \in Nat /\ Top(c) \in Nat /\ Buf(c) \in Nat /\ End(c) \in Nat
      /\ Len(c.send_buf) \in Nat
  BY <1>1, OffsetType DEF Nos
<1>3. One(c.fin_queued) \in 0 .. 1
  BY <1>1, PosType
<1>4. Len(k.sent) \in Nat /\ Len(k.sent) + 2 < Half
  BY <1>1, LenProperties DEF IsAround
<1>5. End(c) = Buf(c) + Len(c.send_buf)
  BY DEF End
<1>6. End(c) = Len(k.sent) + 1 /\ 1 <= Buf(c) /\ Buf(c) <= Una(c) /\ Una(c) <= Nxt(c)
      /\ Nxt(c) <= Top(c) /\ Top(c) <= End(c) + One(c.fin_queued)
  BY <1>2 DEF Ready
<1>7. (c.fin_queued => One(c.fin_queued) = 1) /\ (~c.fin_queued => One(c.fin_queued) = 0)
  BY DEF One
<1>8. End(c) + 1 < Half /\ Top(c) < Half /\ Buf(c) <= End(c)
  <2> DEFINE one == One(c.fin_queued)
  <2>1. one \in 0 .. 1 /\ Top(c) <= End(c) + one
    BY <1>3, <1>6
  <2> HIDE DEF one
  <2>2. End(c) = Len(k.sent) + 1 /\ Half \in Nat
    BY <1>6, HalfIsHalf
  <2>3. End(c) + 1 < Half
    BY <1>2, <1>4, <2>2
  <2>4. Buf(c) <= End(c)
    BY <1>2, <1>5
  <2>5. Top(c) < Half
    BY <1>2, <2>1, <2>2, <2>3
  <2> QED BY <2>3, <2>4, <2>5
<1> QED BY <1>2, <1>3, <1>5, <1>6, <1>7, <1>8

\* The position of the FIN, and what FinSent and FinAcked say in positions.
LEMMA FinPlace ==
    ASSUME NEW c, Typed(c), End(c) + 1 < Half, Una(c) < Half, Top(c) < Half
    PROVE  /\ FinSeq(c) \in Nos /\ SeqSub(FinSeq(c), c.iss) = End(c)
           /\ (FinSeq(c) + 1) % M \in Nos /\ SeqSub((FinSeq(c) + 1) % M, c.iss) = End(c) + 1
           /\ FinSent(c) <=> c.fin_queued /\ End(c) < Top(c)
           /\ FinAcked(c) <=> c.fin_queued /\ End(c) < Una(c)
<1>1. c.buf_seq \in Nos /\ c.iss \in Nos /\ c.snd_una \in Nos /\ c.snd_max \in Nos
  BY DEF Typed
<1>2. Len(c.send_buf) \in Nat /\ End(c) \in Nat
  BY OffsetType
<1>3. SeqSub(c.buf_seq, c.iss) + Len(c.send_buf) = End(c)
  BY DEF End, Buf
<1>4. End(c) \in Nos /\ End(c) + 1 \in Nos
  BY <1>2, HalfIsHalf DEF Nos
<1>5. SeqSub((c.buf_seq + Len(c.send_buf)) % M, c.iss) = SeqSub(c.buf_seq, c.iss) + Len(c.send_buf)
      /\ (c.buf_seq + Len(c.send_buf)) % M \in Nos
  BY <1>1, <1>2, <1>3, <1>4, SubAdd
<1>6. FinSeq(c) \in Nos /\ SeqSub(FinSeq(c), c.iss) = End(c)
  BY <1>3, <1>5 DEF FinSeq
<1>7. SeqSub((FinSeq(c) + 1) % M, c.iss) = SeqSub(FinSeq(c), c.iss) + 1
      /\ (FinSeq(c) + 1) % M \in Nos
  BY <1>1, <1>2, <1>4, <1>6, SubAdd
<1>8. SeqLt(FinSeq(c), c.snd_max) <=> End(c) < Top(c)
  <2>1. SeqSub(FinSeq(c), c.iss) < Half /\ SeqSub(c.snd_max, c.iss) < Half
    BY <1>2, <1>6, HalfIsHalf DEF Top
  <2> QED BY <1>1, <1>6, <2>1, SubOrder DEF Top
<1>9. SeqLt(FinSeq(c), c.snd_una) <=> End(c) < Una(c)
  <2>1. SeqSub(FinSeq(c), c.iss) < Half /\ SeqSub(c.snd_una, c.iss) < Half
    BY <1>2, <1>6, HalfIsHalf DEF Una
  <2> QED BY <1>1, <1>6, <2>1, SubOrder DEF Una
<1> QED BY <1>2, <1>6, <1>7, <1>8, <1>9 DEF FinSent, FinAcked

\* What Advance, the end of TrySend's loop, changes.
LEMMA AdvanceFrame ==
    ASSUME NEW c, DOMAIN c = Fields, NEW len, NEW d, d = Advance(c, len)
    PROVE  /\ Same(c, d, AdvanceFields)
           /\ d.snd_nxt = (c.snd_nxt + len) % M
           /\ d.snd_max = IF SeqLt(c.snd_max, (c.snd_nxt + len) % M)
                          THEN (c.snd_nxt + len) % M ELSE c.snd_max
           /\ d.retransmit = TRUE
BY DEF Advance, AdvanceFields, Fields, Same, NewConnection

\* A new segment of the stream is sent: the numbers it takes are taken, and its timer runs.
LEMMA Advanced ==
    ASSUME NEW k, NEW c, Ready(k, c), NEW flags, NEW data, NEW len \in Nat \ {0},
           "Ack" \in flags,
           Nxt(c) + len <= End(c) + One(c.fin_queued),
           Belongs(k.iss, k.irs, k.sent, c.fin_queued, Pos(k, c), Nxt(c) + len,
                   Emitted(c, c.snd_nxt, flags, data)),
           NEW d, d = Advance(EmitSegment(c, c.snd_nxt, flags, data), len)
    PROVE  Sent(k, c, d) /\ d.retransmit = TRUE /\ Nxt(d) = Nxt(c) + len
<1> DEFINE e == EmitSegment(c, c.snd_nxt, flags, data)
           seg == Emitted(c, c.snd_nxt, flags, data)
           next == (c.snd_nxt + len) % M
           n == Nxt(c) + len
<1>0. Typed(c) /\ IsAround(k) /\ OutOK(k, c) /\ DOMAIN c = Fields /\ c.iss \in Nos
      /\ c.snd_nxt \in Nos /\ c.snd_max \in Nos
  BY DEF Ready, Typed
<1>1. /\ Same(c, e, EmitFields)
      /\ e.out = Append(c.out, seg)
      /\ e.unacked_segments = 0 /\ e.delayed_ack = FALSE
  <2>1. Emits(c, e, seg, flags)
    BY <1>0, EmitFrame
  <2> HIDE DEF e, seg
  <2> QED BY <2>1 DEF Emits
<1>2. d = Advance(e, len)
  OBVIOUS
<1>3. Belongs(k.iss, k.irs, k.sent, c.fin_queued, Pos(k, c), n, seg)
  OBVIOUS
<1>a. e.snd_nxt = c.snd_nxt /\ e.snd_max = c.snd_max /\ DOMAIN e = Fields
  <2> HIDE DEF e, seg
  <2> QED BY <1>1 DEF Same, EmitFields, AdvanceFields, Fields, NewConnection
<1> HIDE DEF e, seg
<1>4. /\ Same(e, d, AdvanceFields)
      /\ d.snd_nxt = next
      /\ d.snd_max = IF SeqLt(c.snd_max, next) THEN next ELSE c.snd_max
      /\ d.retransmit = TRUE
  <2> HIDE DEF next
  <2>1. next = (e.snd_nxt + len) % M /\ e.snd_max = c.snd_max
    BY <1>a DEF next
  <2>2. /\ Same(e, d, AdvanceFields)
        /\ d.snd_nxt = (e.snd_nxt + len) % M
        /\ d.snd_max = IF SeqLt(e.snd_max, (e.snd_nxt + len) % M)
                       THEN (e.snd_nxt + len) % M ELSE e.snd_max
        /\ d.retransmit = TRUE
    BY <1>2, <1>a, AdvanceFrame
  <2> QED BY <2>1, <2>2
<1>5. n \in Nat /\ n < Half /\ n \in Nos /\ Nxt(c) <= n
  BY <1>0, Places, HalfIsHalf, SMTT(30) DEF Nos
<1>6. next \in Nos /\ SeqSub(next, c.iss) = n
  <2>1. SeqSub(c.snd_nxt, c.iss) + len \in Nos
    BY <1>5 DEF Nxt
  <2> QED BY <1>0, <2>1, SubAdd DEF Nxt
<1> HIDE DEF next
<1>7. SeqLt(c.snd_max, next) <=> Top(c) < n
  <2>1. SeqSub(c.snd_max, c.iss) < Half /\ SeqSub(next, c.iss) < Half
    BY <1>5, <1>6, Places DEF Top
  <2> QED BY <1>0, <1>6, <2>1, SubOrder DEF Top
<1>8. Same(c, d, SendFields)
  BY <1>1, <1>4 DEF Same, SendFields, EmitFields, AdvanceFields
<1>9. /\ d.snd_nxt \in Nos /\ d.snd_max \in Nos /\ d.iss = c.iss
      /\ Nxt(d) = n /\ Top(d) = IF Top(c) < n THEN n ELSE Top(c)
  <2>1. d.iss = c.iss
    BY <1>8, SameFields
  <2>2. d.snd_nxt \in Nos /\ d.snd_max \in Nos
    BY <1>0, <1>4, <1>6
  <2>3. Nxt(d) = n
    BY <1>4, <1>6, <2>1 DEF Nxt
  <2>4. CASE Top(c) < n
    BY <1>4, <1>6, <1>7, <2>1, <2>2, <2>3, <2>4 DEF Top
  <2>5. CASE ~(Top(c) < n)
    BY <1>4, <1>6, <1>7, <2>1, <2>2, <2>3, <2>5 DEF Top
  <2> QED BY <2>1, <2>2, <2>3, <2>4, <2>5
<1>10. /\ d.out = e.out /\ d.unacked_segments = 0 /\ d.delayed_ack = FALSE
       /\ d.persist = c.persist
  BY <1>1, <1>4 DEF Same, EmitFields, AdvanceFields, Fields, NewConnection
<1>11. Typed(d)
  <2>1. d.delayed_ack \in BOOLEAN /\ d.retransmit \in BOOLEAN /\ d.unacked_segments \in Nat
    <3>1. d.unacked_segments = 0
      BY <1>10
    <3>2. d.delayed_ack \in BOOLEAN /\ d.retransmit \in BOOLEAN
      BY <1>4, <1>10, Booleans, Zenon
    <3> QED BY <3>1, <3>2
  <2>2. d.persist \in BOOLEAN
    BY <1>0, <1>10, Zenon DEF Typed
  <2> HIDE DEF n
  <2> QED BY <1>0, <1>8, <1>9, <2>1, <2>2, SameFields, SMTT(30) DEF Typed
<1>12. Top(c) <= Top(d) /\ n <= Top(d) /\ Top(d) <= End(c) + One(c.fin_queued)
       /\ Nxt(c) <= Nxt(d) /\ Nxt(d) <= Top(d) /\ Top(d) \in Nat
  BY <1>5, <1>9, Places
<1>13. Horizon(c) <= Horizon(d) /\ n <= Horizon(d)
  <2>1. d.state = c.state
    BY <1>8, SameFields
  <2>2. Top(c) \in Nat /\ Top(d) \in Nat
    BY <1>12, Places
  <2> QED BY <1>5, <1>12, <2>1, <2>2, HalfIsHalf DEF Horizon
<1>14. Grows(k, c, d)
  <2>1. d.fin_queued = c.fin_queued /\ Pos(k, d) = Pos(k, c)
    BY <1>8, SameFields
  <2>2. Pos(k, c) \in Nat
    BY <1>0, PosType
  <2> QED BY <1>13, <2>1, <2>2 DEF Grows
<1>15. Leaves(k, d, seg)
  <2>1. d.fin_queued = c.fin_queued /\ Pos(k, d) = Pos(k, c)
    BY <1>8, SameFields
  <2>2. Pos(k, c) \in Nat /\ Horizon(d) \in Nat /\ k.iss \in Nos /\ k.irs \in Nos /\ k.sent \in Seq(Nat)
    <3>1. Pos(k, c) \in Nat
      BY <1>0, PosType
    <3>2. Horizon(d) \in Nat
      BY <1>11, OffsetType, HalfIsHalf
    <3> QED BY <1>0, <3>1, <3>2 DEF IsAround
  <2> HIDE DEF n
  <2>4. Pos(k, c) <= Pos(k, c) /\ (c.fin_queued => c.fin_queued)
    BY <2>2
  <2>3. Belongs(k.iss, k.irs, k.sent, c.fin_queued, Pos(k, c), Horizon(d), seg)
    BY <1>3, <1>5, <1>13, <2>2, <2>4, BelongsGrows
  <2> QED BY <2>1, <2>3 DEF Leaves
<1>16. OutOK(k, d)
  BY <1>0, <1>1, <1>10, <1>11, <1>14, <1>15, OutMore
<1> QED BY <1>4, <1>8, <1>9, <1>10, <1>11, <1>12, <1>16 DEF Sent

\* What is buffered from a position on.
LEMMA BufferedPlace ==
    ASSUME NEW c, Typed(c), NEW seq \in Nos, SeqSub(seq, c.iss) >= Buf(c)
    PROVE  /\ SeqSub(seq, c.buf_seq) = SeqSub(seq, c.iss) - Buf(c)
           /\ Buffered(c, seq) \in Nat
           /\ SeqSub(seq, c.iss) <= End(c) => Buffered(c, seq) = End(c) - SeqSub(seq, c.iss)
           /\ SeqSub(seq, c.iss) >= End(c) => Buffered(c, seq) = 0
<1>1. c.buf_seq \in Nos /\ c.iss \in Nos
  BY DEF Typed
<1>2. SeqSub(seq, c.buf_seq) = SeqSub(seq, c.iss) - Buf(c)
  BY <1>1, SubDiff DEF Buf
<1>3. SeqSub(seq, c.iss) \in Nat
  BY <1>1, SubCases DEF Nos
<1>4. Buf(c) \in Nat /\ Len(c.send_buf) \in Nat
  BY OffsetType DEF Nos
<1>5. Buffered(c, seq) = Greatest(Len(c.send_buf) - (SeqSub(seq, c.iss) - Buf(c)), 0)
  BY <1>2 DEF Buffered
<1> QED BY <1>2, <1>3, <1>4, <1>5 DEF Greatest, End

\* The loop of TrySend, one round at a time.
LEMMA SendOnceCases ==
    ASSUME NEW c
    PROVE  LET available == Buffered(c, c.snd_nxt)
               flight == SeqSub(c.snd_nxt, c.snd_una)
               usable == Greatest(Least(c.snd_wnd, c.cwnd) - flight, 0)
               len == Least(Least(available, usable), Mss)
               done == FinSent(c) /\ c.snd_nxt = (FinSeq(c) + 1) % M
               fin == available = 0 /\ c.fin_queued /\ c.snd_nxt = FinSeq(c)
               probe == available > 0 /\ c.snd_wnd = 0 /\ c.snd_max = c.snd_una
           IN  \/ done /\ SendOnce(c) = c
               \/ len > 0 /\ SendOnce(c) = Advance(SendData(c, c.snd_nxt, len), len)
               \/ fin /\ SendOnce(c) = Advance(EmitFin(c, c.snd_nxt), 1)
               \/ probe /\ SendOnce(c) = [c EXCEPT !.persist = TRUE]
               \/ ~done /\ ~(len > 0) /\ ~fin /\ ~probe /\ SendOnce(c) = c
BY DEF SendOnce

\* What setting the persist timer changes.
LEMMA PersistFrame ==
    ASSUME NEW c, DOMAIN c = Fields, NEW d, d = [c EXCEPT !.persist = TRUE]
    PROVE  Same(c, d, {"persist"}) /\ d.persist = TRUE
BY DEF Same, Fields, NewConnection

\* Setting the persist timer counts as sending nothing.
LEMMA PersistSent ==
    ASSUME NEW k, NEW c, Ready(k, c), NEW d, d = [c EXCEPT !.persist = TRUE]
    PROVE  Sent(k, c, d) /\ d.persist = TRUE
<1>1. Same(c, d, {"persist"}) /\ d.persist = TRUE
  BY PersistFrame DEF Ready, Typed
<1>2. Same(c, d, SendFields)
  BY <1>1 DEF Same, SendFields
<1>3. /\ d.out = c.out /\ d.last_window = c.last_window /\ d.unacked_segments = c.unacked_segments
      /\ d.delayed_ack = c.delayed_ack /\ d.snd_nxt = c.snd_nxt /\ d.snd_max = c.snd_max
      /\ d.retransmit = c.retransmit /\ DOMAIN d = Fields
  BY <1>1 DEF Same, Fields, NewConnection
<1>4. d.iss = c.iss /\ Pos(k, d) = Pos(k, c) /\ d.fin_queued = c.fin_queued /\ d.state = c.state
  BY <1>2, SameFields
<1>5. Typed(c) /\ IsAround(k) /\ OutOK(k, c)
  BY DEF Ready
<1>6. Typed(d)
  <2>1. d.persist \in BOOLEAN
    BY <1>1, Booleans, Zenon
  <2>2. d.delayed_ack \in BOOLEAN /\ d.retransmit \in BOOLEAN
    BY <1>3, <1>5, Zenon DEF Typed
  <2> QED BY <1>2, <1>3, <1>5, <2>1, <2>2, SameFields DEF Typed
<1>7. Nxt(d) = Nxt(c) /\ Top(d) = Top(c) /\ Horizon(d) = Horizon(c)
  BY <1>3, <1>4 DEF Nxt, Top, Horizon
<1>8. OutOK(k, d)
  <2>1. Grows(k, c, d)
    <3>1. Pos(k, c) \in Nat /\ Horizon(c) \in Nat
      BY <1>5, PosType, OffsetType, HalfIsHalf
    <3> QED BY <1>4, <1>7, <3>1 DEF Grows
  <2> QED BY <1>3, <1>5, <1>6, <2>1, OutKept
<1>9. Nxt(c) <= Nxt(d) /\ Nxt(d) <= Top(d) /\ Top(c) <= Top(d)
      /\ Top(d) <= End(c) + One(c.fin_queued)
  BY <1>7, Places
<1>10. d.persist = TRUE
  BY <1>1
<1> HIDE DEF Same
<1> QED BY <1>2, <1>3, <1>6, <1>8, <1>9, <1>10 DEF Sent

\* One round of TrySend's loop sends what belongs, times what it sends, and leaves nothing without
\* a timer when it ends.
LEMMA SendOnceSent ==
    ASSUME NEW k, NEW c, Ready(k, c), Timed(c)
    PROVE  Sent(k, c, SendOnce(c)) /\ Timed(SendOnce(c)) /\ Covered(SendOnce(c))
<1> DEFINE available == Buffered(c, c.snd_nxt)
           flight == SeqSub(c.snd_nxt, c.snd_una)
           window == Least(c.snd_wnd, c.cwnd)
           usable == Greatest(window - flight, 0)
           len == Least(Least(available, usable), Mss)
           done == FinSent(c) /\ c.snd_nxt = (FinSeq(c) + 1) % M
           fin == available = 0 /\ c.fin_queued /\ c.snd_nxt = FinSeq(c)
           probe == available > 0 /\ c.snd_wnd = 0 /\ c.snd_max = c.snd_una
           d == SendOnce(c)
<1>0. Typed(c) /\ IsAround(k) /\ c.iss = k.iss /\ c.iss \in Nos /\ c.snd_nxt \in Nos
      /\ c.snd_una \in Nos /\ c.snd_max \in Nos /\ c.cwnd > 0 /\ c.cwnd \in Nat /\ c.snd_wnd \in Nat
  BY DEF Ready, Typed
<1>1. \/ done /\ d = c
      \/ len > 0 /\ d = Advance(SendData(c, c.snd_nxt, len), len)
      \/ fin /\ d = Advance(EmitFin(c, c.snd_nxt), 1)
      \/ probe /\ d = [c EXCEPT !.persist = TRUE]
      \/ ~done /\ ~(len > 0) /\ ~fin /\ ~probe /\ d = c
  BY SendOnceCases
<1> HIDE DEF d
<1>2. available \in Nat /\ (Nxt(c) <= End(c) => available = End(c) - Nxt(c))
      /\ (Nxt(c) >= End(c) => available = 0)
  <2>1. SeqSub(c.snd_nxt, c.iss) >= Buf(c)
    BY Places DEF Nxt
  <2> QED BY <1>0, <2>1, BufferedPlace DEF Nxt
<1>3. flight = Nxt(c) - Una(c)
  <2>1. SeqSub(c.snd_nxt, c.iss) >= SeqSub(c.snd_una, c.iss)
    BY Places DEF Nxt, Una
  <2> QED BY <1>0, <2>1, SubDiff DEF Nxt, Una
<1>4. FinSeq(c) \in Nos /\ SeqSub(FinSeq(c), c.iss) = End(c)
      /\ (FinSent(c) <=> c.fin_queued /\ End(c) < Top(c))
  <2>1. Una(c) < Half /\ Top(c) < Half /\ End(c) + 1 < Half
    BY Places, HalfIsHalf
  <2> QED BY <1>0, <2>1, FinPlace
<1>5. c.snd_nxt = FinSeq(c) <=> Nxt(c) = End(c)
  BY <1>0, <1>4, SubInjective DEF Nxt
<1>6. (c.snd_max = c.snd_una <=> Top(c) = Una(c)) /\ (c.snd_max = FinSeq(c) <=> Top(c) = End(c))
  <2>1. c.snd_max = c.snd_una <=> Top(c) = Una(c)
    BY <1>0, SubInjective DEF Top, Una
  <2>2. c.snd_max = FinSeq(c) <=> Top(c) = End(c)
    BY <1>0, <1>4, SubInjective DEF Top
  <2> QED BY <2>1, <2>2
<1>7. Mss \in Nat /\ Mss > 0
  BY SizeAssumption
<1> HIDE DEF available, flight
<1>8. len \in Nat /\ len <= available
  <2>1. window \in Nat /\ usable \in Nat
    BY <1>0, <1>3, Places, SMTT(30) DEF Least, Greatest
  <2> HIDE DEF usable
  <2> QED BY <1>2, <1>7, <2>1 DEF Least
<1>9. CASE done /\ d = c
  <2>1. Sent(k, c, d)
    BY <1>9, SentNothing
  <2>2. Covered(d)
    BY <1>9 DEF Covered, Unsent
  <2> QED BY <1>9, <2>1, <2>2 DEF d
<1>10. CASE len > 0 /\ d = Advance(SendData(c, c.snd_nxt, len), len)
  <2> HIDE DEF len, done
  <2> DEFINE offset == SeqSub(c.snd_nxt, c.buf_seq)
             data == SubSeq(c.send_buf, offset + 1, offset + len)
  <2>1. Nxt(c) + len <= End(c) /\ Buf(c) <= Nxt(c) /\ Nxt(c) + len \in Nat
    BY <1>2, <1>8, <1>10, Places
  <2>2. Belongs(k.iss, k.irs, k.sent, c.fin_queued, Pos(k, c), Nxt(c) + len,
                Emitted(c, c.snd_nxt, {"Ack"}, data))
    <3>1. /\ Buf(c) <= SeqSub(c.snd_nxt, k.iss) /\ SeqSub(c.snd_nxt, k.iss) + len <= End(c)
          /\ SeqSub(c.snd_nxt, k.iss) < Nxt(c) + len /\ len \in Nat /\ len > 0
      <4>1. Nxt(c) \in Nat /\ SeqSub(c.snd_nxt, k.iss) = Nxt(c)
        BY <1>0, Places DEF Nxt
      <4> QED BY <1>8, <1>10, <2>1, <4>1
    <3> QED BY <1>0, <2>1, <3>1, DataBelongs
  <2>3. SendData(c, c.snd_nxt, len) = EmitSegment(c, c.snd_nxt, {"Ack"}, data)
    BY DEF SendData
  <2>4. Sent(k, c, d) /\ d.retransmit = TRUE
    <3> DEFINE flags == {"Ack"}
    <3>1. "Ack" \in flags /\ len \in Nat \ {0} /\ Nxt(c) + len <= End(c) + One(c.fin_queued)
      BY <1>8, <1>10, <2>1, Places
    <3>2. Belongs(k.iss, k.irs, k.sent, c.fin_queued, Pos(k, c), Nxt(c) + len,
                  Emitted(c, c.snd_nxt, flags, data))
      BY <2>2
    <3>3. d = Advance(EmitSegment(c, c.snd_nxt, flags, data), len)
      BY <1>10, <2>3
    <3> HIDE DEF flags, data
    <3> QED BY <3>1, <3>2, <3>3, Advanced
  <2> QED BY <2>4 DEF Timed, Covered, d
<1>11. CASE fin /\ d = Advance(EmitFin(c, c.snd_nxt), 1)
  <2>1. Nxt(c) = End(c) /\ c.fin_queued /\ End(c) + 1 \in Nat /\ End(c) < End(c) + 1
    BY <1>5, <1>11, Places
  <2>2. Belongs(k.iss, k.irs, k.sent, c.fin_queued, Pos(k, c), End(c) + 1,
                Emitted(c, FinSeq(c), {"Fin", "Ack"}, <<>>))
    BY <2>1, FinBelongs
  <2>4. Sent(k, c, d) /\ d.retransmit = TRUE
    <3> DEFINE flags == {"Fin", "Ack"}
               one == 1
               data == <<>>
    <3>4. End(c) + One(c.fin_queued) = End(c) + 1 /\ End(c) \in Nat
      <4>1. One(c.fin_queued) = 1 /\ End(c) \in Nat
        BY <2>1, Places
      <4> QED BY <4>1
    <3>1. "Ack" \in flags /\ one \in Nat \ {0} /\ Nxt(c) + one <= End(c) + One(c.fin_queued)
      <4>1. "Ack" \in flags
        OBVIOUS
      <4>2. one \in Nat \ {0}
        OBVIOUS
      <4>3. Nxt(c) + one = End(c) + 1
        BY <2>1
      <4>4. End(c) + 1 <= End(c) + 1
        BY <3>4
      <4>5. Nxt(c) + one <= End(c) + One(c.fin_queued)
        BY <3>4, <4>3, <4>4, Zenon
      <4> QED BY <4>1, <4>2, <4>5
    <3>2. Belongs(k.iss, k.irs, k.sent, c.fin_queued, Pos(k, c), Nxt(c) + one,
                  Emitted(c, c.snd_nxt, flags, data))
      BY <1>11, <2>1, <2>2
    <3>3. d = Advance(EmitSegment(c, c.snd_nxt, flags, data), one)
      BY <1>11 DEF EmitFin
    <3> HIDE DEF flags, one, data
    <3> QED BY <3>1, <3>2, <3>3, Advanced
  <2> QED BY <2>4 DEF Timed, Covered, d
<1>12. CASE probe /\ d = [c EXCEPT !.persist = TRUE]
  <2>1. Sent(k, c, d) /\ d.persist = TRUE
    BY <1>12, PersistSent
  <2>2. d.snd_una = c.snd_una /\ (c.retransmit => d.retransmit)
        /\ (d.snd_max # c.snd_max => d.retransmit)
    BY <2>1, SameFields DEF Sent
  <2> QED BY <2>1, <2>2 DEF Timed, Covered, d
<1>13. CASE ~done /\ ~(len > 0) /\ ~fin /\ ~probe /\ d = c
  <2>1. Sent(k, c, d)
    BY <1>13, SentNothing
  <2>2. Covered(c)
    <3> SUFFICES ASSUME Unsent(c), ~c.retransmit PROVE FALSE
      BY DEF Covered
    <3>1. Top(c) = Una(c) /\ Nxt(c) = Una(c)
      <4>1. c.snd_una = c.snd_max
        BY DEF Timed
      <4> QED BY <1>6, <4>1, Places
    <3>2. ~FinSent(c) /\ (c.fin_queued \/ c.snd_max # FinSeq(c))
      BY DEF Unsent
    <3>3. CASE available > 0
      <4>1. c.snd_wnd > 0
        BY <1>0, <1>6, <1>13, <3>1, <3>3
      <4>2. window > 0 /\ window \in Nat
        BY <1>0, <4>1 DEF Least
      <4>3. flight = 0
        BY <1>3, <3>1, Places
      <4>4. usable > 0 /\ usable \in Nat
        BY <4>2, <4>3 DEF Greatest
      <4> HIDE DEF usable
      <4>5. len > 0
        BY <1>2, <1>7, <3>3, <4>4 DEF Least
      <4> QED BY <1>13, <4>5
    <3>4. CASE available = 0
      <4>1. Nxt(c) >= End(c)
        BY <1>2, <3>4, Places
      <4>2. CASE Top(c) = End(c)
        <5>1. ~c.fin_queued
          BY <1>5, <1>13, <3>1, <3>4, <4>2
        <5> QED BY <1>6, <3>2, <4>2, <5>1
      <4>3. CASE Top(c) # End(c)
        <5>1. Top(c) > End(c) /\ c.fin_queued
          BY <3>1, <4>1, <4>3, Places
        <5> QED BY <1>4, <3>2, <5>1
      <4> QED BY <4>2, <4>3
    <3> QED BY <1>2, <3>3, <3>4
  <2> QED BY <1>13, <2>1, <2>2 DEF d
<1> HIDE DEF done, len, fin, probe
<1> QED BY <1>1, <1>9, <1>10, <1>11, <1>12, <1>13

\* The rounds of the loop of TrySend exist.
LEMMA RoundsExist ==
    ASSUME NEW c, NEW R \in Nat
    PROVE  \E f : f = [n \in 0 .. R |-> IF n = 0 THEN c ELSE SendOnce(f[n - 1])]
<1> DEFINE IsF(f, m) == f = [n \in 0 .. m |-> IF n = 0 THEN c ELSE SendOnce(f[n - 1])]
           T == {m \in 0 .. R : \E f : IsF(f, m)}
<1>1. 0 \in T
  <2> DEFINE f == [n \in 0 .. 0 |-> c]
  <2>1. IsF(f, 0)
    OBVIOUS
  <2>2. \E g : IsF(g, 0)
    <3> HIDE DEF f, IsF
    <3> QED BY <2>1
  <2> HIDE DEF IsF
  <2> QED BY <2>2
<1>2. ASSUME NEW m \in Nat, m \in T, m < R
      PROVE  m + 1 \in T
  <2>1. PICK f : IsF(f, m)
    BY <1>2
  <2> DEFINE g == [n \in 0 .. m + 1 |-> IF n = m + 1 THEN SendOnce(f[m]) ELSE f[n]]
  <2>2. \A n \in 0 .. m + 1 : g[n] = IF n = 0 THEN c ELSE SendOnce(g[n - 1])
    <3> SUFFICES ASSUME NEW n \in 0 .. m + 1
                 PROVE  g[n] = IF n = 0 THEN c ELSE SendOnce(g[n - 1])
      OBVIOUS
    <3>1. \A i \in 0 .. m : f[i] = IF i = 0 THEN c ELSE SendOnce(f[i - 1])
      BY <2>1
    <3>2. \A i \in 0 .. m : g[i] = f[i]
      OBVIOUS
    <3>3. g[m + 1] = SendOnce(f[m])
      OBVIOUS
    <3> HIDE DEF g
    <3>4. CASE n = m + 1
      <4>1. g[n - 1] = f[m] /\ n # 0
        BY <3>2, <3>4
      <4> QED BY <3>3, <3>4, <4>1
    <3>5. CASE n \in 1 .. m
      <4>1. g[n] = f[n] /\ g[n - 1] = f[n - 1] /\ n # 0
        BY <3>2, <3>5
      <4> QED BY <3>1, <3>5, <4>1
    <3>6. CASE n = 0
      BY <3>1, <3>2, <3>6
    <3> QED BY <3>4, <3>5, <3>6
  <2>3. IsF(g, m + 1)
    <3>1. DOMAIN g = 0 .. m + 1 /\ g = [n \in 0 .. m + 1 |-> g[n]]
      OBVIOUS
    <3> HIDE DEF g
    <3> QED BY <2>2, <3>1
  <2>4. \E h : IsF(h, m + 1)
    <3> HIDE DEF g, IsF
    <3> QED BY <2>3
  <2> HIDE DEF g, IsF
  <2> QED BY <1>2, <2>4
<1>3. R \in T
  <2> HIDE DEF T
  <2>1. \A n \in 0 .. R : n \in T
    BY <1>1, <1>2, UpTo
  <2> QED BY <2>1
<1> QED BY <1>3

\* TrySend is so many rounds of its loop.
LEMMA TrySendRounds ==
    ASSUME NEW c, Len(c.send_buf) \in Nat
    PROVE  \E R \in Nat : \E f :
              /\ R >= 1 /\ f[0] = c /\ \A n \in 1 .. R : f[n] = SendOnce(f[n - 1])
              /\ Sending(c) => TrySend(c) = f[R]
<1> DEFINE R == Len(c.send_buf) + 1
           IsF(f) == f = [n \in 0 .. R |-> IF n = 0 THEN c ELSE SendOnce(f[n - 1])]
           g == CHOOSE f : IsF(f)
<1>1. IsF(g)
  <2>1. \E f : IsF(f)
    <3>1. R \in Nat
      OBVIOUS
    <3> HIDE DEF R
    <3> QED BY <3>1, RoundsExist, ZenonT(30)
  <2> HIDE DEF IsF
  <2> QED BY <2>1
<1>2. Sending(c) => TrySend(c) = g[R]
  BY DEF TrySend
<1> HIDE DEF g
<1>3. R \in Nat /\ R >= 1 /\ g[0] = c /\ \A n \in 1 .. R : g[n] = SendOnce(g[n - 1])
  BY <1>1
<1> HIDE DEF R
<1> QED BY <1>2, <1>3

\* TrySend sends of the stream what it may, and leaves a timer behind what it leaves.
LEMMA TrySendSent ==
    ASSUME NEW k, NEW c, Ready(k, c), Timed(c)
    PROVE  Sent(k, c, TrySend(c)) /\ Timed(TrySend(c)) /\ Covered(TrySend(c))
<1>1. CASE ~Sending(c)
  <2>1. TrySend(c) = c
    BY <1>1 DEF TrySend
  <2>2. Covered(c)
    BY <1>1 DEF Covered, Unsent
  <2> QED BY <2>1, <2>2, SentNothing
<1>2. CASE Sending(c)
  <2>1. Len(c.send_buf) \in Nat
    BY Places
  <2>2. PICK R \in Nat : \E f :
          /\ R >= 1 /\ f[0] = c /\ \A n \in 1 .. R : f[n] = SendOnce(f[n - 1])
          /\ Sending(c) => TrySend(c) = f[R]
    BY <2>1, TrySendRounds
  <2>3. PICK f : /\ R >= 1 /\ f[0] = c /\ \A n \in 1 .. R : f[n] = SendOnce(f[n - 1])
                 /\ Sending(c) => TrySend(c) = f[R]
    BY <2>2
  <2> DEFINE Done(n, d) == Sent(k, c, d) /\ Timed(d) /\ (n > 0 => Covered(d))
             T == {n \in 0 .. R : Done(n, f[n])}
  <2>4. 0 \in T
    BY <2>3, SentNothing
  <2>5. ASSUME NEW n \in Nat, n \in T, n < R
        PROVE  n + 1 \in T
    <3>1. Sent(k, c, f[n]) /\ Timed(f[n])
      BY <2>5
    <3>2. f[n + 1] = SendOnce(f[n])
      <4>1. n + 1 \in 1 .. R /\ (n + 1) - 1 = n
        BY <2>5
      <4> QED BY <2>3, <4>1
    <3>3. Ready(k, f[n])
      BY <3>1, ReadyAfter
    <3>4. Sent(k, f[n], f[n + 1]) /\ Timed(f[n + 1]) /\ Covered(f[n + 1])
      BY <3>1, <3>2, <3>3, SendOnceSent
    <3>5. Sent(k, c, f[n + 1])
      BY <3>1, <3>4, SentTwice
    <3>6. n + 1 \in 0 .. R
      BY <2>5
    <3> QED BY <3>4, <3>5, <3>6
  <2>6. R \in T
    <3> HIDE DEF T
    <3>1. \A n \in 0 .. R : n \in T
      BY <2>4, <2>5, UpTo
    <3> QED BY <3>1
  <2> QED BY <1>2, <2>3, <2>6
<1> QED BY <1>1, <1>2

\* A segment of what was sent before is sent again.
LEMMA Resent ==
    ASSUME NEW k, NEW c, Acks(k, c), NEW seq, NEW flags, NEW data, NEW h \in Nat,
           Belongs(k.iss, k.irs, k.sent, c.fin_queued, Pos(k, c), h, Emitted(c, seq, flags, data)),
           h <= Top(c)
    PROVE  Resends(k, c, EmitSegment(c, seq, flags, data))
<1>1. Typed(c) /\ IsAround(k) /\ OutOK(k, c)
  BY DEF Acks
<1>2. Nxt(c) <= Top(c) /\ Top(c) <= End(c) + One(c.fin_queued) /\ Top(c) \in Nat
  BY <1>1, OffsetType DEF Acks, Nos
<1>3. Leaves(k, c, Emitted(c, seq, flags, data))
  <2> DEFINE seg == Emitted(c, seq, flags, data)
  <2>1. Pos(k, c) \in Nat /\ Pos(k, c) <= Pos(k, c) /\ (c.fin_queued => c.fin_queued)
    BY <1>1, PosType
  <2>2. Horizon(c) \in Nat /\ h <= Horizon(c)
    <3>1. Horizon(c) \in 0 .. M /\ Top(c) \in Nos
      BY <1>1, OffsetType
    <3> QED BY <1>2, <3>1, HalfIsHalf DEF Horizon, Nos
  <2>3. k.iss \in Nos /\ k.irs \in Nos /\ k.sent \in Seq(Nat)
    BY <1>1 DEF IsAround
  <2> HIDE DEF seg
  <2>4. Belongs(k.iss, k.irs, k.sent, c.fin_queued, Pos(k, c), h, seg)
    BY DEF seg
  <2>5. Belongs(k.iss, k.irs, k.sent, c.fin_queued, Pos(k, c), Horizon(c), seg)
    BY <2>1, <2>2, <2>3, <2>4, BelongsGrows
  <2> QED BY <2>5 DEF Leaves, seg
<1>4. Sent(k, c, EmitSegment(c, seq, flags, data))
  BY <1>1, <1>2, <1>3, EmitSent
<1>5. Emits(c, EmitSegment(c, seq, flags, data), Emitted(c, seq, flags, data), flags)
  BY <1>1, EmitFrame DEF Typed
<1> DEFINE d == EmitSegment(c, seq, flags, data)
<1> HIDE DEF d
<1>6. d.retransmit = c.retransmit /\ d.persist = c.persist /\ d.snd_nxt = c.snd_nxt
      /\ d.snd_max = c.snd_max
  BY <1>5 DEF d, Emits, Same, EmitFields, Fields, NewConnection
<1> QED BY <1>4, <1>6 DEF d, Resends

\* Who is ready to send knows what to acknowledge.
LEMMA ReadyAcks ==
    ASSUME NEW k, NEW c, Ready(k, c)
    PROVE  Acks(k, c)
BY DEF Ready, Acks

\* An acknowledgement leaves.
LEMMA SendAckSent ==
    ASSUME NEW k, NEW c, Acks(k, c)
    PROVE  /\ Resends(k, c, SendAck(c))
           /\ SendAck(c).unacked_segments = 0 /\ SendAck(c).delayed_ack = FALSE
<1> DEFINE flags == {"Ack"}
           data == <<>>
           d == EmitSegment(c, c.snd_max, flags, data)
<1>1. SendAck(c) = d
  BY DEF SendAck
<1>2. c.snd_max \in Int /\ DOMAIN c = Fields
  BY HalfIsHalf DEF Acks, Typed, Nos
<1>3. Top(c) \in Nat /\ Top(c) <= Top(c)
  BY OffsetType DEF Acks, Nos
<1>4. Belongs(k.iss, k.irs, k.sent, c.fin_queued, Pos(k, c), Top(c),
              Emitted(c, c.snd_max, flags, data))
  BY <1>2, <1>3, AckBelongs
<1>5. "Ack" \in flags
  OBVIOUS
<1> HIDE DEF flags, data
<1>6. Resends(k, c, d)
  BY <1>3, <1>4, Resent
<1>7. Emits(c, d, Emitted(c, c.snd_max, flags, data), flags)
  BY <1>2, EmitFrame
<1> HIDE DEF d
<1>8. d.unacked_segments = 0 /\ d.delayed_ack = FALSE
  BY <1>5, <1>7 DEF Emits
<1> QED BY <1>1, <1>6, <1>8

\* RetransmitFirst sends data, the FIN or nothing.
LEMMA RetransmitFirstCases ==
    ASSUME NEW c
    PROVE  LET len == Least(Buffered(c, c.snd_una), Mss)
           IN  \/ len > 0 /\ RetransmitFirst(c) = SendData(c, c.snd_una, len)
               \/ len = 0 /\ FinSent(c) /\ RetransmitFirst(c) = EmitFin(c, FinSeq(c))
               \/ RetransmitFirst(c) = c
BY DEF RetransmitFirst

\* What RetransmitFirst sends starts in what was sent, though it may end past it.
LEMMA RetransmitFirstSent ==
    ASSUME NEW k, NEW c, Ready(k, c), c.snd_una # c.snd_max
    PROVE  Resends(k, c, RetransmitFirst(c))
<1> DEFINE len == Least(Buffered(c, c.snd_una), Mss)
           d == RetransmitFirst(c)
<1>0. Typed(c) /\ IsAround(k) /\ c.iss = k.iss /\ c.iss \in Nos /\ c.snd_una \in Nos
      /\ c.snd_max \in Nos
  BY DEF Ready, Typed
<1>1. \/ len > 0 /\ d = SendData(c, c.snd_una, len)
      \/ len = 0 /\ FinSent(c) /\ d = EmitFin(c, FinSeq(c))
      \/ d = c
  BY RetransmitFirstCases
<1> HIDE DEF d
<1>2. Una(c) \in Nat /\ Top(c) \in Nat /\ Buf(c) \in Nat /\ End(c) \in Nat
      /\ Una(c) < Top(c) /\ Buf(c) <= Una(c) /\ Una(c) < Half
  <2>1. Una(c) # Top(c)
    BY <1>0, SubInjective DEF Una, Top
  <2> QED BY <2>1, Places, HalfIsHalf
<1>3. len \in Nat /\ (len > 0 => Una(c) + len <= End(c))
  <2>1. Buffered(c, c.snd_una) \in Nat
        /\ (Una(c) <= End(c) => Buffered(c, c.snd_una) = End(c) - Una(c))
        /\ (Una(c) >= End(c) => Buffered(c, c.snd_una) = 0)
    BY <1>0, <1>2, BufferedPlace DEF Una
  <2>2. Mss \in Nat
    BY SizeAssumption
  <2> QED BY <1>2, <2>1, <2>2 DEF Least
<1>4. CASE len > 0 /\ d = SendData(c, c.snd_una, len)
  <2> HIDE DEF len
  <2> DEFINE offset == SeqSub(c.snd_una, c.buf_seq)
             data == SubSeq(c.send_buf, offset + 1, offset + len)
             flags == {"Ack"}
             h == Top(c)
  <2>1. Belongs(k.iss, k.irs, k.sent, c.fin_queued, Pos(k, c), h,
                Emitted(c, c.snd_una, {"Ack"}, data))
    <3>1. /\ Buf(c) <= SeqSub(c.snd_una, k.iss) /\ SeqSub(c.snd_una, k.iss) + len <= End(c)
          /\ SeqSub(c.snd_una, k.iss) < h /\ len \in Nat /\ len > 0 /\ h \in Nat
      BY <1>0, <1>2, <1>3, <1>4 DEF Una
    <3> HIDE DEF h
    <3> QED BY <1>0, <3>1, DataBelongs
  <2>2. Belongs(k.iss, k.irs, k.sent, c.fin_queued, Pos(k, c), h,
                Emitted(c, c.snd_una, flags, data))
    BY <2>1
  <2>3. d = EmitSegment(c, c.snd_una, flags, data)
    BY <1>4 DEF SendData
  <2>4. h \in Nat /\ h <= Top(c)
    BY <1>2
  <2> HIDE DEF flags, data, h
  <2> QED BY <2>2, <2>3, <2>4, Resent, ReadyAcks DEF d
<1>5. CASE len = 0 /\ FinSent(c) /\ d = EmitFin(c, FinSeq(c))
  <2> HIDE DEF len
  <2> DEFINE data == <<>>
             flags == {"Fin", "Ack"}
             h == Top(c)
  <2>1. c.fin_queued /\ End(c) < h /\ h \in Nat
    <3>1. Una(c) < Half /\ Top(c) < Half /\ End(c) + 1 < Half
      BY <1>2, Places
    <3>2. FinSent(c) <=> c.fin_queued /\ End(c) < Top(c)
      BY <1>0, <3>1, FinPlace
    <3> QED BY <1>2, <1>5, <3>2
  <2>2. Belongs(k.iss, k.irs, k.sent, c.fin_queued, Pos(k, c), h,
                Emitted(c, FinSeq(c), {"Fin", "Ack"}, <<>>))
    <3> HIDE DEF h
    <3> QED BY <2>1, FinBelongs
  <2>3. Belongs(k.iss, k.irs, k.sent, c.fin_queued, Pos(k, c), h,
                Emitted(c, FinSeq(c), flags, data))
    BY <2>2
  <2>4. d = EmitSegment(c, FinSeq(c), flags, data)
    BY <1>5 DEF EmitFin
  <2>5. h \in Nat /\ h <= Top(c)
    BY <1>2
  <2> HIDE DEF flags, data, h
  <2> QED BY <2>3, <2>4, <2>5, Resent, ReadyAcks DEF d
<1>6. CASE d = c
  BY <1>6, SentNothing DEF d, Resends
<1> HIDE DEF len
<1> QED BY <1>1, <1>4, <1>5, <1>6 DEF d

\* A connection is no earlier than itself.
LEMMA LaterSelf ==
    ASSUME NEW k, IsAround(k), NEW c, Typed(c)
    PROVE  Later(k, c, c)
<1>1. Horizon(c) \in Int /\ Pos(k, c) \in Int /\ Len(c.recv_buf) \in Int /\ Buf(c) \in Int
  BY OffsetType, PosType, HalfIsHalf DEF Nos
<1> QED BY <1>1 DEF Later

\* Later is transitive.
LEMMA LaterTwice ==
    ASSUME NEW k, IsAround(k), NEW c, Typed(c), NEW d, Typed(d), NEW e, Typed(e),
           Later(k, c, d), Later(k, d, e)
    PROVE  Later(k, c, e)
<1>1. /\ Horizon(c) \in Int /\ Pos(k, c) \in Int /\ Len(c.recv_buf) \in Int /\ Buf(c) \in Int
      /\ Horizon(d) \in Int /\ Pos(k, d) \in Int /\ Len(d.recv_buf) \in Int /\ Buf(d) \in Int
      /\ Horizon(e) \in Int /\ Pos(k, e) \in Int /\ Len(e.recv_buf) \in Int /\ Buf(e) \in Int
  BY OffsetType, PosType, HalfIsHalf DEF Nos
<1>2. Horizon(c) <= Horizon(e) /\ Pos(k, c) <= Pos(k, e)
      /\ Len(c.recv_buf) <= Len(e.recv_buf) /\ Buf(c) <= Buf(e)
  <2>1. Horizon(c) <= Horizon(d) /\ Pos(k, c) <= Pos(k, d)
        /\ Len(c.recv_buf) <= Len(d.recv_buf) /\ Buf(c) <= Buf(d)
    BY DEF Later
  <2>2. Horizon(d) <= Horizon(e) /\ Pos(k, d) <= Pos(k, e)
        /\ Len(d.recv_buf) <= Len(e.recv_buf) /\ Buf(d) <= Buf(e)
    BY DEF Later
  <2> QED BY <1>1, <2>1, <2>2, SMTT(30)
<1>3. e.iss = c.iss /\ (c.fin_queued => e.fin_queued) /\ (c.fin_received => e.fin_received)
  BY DEF Later
<1>4. Una(c) = Buf(c) + 1 => Una(e) = Buf(e) + 1
  BY DEF Later
<1> QED BY <1>2, <1>3, <1>4 DEF Later

\* What a later connection has sent belongs to it in order.
LEMMA LaterGrows ==
    ASSUME NEW k, NEW c, NEW d, Later(k, c, d)
    PROVE  Grows(k, c, d)
BY DEF Later, Grows

\* The numbers of a connection that is not closed.
LEMMA CorePlaces ==
    ASSUME NEW k, NEW c, Core(k, c)
    PROVE  /\ Una(c) \in Nat /\ Nxt(c) \in Nat /\ Top(c) \in Nat /\ Buf(c) \in Nat /\ End(c) \in Nat
           /\ End(c) + 1 < Half /\ Top(c) < Half /\ Una(c) < Half /\ Nxt(c) < Half /\ Buf(c) < Half
           /\ Buf(c) <= End(c) /\ 1 <= Buf(c) /\ Una(c) <= Nxt(c) /\ Nxt(c) <= Top(c)
           /\ Top(c) <= End(c) + One(c.fin_queued) /\ One(c.fin_queued) \in 0 .. 1
           /\ (c.fin_queued => One(c.fin_queued) = 1) /\ (~c.fin_queued => One(c.fin_queued) = 0)
           /\ End(c) = Buf(c) + Len(c.send_buf) /\ Len(c.send_buf) \in Nat
           /\ End(c) = Len(k.sent) + 1 /\ Len(k.sent) \in Nat
<1>1. Typed(c) /\ IsAround(k)
  BY DEF Core
<1>2. Una(c) \in Nat /\ Nxt(c) \in Nat /\ Top(c) \in Nat /\ Buf(c) \in Nat /\ End(c) \in Nat
      /\ Len(c.send_buf) \in Nat
  BY <1>1, OffsetType DEF Nos
<1>3. One(c.fin_queued) \in 0 .. 1
  BY <1>1, PosType
<1>4. Len(k.sent) \in Nat /\ Len(k.sent) + 2 < Half
  BY <1>1, LenProperties DEF IsAround
<1>5. End(c) = Buf(c) + Len(c.send_buf)
  BY DEF End
<1>6. End(c) = Len(k.sent) + 1 /\ 1 <= Buf(c) /\ Una(c) <= Nxt(c)
      /\ Nxt(c) <= Top(c) /\ Top(c) <= End(c) + One(c.fin_queued)
  BY <1>2 DEF Core, SndOK, AckOK
<1>7. (c.fin_queued => One(c.fin_queued) = 1) /\ (~c.fin_queued => One(c.fin_queued) = 0)
  BY DEF One
<1>8. End(c) + 1 < Half /\ Top(c) < Half /\ Buf(c) <= End(c)
  <2> DEFINE one == One(c.fin_queued)
  <2>1. one \in 0 .. 1 /\ Top(c) <= End(c) + one
    BY <1>3, <1>6
  <2> HIDE DEF one
  <2>2. End(c) = Len(k.sent) + 1 /\ Half \in Nat
    BY <1>6, HalfIsHalf
  <2>3. End(c) + 1 < Half
    BY <1>2, <1>4, <2>2
  <2>4. Buf(c) <= End(c)
    BY <1>2, <1>5
  <2>5. Top(c) < Half
    BY <1>2, <2>1, <2>2, <2>3
  <2> QED BY <2>3, <2>4, <2>5
<1>9. Una(c) < Half /\ Nxt(c) < Half /\ Buf(c) < Half
  BY <1>2, <1>6, <1>8, HalfIsHalf
<1> QED BY <1>2, <1>3, <1>4, <1>5, <1>6, <1>7, <1>8, <1>9

\* What FinSent and FinAcked say of such a connection.
LEMMA CoreFin ==
    ASSUME NEW k, NEW c, Core(k, c)
    PROVE  /\ FinSeq(c) \in Nos /\ SeqSub(FinSeq(c), c.iss) = End(c)
           /\ FinSent(c) <=> c.fin_queued /\ End(c) < Top(c)
           /\ FinAcked(c) <=> Una(c) = Buf(c) + 1
           /\ c.snd_una = c.snd_max <=> Una(c) = Top(c)
           /\ c.snd_max = FinSeq(c) <=> Top(c) = End(c)
<1>1. Typed(c) /\ c.iss \in Nos /\ c.snd_una \in Nos /\ c.snd_max \in Nos
  BY DEF Core, Typed
<1>2. /\ FinSeq(c) \in Nos /\ SeqSub(FinSeq(c), c.iss) = End(c)
      /\ FinSent(c) <=> c.fin_queued /\ End(c) < Top(c)
      /\ FinAcked(c) <=> c.fin_queued /\ End(c) < Una(c)
  BY <1>1, CorePlaces, FinPlace
<1>3. c.snd_una = c.snd_max <=> Una(c) = Top(c)
  BY <1>1, SubInjective DEF Una, Top
<1>4. c.snd_max = FinSeq(c) <=> Top(c) = End(c)
  BY <1>1, <1>2, SubInjective DEF Top
<1>5. ASSUME c.fin_queued, End(c) < Una(c) PROVE Una(c) = Buf(c) + 1
  <2>1. Una(c) <= Buf(c) + 1
    BY DEF Core, AckOK
  <2> QED BY <1>5, <2>1, CorePlaces
<1>6. ASSUME Una(c) = Buf(c) + 1 PROVE c.fin_queued /\ End(c) < Una(c)
  <2>1. c.fin_queued /\ Buf(c) = Len(k.sent) + 1
    BY <1>6 DEF Core, AckOK
  <2> QED BY <1>6, <2>1, CorePlaces
<1> QED BY <1>2, <1>3, <1>4, <1>5, <1>6

\* A connection that knows its peer knows what to acknowledge.
LEMMA CoreAcks ==
    ASSUME NEW k, NEW c, Core(k, c), PeerKnown(c)
    PROVE  Acks(k, c)
<1>1. Typed(c) /\ IsAround(k) /\ OutOK(k, c) /\ c.iss = k.iss
  BY DEF Core, AckOK
<1>2. SeqSub(c.rcv_nxt, k.irs) = Pos(k, c)
  BY DEF Core, RcvOK
<1>3. Pos(k, c) \in Nat /\ Pos(k, c) >= 1
  BY <1>1, PosType
<1>4. Nxt(c) <= Top(c) /\ Top(c) <= End(c) + One(c.fin_queued)
  BY CorePlaces
<1> QED BY <1>1, <1>2, <1>3, <1>4 DEF Acks

\* A connection past the handshake has its SYN acknowledged.
LEMMA CoreReady ==
    ASSUME NEW k, NEW c, Core(k, c), PeerKnown(c), ~Handshake(c)
    PROVE  Ready(k, c) /\ Timed(c) /\ Buf(c) <= Una(c)
<1>1. Synchronized(c) /\ c.state \notin {"None", "Listen"}
  BY DEF PeerKnown, Synchronized, Handshake, Core
<1>2. Buf(c) <= Una(c) /\ c.cwnd > 0
  BY <1>1, CorePlaces DEF Core, StateOK, NumsOK, PeerKnown
<1>3. Acks(k, c)
  BY CoreAcks
<1>4. c.send_buf = SubSeq(k.sent, Buf(c), Len(k.sent)) /\ End(c) = Len(k.sent) + 1
  BY DEF Core, SndOK
<1>5. Timed(c)
  BY DEF Core, TimOK
<1>6. Buf(c) >= 1 /\ Una(c) <= Nxt(c)
  BY CorePlaces
<1> QED BY <1>2, <1>3, <1>4, <1>5, <1>6 DEF Acks, Ready

\* In the handshake nothing was written, and only the SYN was sent.
LEMMA CoreOpening ==
    ASSUME NEW k, NEW c, Core(k, c), Handshake(c)
    PROVE  /\ Una(c) = 0 /\ Nxt(c) = 1 /\ Top(c) = 1 /\ Len(k.sent) = 0 /\ ~c.fin_queued
           /\ Buf(c) = 1 /\ Len(c.send_buf) = 0
<1>1. Una(c) = 0 /\ Top(c) = 1
  BY DEF Core, StateOK, NumsOK
<1>2. Una(c) # Buf(c) /\ Una(c) # Buf(c) + 1
  BY <1>1, CorePlaces
<1>3. Nxt(c) = Top(c) /\ Len(k.sent) = 0 /\ ~c.fin_queued
  BY <1>2 DEF Core, SndOK
<1> QED BY <1>1, <1>3, CorePlaces

\* Sending keeps a connection whole.
LEMMA CoreSent ==
    ASSUME NEW k, NEW c, Core(k, c), PeerKnown(c) \/ Handshake(c), NEW d, Sent(k, c, d),
           PeerKnown(c) \/ d.persist = c.persist
    PROVE  /\ Core(k, d) /\ Later(k, c, d)
           /\ Owed(c) => Owed(d)
           /\ CovOK(k, c) => CovOK(k, d)
<1>1. Same(c, d, SendFields) /\ Typed(d) /\ OutOK(k, d) /\ Typed(c) /\ IsAround(k)
  BY DEF Sent, Core
<1>2. /\ d.state = c.state /\ d.iss = c.iss /\ d.snd_una = c.snd_una
      /\ d.buf_seq = c.buf_seq /\ d.send_buf = c.send_buf
      /\ d.fin_queued = c.fin_queued /\ d.cwnd = c.cwnd
      /\ d.time_wait = c.time_wait /\ d.irs = c.irs
      /\ d.rcv_nxt = c.rcv_nxt /\ d.rcv_offset = c.rcv_offset /\ d.recv_buf = c.recv_buf
      /\ d.out_of_order = c.out_of_order /\ d.peer_fin_seq = c.peer_fin_seq
      /\ d.fin_received = c.fin_received
      /\ Una(d) = Una(c) /\ Buf(d) = Buf(c) /\ End(d) = End(c) /\ Pos(k, d) = Pos(k, c)
  BY <1>1, SameFields
<1>3. Nxt(d) \in Nat /\ Top(d) \in Nat
  BY <1>1, OffsetType DEF Nos
<1>4. /\ Nxt(c) <= Nxt(d) /\ Nxt(d) <= Top(d) /\ Top(c) <= Top(d)
      /\ Top(d) <= End(c) + One(c.fin_queued)
      /\ (c.retransmit => d.retransmit) /\ (d.snd_max # c.snd_max => d.retransmit)
  BY DEF Sent
<1>5. Handshake(c) => Top(d) = 1 /\ Nxt(d) = 1
  <2> SUFFICES ASSUME Handshake(c) PROVE Top(d) = 1 /\ Nxt(d) = 1
    OBVIOUS
  <2>1. Nxt(c) = 1 /\ Top(c) = 1 /\ End(c) = 1 /\ One(c.fin_queued) = 0
    BY CoreOpening, CorePlaces
  <2> QED BY <1>3, <1>4, <2>1
<1>6. AckOK(k, d) /\ ArrOK(k, d)
  BY <1>2 DEF Core, AckOK, ArrOK
<1>7. SndOK(k, d)
  <2>1. End(d) = Len(k.sent) + 1 /\ d.send_buf = SubSeq(k.sent, Buf(d), Len(k.sent))
    BY <1>2 DEF Core, SndOK
  <2>2. Una(d) <= Nxt(d) /\ Nxt(d) <= Top(d) /\ Top(d) <= End(d) + One(d.fin_queued)
    BY <1>2, <1>3, <1>4, CorePlaces
  <2>3. \/ Una(d) = Buf(d)
        \/ Una(d) = Buf(d) + 1
        \/ Una(d) = 0 /\ Top(d) <= 1 /\ Nxt(d) = Top(d) /\ Len(k.sent) = 0 /\ ~d.fin_queued
    <3>1. CASE Handshake(c)
      BY <1>2, <1>5, <3>1, CoreOpening
    <3>2. CASE ~Handshake(c)
      <4>1. Una(c) >= Buf(c)
        BY <3>2 DEF Core, StateOK, Handshake, PeerKnown
      <4>2. Una(c) = Buf(c) \/ Una(c) = Buf(c) + 1
        BY <4>1, CorePlaces DEF Core, SndOK
      <4> QED BY <1>2, <4>2
    <3> QED BY <3>1, <3>2
  <2> QED BY <2>1, <2>2, <2>3 DEF SndOK
<1>8. RcvOK(k, d)
  BY <1>2 DEF Core, RcvOK, PeerKnown, Accepting, Receiving
<1>9. StateOK(d)
  <2>1. d.in_recovery = c.in_recovery /\ d.recover = c.recover
    BY <1>1, SameFields
  <2>2. d.in_recovery => d.recover \in Nos /\ SeqSub(d.recover, d.iss) <= Top(d)
    <3> SUFFICES ASSUME c.in_recovery PROVE c.recover \in Nos /\ SeqSub(c.recover, c.iss) <= Top(d)
      BY <1>2, <2>1
    <3>1. c.recover \in Nos /\ SeqSub(c.recover, c.iss) <= Top(c) /\ c.iss \in Nos
      BY DEF Core, StateOK, NumsOK, Typed
    <3>2. SeqSub(c.recover, c.iss) \in Nat
      BY <3>1, SubCases DEF Nos
    <3> QED BY <1>3, <1>4, <3>1, <3>2, CorePlaces
  <2> QED BY <1>2, <1>5, <2>2 DEF Core, StateOK, NumsOK, Handshake, PeerKnown
<1>10. TimOK(d)
  <2>1. Timed(d)
    BY <1>2, <1>4 DEF Core, TimOK, Timed
  <2>2. Quiet(d)
    <3>1. c.state \notin {"None", "Listen"}
      BY DEF PeerKnown, Handshake
    <3>2. PeerKnown(d) \/ (~d.persist /\ ~d.delayed_ack)
      <4>1. CASE PeerKnown(c)
        BY <1>2, <4>1 DEF PeerKnown
      <4>2. CASE ~PeerKnown(c)
        <5>1. ~c.persist /\ ~c.delayed_ack
          BY <4>2 DEF Core, TimOK, Quiet
        <5>2. d.delayed_ack = c.delayed_ack \/ d.delayed_ack = FALSE
          BY Zenon DEF Sent
        <5>3. ~d.delayed_ack
          BY <5>1, <5>2, Zenon
        <5> QED BY <4>2, <5>1, <5>3
      <4> QED BY <4>1, <4>2
    <3> QED BY <1>2, <3>1, <3>2 DEF Quiet
  <2> QED BY <1>2, <2>1, <2>2 DEF Core, TimOK
<1>11. Core(k, d)
  BY <1>1, <1>2, <1>6, <1>7, <1>8, <1>9, <1>10 DEF Core
<1>12. Later(k, c, d)
  <2>1. Pos(k, c) \in Nat /\ Len(c.recv_buf) \in Nat /\ Buf(c) \in Nat
    BY <1>1, PosType, OffsetType DEF Nos
  <2>2. Horizon(c) <= Horizon(d)
    BY <1>2, <1>4 DEF Horizon, Core
  <2> QED BY <1>2, <2>1, <2>2 DEF Later
<1>13. ASSUME Owed(c) PROVE Owed(d)
  <2>1. \/ d.unacked_segments = c.unacked_segments /\ d.delayed_ack = c.delayed_ack
        \/ d.unacked_segments = 0
    BY DEF Sent
  <2> QED BY <1>2, <1>13, <2>1 DEF Owed, Receiving
<1>14. ASSUME CovOK(k, c) PROVE CovOK(k, d)
  <2>1. Unsent(d) => Unsent(c)
    <3>1. FinSent(c) <=> c.fin_queued /\ End(c) < Top(c)
      BY CoreFin
    <3>2. FinSent(d) <=> c.fin_queued /\ End(c) < Top(d)
      BY <1>2, <1>11, CoreFin
    <3>3. c.snd_max = FinSeq(c) <=> Top(c) = End(c)
      BY CoreFin
    <3>4. d.snd_max = FinSeq(d) <=> Top(d) = End(c)
      BY <1>2, <1>11, CoreFin
    <3>5. Sending(d) <=> Sending(c)
      BY <1>2 DEF Sending
    <3>6. ASSUME ~c.fin_queued, Top(d) # End(c) PROVE Top(c) # End(c)
      BY <1>3, <1>4, <3>6, CorePlaces
    <3>7. FinSent(c) => FinSent(d)
      BY <1>3, <1>4, <3>1, <3>2, CorePlaces
    <3> QED BY <1>2, <3>3, <3>4, <3>5, <3>6, <3>7 DEF Unsent
  <2>2. (c.persist => d.persist) /\ (c.retransmit => d.retransmit)
    BY DEF Sent
  <2> QED BY <1>2, <1>14, <2>1, <2>2 DEF CovOK
<1> QED BY <1>11, <1>12, <1>13, <1>14

\* What a change of the side fields leaves alone.
LEMMA SideSame ==
    ASSUME NEW c, NEW d, Same(c, d, SideFields)
    PROVE  /\ DOMAIN d = Fields
           /\ d.iss = c.iss /\ d.snd_una = c.snd_una /\ d.snd_nxt = c.snd_nxt /\ d.snd_max = c.snd_max
           /\ d.buf_seq = c.buf_seq /\ d.send_buf = c.send_buf /\ d.fin_queued = c.fin_queued
           /\ d.irs = c.irs /\ d.rcv_nxt = c.rcv_nxt /\ d.rcv_offset = c.rcv_offset
           /\ d.recv_buf = c.recv_buf /\ d.out_of_order = c.out_of_order
           /\ d.peer_fin_seq = c.peer_fin_seq /\ d.fin_received = c.fin_received /\ d.out = c.out
           /\ Una(d) = Una(c) /\ Nxt(d) = Nxt(c) /\ Top(d) = Top(c) /\ Buf(d) = Buf(c)
           /\ End(d) = End(c) /\ \A k : Pos(k, d) = Pos(k, c)
BY DEF Same, Fields, NewConnection, SideFields, Una, Nxt, Top, Buf, End, Pos

\* It keeps the types.
LEMMA SideIsTyped ==
    ASSUME NEW c, Typed(c), NEW d, Same(c, d, SideFields), SideTyped(d)
    PROVE  Typed(d)
<1>1. d.fin_queued \in BOOLEAN /\ d.fin_received \in BOOLEAN
  BY SideSame, ZenonT(40) DEF Typed
<1>2. /\ DOMAIN d = Fields
      /\ d.iss = c.iss /\ d.snd_una = c.snd_una /\ d.snd_nxt = c.snd_nxt /\ d.snd_max = c.snd_max
      /\ d.buf_seq = c.buf_seq /\ d.send_buf = c.send_buf
      /\ d.irs = c.irs /\ d.rcv_nxt = c.rcv_nxt /\ d.rcv_offset = c.rcv_offset
      /\ d.recv_buf = c.recv_buf
  BY SideSame
<1> HIDE DEF Same
<1> QED BY <1>1, <1>2 DEF Typed, SideTyped

\* It takes nothing back.
LEMMA SideLater ==
    ASSUME NEW k, IsAround(k), NEW c, Typed(c), NEW d, Same(c, d, SideFields),
           c.state # "Closed"
    PROVE  Later(k, c, d)
<1>1. Top(c) \in Nos /\ Pos(k, c) \in Nat /\ Len(c.recv_buf) \in Nat /\ Buf(c) \in Nos
  BY OffsetType, PosType
<1>2. Horizon(c) <= Horizon(d)
  BY <1>1, SideSame, HalfIsHalf DEF Horizon, Nos
<1> QED BY <1>1, <1>2, SideSame, HalfIsHalf DEF Later, Nos

\* It keeps Core0, the conditions on the side fields given.
LEMMA Core0Side ==
    ASSUME NEW k, NEW c, Core0(k, c), NEW d, Same(c, d, SideFields), SideTyped(d),
           d.state # "Closed", NumsOK(d), TimOK(d), PeerKnown(d) <=> PeerKnown(c),
           d.fin_received => ~Accepting(d)
    PROVE  Core0(k, d) /\ Later(k, c, d)
<1>1. Typed(c) /\ IsAround(k)
  BY DEF Core0
<1>2. Typed(d)
  BY <1>1, SideIsTyped
<1>3. Later(k, c, d)
  BY <1>1, SideLater DEF Core0
<1>4. OutOK(k, d)
  BY <1>1, <1>2, <1>3, SideSame, LaterGrows, OutKept DEF Core0
<1>5. AckOK(k, d)
  BY SideSame DEF Core0, AckOK
<1>6. ArrOK(k, d)
  BY SideSame DEF Core0, ArrOK
<1>7. SndOK(k, d)
  BY SideSame DEF Core0, SndOK
<1>8. RcvOK(k, d)
  BY SideSame, SMTT(30) DEF Core0, RcvOK
<1> QED BY <1>1, <1>2, <1>3, <1>4, <1>5, <1>6, <1>7, <1>8 DEF Core0

\* Core is Core0 and the acknowledgement of the SYN.
LEMMA CoreIsCore0 ==
    ASSUME NEW k, NEW c
    PROVE  Core(k, c) <=> Core0(k, c) /\ (PeerKnown(c) /\ ~Handshake(c) => Una(c) >= Buf(c))
BY DEF Core, Core0, StateOK

\* A change of the side fields keeps Core, the conditions on them given.
LEMMA CoreSide ==
    ASSUME NEW k, NEW c, Core(k, c), NEW d, Same(c, d, SideFields), SideTyped(d),
           d.state # "Closed", StateOK(d), TimOK(d), PeerKnown(d) <=> PeerKnown(c),
           d.fin_received => ~Accepting(d)
    PROVE  Core(k, d) /\ Later(k, c, d)
BY CoreIsCore0, Core0Side DEF StateOK

-----------------------------------------------------------------------------
(* UpdateWindow. *)

\* What UpdateWindow changes.
LEMMA UpdateWindowFrame ==
    ASSUME NEW c, DOMAIN c = Fields, c.persist \in BOOLEAN, c.snd_wnd \in Nat, NEW seg, seg \in Segs
    PROVE  /\ Same(c, UpdateWindow(c, seg), WindowFields)
           /\ UpdateWindow(c, seg).snd_wnd \in Nat
           /\ UpdateWindow(c, seg).persist \in BOOLEAN
<1> DEFINE d == [c EXCEPT !.snd_wnd = seg.window, !.snd_wl1 = seg.seq, !.snd_wl2 = seg.ack,
                          !.persist = @ /\ seg.window = 0]
<1>1. Same(c, d, WindowFields) /\ Same(c, c, WindowFields)
  BY DEF Same, WindowFields, Fields, NewConnection
<1>2. d.snd_wnd = seg.window /\ seg.window \in Nat
  BY DEF Fields, NewConnection, Segs
<1>3. d.persist \in BOOLEAN
  <2>1. d.persist = (c.persist /\ seg.window = 0)
    BY DEF Fields, NewConnection
  <2> HIDE DEF d
  <2> QED BY <2>1
<1> HIDE DEF d
<1>4. UpdateWindow(c, seg) = d \/ UpdateWindow(c, seg) = c
  BY DEF UpdateWindow, d
<1> QED BY <1>1, <1>2, <1>3, <1>4

\* UpdateWindow keeps Core and takes nothing back.
LEMMA UpdateWindowCore ==
    ASSUME NEW k, NEW c, Core(k, c), PeerKnown(c), NEW seg, seg \in Segs
    PROVE  LET d == UpdateWindow(c, seg)
           IN  /\ Core(k, d) /\ Later(k, c, d)
               /\ d.state = c.state /\ d.rcv_nxt = c.rcv_nxt /\ d.unacked_segments = c.unacked_segments
               /\ d.delayed_ack = c.delayed_ack /\ d.snd_una = c.snd_una /\ d.snd_max = c.snd_max
<1> DEFINE d == UpdateWindow(c, seg)
<1>1. Typed(c) /\ DOMAIN c = Fields
  BY DEF Core, Typed
<1>2. Same(c, d, WindowFields) /\ d.snd_wnd \in Nat /\ d.persist \in BOOLEAN
  BY <1>1, UpdateWindowFrame DEF Typed
<1> HIDE DEF d
<1>3. Same(c, d, SideFields)
  BY <1>2 DEF Same, SideFields, WindowFields
<1>4. /\ d.state = c.state /\ d.cwnd = c.cwnd /\ d.ssthresh = c.ssthresh /\ d.retries = c.retries
      /\ d.retransmit = c.retransmit /\ d.delayed_ack = c.delayed_ack /\ d.time_wait = c.time_wait
      /\ d.unacked_segments = c.unacked_segments /\ d.in_recovery = c.in_recovery
      /\ d.recover = c.recover
  BY <1>2 DEF Same, WindowFields, Fields, NewConnection
<1>5. SideTyped(d)
  <2>1. d.retransmit \in BOOLEAN /\ d.delayed_ack \in BOOLEAN /\ d.time_wait \in BOOLEAN
    BY <1>1, <1>4, Zenon DEF Typed
  <2> QED BY <1>1, <1>2, <1>4, <2>1 DEF Typed, SideTyped
<1>6. StateOK(d) /\ TimOK(d)
  BY <1>3, <1>4, SideSame DEF Core, StateOK, NumsOK, TimOK, Timed, Quiet, PeerKnown, Handshake
<1>7. (PeerKnown(d) <=> PeerKnown(c)) /\ (d.fin_received => ~Accepting(d)) /\ d.state # "Closed"
  BY <1>3, <1>4, SideSame DEF Core, RcvOK, PeerKnown, Accepting, Receiving
<1>8. Core(k, d) /\ Later(k, c, d)
  BY <1>3, <1>5, <1>6, <1>7, CoreSide
<1> QED BY <1>3, <1>4, <1>8, SideSame DEF d

\* The numbers of Core0, as of Core.
LEMMA Core0Places ==
    ASSUME NEW k, NEW c, Core0(k, c)
    PROVE  /\ Una(c) \in Nat /\ Nxt(c) \in Nat /\ Top(c) \in Nat /\ Buf(c) \in Nat /\ End(c) \in Nat
           /\ End(c) + 1 < Half /\ Top(c) < Half /\ Una(c) < Half /\ Nxt(c) < Half /\ Buf(c) < Half
           /\ Buf(c) <= End(c) /\ 1 <= Buf(c) /\ Una(c) <= Nxt(c) /\ Nxt(c) <= Top(c)
           /\ Top(c) <= End(c) + One(c.fin_queued) /\ One(c.fin_queued) \in 0 .. 1
           /\ (c.fin_queued => One(c.fin_queued) = 1) /\ (~c.fin_queued => One(c.fin_queued) = 0)
           /\ End(c) = Buf(c) + Len(c.send_buf) /\ Len(c.send_buf) \in Nat
           /\ End(c) = Len(k.sent) + 1 /\ Len(k.sent) \in Nat
<1>1. Typed(c) /\ IsAround(k)
  BY DEF Core0
<1>2. Una(c) \in Nat /\ Nxt(c) \in Nat /\ Top(c) \in Nat /\ Buf(c) \in Nat /\ End(c) \in Nat
      /\ Len(c.send_buf) \in Nat
  BY <1>1, OffsetType DEF Nos
<1>3. One(c.fin_queued) \in 0 .. 1
  BY <1>1, PosType
<1>4. Len(k.sent) \in Nat /\ Len(k.sent) + 2 < Half
  BY <1>1, LenProperties DEF IsAround
<1>5. End(c) = Buf(c) + Len(c.send_buf)
  BY DEF End
<1>6. End(c) = Len(k.sent) + 1 /\ 1 <= Buf(c) /\ Una(c) <= Nxt(c)
      /\ Nxt(c) <= Top(c) /\ Top(c) <= End(c) + One(c.fin_queued)
  BY <1>2 DEF Core0, SndOK, AckOK
<1>7. (c.fin_queued => One(c.fin_queued) = 1) /\ (~c.fin_queued => One(c.fin_queued) = 0)
  BY DEF One
<1>8. End(c) + 1 < Half /\ Top(c) < Half /\ Buf(c) <= End(c)
  <2> DEFINE one == One(c.fin_queued)
  <2>1. one \in 0 .. 1 /\ Top(c) <= End(c) + one
    BY <1>3, <1>6
  <2> HIDE DEF one
  <2>2. End(c) = Len(k.sent) + 1 /\ Half \in Nat
    BY <1>6, HalfIsHalf
  <2>3. End(c) + 1 < Half
    BY <1>2, <1>4, <2>2
  <2>4. Buf(c) <= End(c)
    BY <1>2, <1>5
  <2>5. Top(c) < Half
    BY <1>2, <2>1, <2>2, <2>3
  <2> QED BY <2>3, <2>4, <2>5
<1>9. Una(c) < Half /\ Nxt(c) < Half /\ Buf(c) < Half
  BY <1>2, <1>6, <1>8, HalfIsHalf
<1> QED BY <1>2, <1>3, <1>4, <1>5, <1>6, <1>7, <1>8, <1>9

\* Where an acknowledgement of something that was sent, and not acknowledged before, points.
LEMMA AckPlace ==
    ASSUME NEW k, NEW c, Core0(k, c), NEW ack \in Nos, SeqSub(ack, k.iss) \in 1 .. k.heard
    PROVE  /\ SeqSub(ack, c.iss) \in Nat /\ SeqSub(ack, c.iss) >= 1
           /\ SeqSub(ack, c.iss) <= k.heard /\ SeqSub(ack, c.iss) < Half
           /\ SeqLt(c.snd_una, ack) <=> Una(c) < SeqSub(ack, c.iss)
           /\ SeqLt(c.snd_max, ack) <=> Top(c) < SeqSub(ack, c.iss)
           /\ SeqLt(c.snd_nxt, ack) <=> Nxt(c) < SeqSub(ack, c.iss)
           /\ SeqLt(c.buf_seq, ack) <=> Buf(c) < SeqSub(ack, c.iss)
           /\ SeqLe(ack, c.snd_max) <=> SeqSub(ack, c.iss) <= Top(c)
           /\ ack = c.snd_max <=> SeqSub(ack, c.iss) = Top(c)
           /\ ack = c.snd_una <=> SeqSub(ack, c.iss) = Una(c)
<1>1. /\ c.iss = k.iss /\ c.iss \in Nos /\ c.snd_una \in Nos /\ c.snd_max \in Nos
      /\ c.snd_nxt \in Nos /\ c.buf_seq \in Nos
  BY DEF Core0, AckOK, Typed
<1>2. k.heard \in Nat /\ k.heard <= Len(k.sent) + 2 /\ Len(k.sent) \in Nat
      /\ Len(k.sent) + 2 < Half
  BY LenProperties DEF Core0, IsAround
<1> DEFINE A == SeqSub(ack, c.iss)
<1>3. A \in Nat /\ A >= 1 /\ A <= k.heard /\ A < Half
  BY <1>1, <1>2, HalfIsHalf
<1>4. /\ SeqSub(c.snd_una, c.iss) < Half /\ SeqSub(c.snd_max, c.iss) < Half
      /\ SeqSub(c.snd_nxt, c.iss) < Half /\ SeqSub(c.buf_seq, c.iss) < Half /\ A < Half
  BY <1>3, Core0Places DEF Una, Nxt, Top, Buf
<1>5. SeqLt(c.snd_una, ack) <=> Una(c) < A
  BY <1>1, <1>4, SubOrder DEF Una
<1>6. (SeqLt(c.snd_max, ack) <=> Top(c) < A) /\ (SeqLe(ack, c.snd_max) <=> A <= Top(c))
  BY <1>1, <1>4, SubOrder DEF Top
<1>7. SeqLt(c.snd_nxt, ack) <=> Nxt(c) < A
  BY <1>1, <1>4, SubOrder DEF Nxt
<1>8. SeqLt(c.buf_seq, ack) <=> Buf(c) < A
  BY <1>1, <1>4, SubOrder DEF Buf
<1>9. (ack = c.snd_max <=> A = Top(c)) /\ (ack = c.snd_una <=> A = Una(c))
  BY <1>1, SubInjective DEF Top, Una
<1> HIDE DEF A
<1> QED BY <1>3, <1>5, <1>6, <1>7, <1>8, <1>9 DEF A

-----------------------------------------------------------------------------
(* OnNewAck. *)

\* What an acknowledgement takes from the send buffer.
LEMMA TakenFrame ==
    ASSUME NEW c, DOMAIN c = Fields, NEW ack
    PROVE  /\ Same(c, Taken(c, ack), TakenFields)
           /\ Taken(c, ack).send_buf = SubSeq(c.send_buf, AckedBytes(c, ack) + 1, Len(c.send_buf))
           /\ Taken(c, ack).buf_seq = (c.buf_seq + AckedBytes(c, ack)) % M
           /\ Taken(c, ack).snd_una = ack
           /\ Taken(c, ack).snd_nxt = IF SeqLt(c.snd_nxt, ack) THEN ack ELSE c.snd_nxt
           /\ Taken(c, ack).retries = 0
BY DEF Taken, TakenFields, Same, Fields, NewConnection

\* What it leaves alone.
LEMMA TakenSame ==
    ASSUME NEW c, NEW d, Same(c, d, TakenFields)
    PROVE  /\ DOMAIN d = Fields /\ d.state = c.state /\ d.iss = c.iss /\ d.snd_max = c.snd_max
           /\ d.fin_queued = c.fin_queued /\ d.snd_wnd = c.snd_wnd /\ d.cwnd = c.cwnd
           /\ d.ssthresh = c.ssthresh /\ d.retransmit = c.retransmit /\ d.persist = c.persist
           /\ d.delayed_ack = c.delayed_ack /\ d.time_wait = c.time_wait
           /\ d.unacked_segments = c.unacked_segments
           /\ d.irs = c.irs /\ d.rcv_nxt = c.rcv_nxt /\ d.rcv_offset = c.rcv_offset
           /\ d.recv_buf = c.recv_buf /\ d.out_of_order = c.out_of_order
           /\ d.peer_fin_seq = c.peer_fin_seq /\ d.fin_received = c.fin_received /\ d.out = c.out
           /\ d.in_recovery = c.in_recovery /\ d.recover = c.recover
           /\ Top(d) = Top(c) /\ \A k : Pos(k, d) = Pos(k, c)
BY DEF Same, Fields, NewConnection, TakenFields, Top, Pos

\* Where una, nxt and the buffer stand after it.
LEMMA TakenPlaces ==
    ASSUME NEW k, NEW c, Core0(k, c), NEW ack \in Nos, SeqSub(ack, k.iss) \in 1 .. k.heard,
           Una(c) < SeqSub(ack, c.iss), SeqSub(ack, c.iss) <= Top(c)
    PROVE  LET d == Taken(c, ack)
               A == SeqSub(ack, c.iss)
           IN  /\ Una(d) = A /\ Buf(d) = (IF A <= End(c) THEN A ELSE End(c)) /\ End(d) = End(c)
               /\ Nxt(d) = (IF Nxt(c) < A THEN A ELSE Nxt(c))
               /\ d.buf_seq \in Nos /\ d.snd_una \in Nos /\ d.snd_nxt \in Nos
               /\ d.send_buf \in Seq(Nat)
               /\ d.send_buf = SubSeq(k.sent, Buf(d), Len(k.sent))
<1> DEFINE d == Taken(c, ack)
           A == SeqSub(ack, c.iss)
           n == AckedBytes(c, ack)
           L == Len(c.send_buf)
<1>0. /\ Typed(c) /\ DOMAIN c = Fields /\ c.iss \in Nos /\ c.buf_seq \in Nos /\ c.snd_nxt \in Nos
      /\ k.sent \in Seq(Nat) /\ c.send_buf = SubSeq(k.sent, Buf(c), Len(k.sent))
      /\ c.send_buf \in Seq(Nat)
  BY DEF Core0, Typed, IsAround, SndOK
<1>1. /\ Same(c, d, TakenFields) /\ d.send_buf = SubSeq(c.send_buf, n + 1, L)
      /\ d.buf_seq = (c.buf_seq + n) % M /\ d.snd_una = ack
      /\ d.snd_nxt = IF SeqLt(c.snd_nxt, ack) THEN ack ELSE c.snd_nxt
  BY <1>0, TakenFrame, ZenonT(30)
<1> HIDE DEF d
<1>2. /\ A \in Nat /\ A >= 1 /\ A < Half
      /\ SeqLt(c.snd_nxt, ack) <=> Nxt(c) < A
      /\ SeqLt(c.buf_seq, ack) <=> Buf(c) < A
  BY AckPlace
<1>3. Buf(c) \in Nat /\ 1 <= Buf(c) /\ Buf(c) <= End(c) /\ End(c) = Buf(c) + L /\ L \in Nat
      /\ End(c) = Len(k.sent) + 1 /\ Una(c) \in Nat /\ Top(c) \in Nat /\ Len(k.sent) \in Nat
      /\ End(c) + 1 < Half /\ Buf(c) < Half
  BY Core0Places
<1>4. n \in Nat /\ n <= L /\ Buf(c) + n = IF A <= End(c) THEN A ELSE End(c)
  <2>1. CASE Buf(c) < A
    <3>1. SeqSub(ack, c.buf_seq) = A - Buf(c)
      <4>1. SeqSub(ack, c.iss) >= SeqSub(c.buf_seq, c.iss)
        BY <1>2, <1>3, <2>1 DEF Buf
      <4> QED BY <1>0, <4>1, SubDiff DEF Buf
    <3>2. n = Least(A - Buf(c), L)
      BY <1>2, <2>1, <3>1 DEF AckedBytes
    <3> HIDE DEF n, A, L
    <3>3. CASE A - Buf(c) < L
      BY <1>2, <1>3, <2>1, <3>2, <3>3, SMTT(30) DEF Least
    <3>4. CASE ~(A - Buf(c) < L)
      BY <1>2, <1>3, <2>1, <3>2, <3>4 DEF Least
    <3> QED BY <3>3, <3>4
  <2>2. CASE ~(Buf(c) < A)
    <3>1. n = 0
      BY <1>2, <2>2 DEF AckedBytes
    <3>2. Una(c) = 0 /\ Top(c) <= 1 /\ Len(k.sent) = 0
      <4>1. Una(c) # Buf(c) /\ Una(c) # Buf(c) + 1
        BY <1>2, <1>3, <2>2
      <4> QED BY <4>1 DEF Core0, SndOK
    <3> HIDE DEF n, A, L
    <3>3. A = 1 /\ Buf(c) = 1 /\ End(c) = 1
      <4>1. A <= Top(c)
        BY DEF A
      <4> QED BY <1>2, <1>3, <2>2, <3>2, <4>1
    <3> QED BY <1>3, <3>1, <3>3
  <2> QED BY <2>1, <2>2
<1>5. d.iss = c.iss /\ d.snd_max = c.snd_max
  BY <1>1, TakenSame
<1>6. d.buf_seq \in Nos /\ Buf(d) = Buf(c) + n
  <2>1. SeqSub(c.buf_seq, c.iss) + n \in Nos /\ n \in Int
    <3>1. Buf(c) + n \in Nat /\ Buf(c) + n <= End(c)
      BY <1>2, <1>3, <1>4
    <3> HIDE DEF n
    <3> QED BY <1>3, <1>4, <3>1, HalfIsHalf DEF Nos, Buf
  <2> HIDE DEF n
  <2> QED BY <1>0, <1>1, <1>5, <2>1, SubAdd DEF Buf
<1>7. Una(d) = A /\ d.snd_una \in Nos
  BY <1>1, <1>5 DEF Una
<1>8. Nxt(d) = (IF Nxt(c) < A THEN A ELSE Nxt(c)) /\ d.snd_nxt \in Nos
  <2>1. CASE SeqLt(c.snd_nxt, ack)
    BY <1>1, <1>2, <1>5, <2>1 DEF Nxt
  <2>2. CASE ~SeqLt(c.snd_nxt, ack)
    BY <1>0, <1>1, <1>2, <1>5, <2>2 DEF Nxt
  <2> QED BY <2>1, <2>2
<1>9. d.send_buf \in Seq(Nat) /\ Len(d.send_buf) = L - n
      /\ d.send_buf = SubSeq(k.sent, Buf(c) + n, Len(k.sent))
  <2> DEFINE e == Len(k.sent)
             b == Buf(c)
             i == n + 1
  <2>1. b \in Nat \ {0} /\ e \in Nat /\ b <= e + 1 /\ e <= Len(k.sent)
        /\ i \in Nat \ {0} /\ L \in Nat /\ i <= L + 1 /\ L <= e - b + 1 /\ L = e - b + 1
        /\ b + i - 1 = b + n /\ b + L - 1 = e /\ L - i + 1 = L - n
    <3>1. /\ b \in Nat /\ b >= 1 /\ e \in Nat /\ n \in Nat /\ L \in Nat /\ n <= L
          /\ End(c) = b + L /\ End(c) = e + 1 /\ i = n + 1 /\ e = Len(k.sent)
      BY <1>3, <1>4
    <3> HIDE DEF b, e, i, n, L
    <3> QED BY <3>1
  <2>2. c.send_buf = SubSeq(k.sent, b, e) /\ d.send_buf = SubSeq(c.send_buf, i, L)
    BY <1>0, <1>1
  <2>3. L = Len(c.send_buf)
    OBVIOUS
  <2> HIDE DEF e, b, i, L, n
  <2>4. SubSeq(SubSeq(k.sent, b, e), i, L) = SubSeq(k.sent, b + i - 1, b + L - 1)
    BY <1>0, <2>1, PieceOfPiece
  <2>5. d.send_buf \in Seq(Nat) /\ Len(d.send_buf) = L - i + 1
    <3>1. L <= Len(c.send_buf)
      BY <2>1, <2>3
    <3> QED BY <1>0, <2>1, <2>2, <3>1, Piece, SMTT(30)
  <2> QED BY <2>1, <2>2, <2>4, <2>5 DEF e, b
<1>10. End(d) = End(c)
  <2> HIDE DEF n, L
  <2> QED BY <1>3, <1>4, <1>6, <1>9 DEF End, L
<1> HIDE DEF A, n, L
<1>11. Buf(d) = (IF A <= End(c) THEN A ELSE End(c)) /\ d.send_buf = SubSeq(k.sent, Buf(d), Len(k.sent))
  BY <1>4, <1>6, <1>9
<1> QED BY <1>6, <1>7, <1>8, <1>9, <1>10, <1>11 DEF d, A

\* An acknowledgement of what was sent and received keeps Core and takes nothing back.
LEMMA TakenCore ==
    ASSUME NEW k, NEW c, Core0(k, c), PeerKnown(c), ~Handshake(c), NEW ack, NewAck(k, c, ack)
    PROVE  LET d == Taken(c, ack)
           IN  /\ Core(k, d) /\ Later(k, c, d) /\ Same(c, d, TakenFields)
               /\ d.snd_una = ack /\ d.retransmit
<1> DEFINE d == Taken(c, ack)
           A == SeqSub(ack, c.iss)
<1>0. /\ Typed(c) /\ IsAround(k) /\ ack \in Nos /\ SeqSub(ack, k.iss) \in 1 .. k.heard
      /\ Una(c) < A /\ A <= Top(c) /\ DOMAIN c = Fields
  BY DEF Core0, NewAck, Typed
<1>1. /\ Una(d) = A /\ Buf(d) = (IF A <= End(c) THEN A ELSE End(c)) /\ End(d) = End(c)
      /\ Nxt(d) = (IF Nxt(c) < A THEN A ELSE Nxt(c))
      /\ d.buf_seq \in Nos /\ d.snd_una \in Nos /\ d.snd_nxt \in Nos
      /\ d.send_buf \in Seq(Nat)
      /\ d.send_buf = SubSeq(k.sent, Buf(d), Len(k.sent))
  <2> HIDE DEF A
  <2>1. Una(c) < SeqSub(ack, c.iss) /\ SeqSub(ack, c.iss) <= Top(c)
    BY <1>0 DEF A
  <2> QED BY <1>0, <2>1, TakenPlaces DEF A
<1>2. Same(c, d, TakenFields) /\ d.retries = 0 /\ d.snd_una = ack
  BY <1>0, TakenFrame
<1>3. A \in Nat /\ A >= 1 /\ A <= k.heard /\ A < Half
  BY <1>0, AckPlace
<1> HIDE DEF d, A
<1>4. Typed(d)
  <2>1. /\ d.fin_queued \in BOOLEAN /\ d.retransmit \in BOOLEAN /\ d.persist \in BOOLEAN
        /\ d.delayed_ack \in BOOLEAN /\ d.time_wait \in BOOLEAN /\ d.fin_received \in BOOLEAN
    <3>1. /\ d.fin_queued = c.fin_queued /\ d.retransmit = c.retransmit /\ d.persist = c.persist
          /\ d.delayed_ack = c.delayed_ack /\ d.time_wait = c.time_wait
          /\ d.fin_received = c.fin_received
      BY <1>2, TakenSame
    <3>2. /\ c.fin_queued \in BOOLEAN /\ c.retransmit \in BOOLEAN /\ c.persist \in BOOLEAN
          /\ c.delayed_ack \in BOOLEAN /\ c.time_wait \in BOOLEAN /\ c.fin_received \in BOOLEAN
      BY <1>0, Zenon DEF Typed
    <3> QED BY <3>1, <3>2, Zenon
  <2>2. /\ DOMAIN d = Fields /\ d.state = c.state /\ d.iss = c.iss /\ d.snd_max = c.snd_max
        /\ d.snd_wnd = c.snd_wnd /\ d.cwnd = c.cwnd /\ d.ssthresh = c.ssthresh
        /\ d.unacked_segments = c.unacked_segments
        /\ d.irs = c.irs /\ d.rcv_nxt = c.rcv_nxt /\ d.rcv_offset = c.rcv_offset
        /\ d.recv_buf = c.recv_buf
    BY <1>2, TakenSame
  <2> HIDE DEF Same
  <2> QED BY <1>0, <1>1, <1>2, <2>1, <2>2 DEF Typed
<1>5. /\ d.state = c.state /\ d.iss = c.iss /\ d.fin_queued = c.fin_queued /\ d.out = c.out
      /\ d.recv_buf = c.recv_buf /\ d.fin_received = c.fin_received /\ d.snd_max = c.snd_max
      /\ Top(d) = Top(c) /\ Pos(k, d) = Pos(k, c) /\ d.retransmit = c.retransmit
  BY <1>2, TakenSame
<1>6. /\ Una(c) \in Nat /\ Nxt(c) \in Nat /\ Top(c) \in Nat /\ Buf(c) \in Nat /\ End(c) \in Nat
      /\ Buf(c) <= End(c) /\ 1 <= Buf(c) /\ Una(c) <= Nxt(c) /\ Nxt(c) <= Top(c)
      /\ Top(c) <= End(c) + One(c.fin_queued) /\ One(c.fin_queued) \in 0 .. 1
      /\ (~c.fin_queued => One(c.fin_queued) = 0)
      /\ End(c) = Len(k.sent) + 1 /\ Len(k.sent) \in Nat
  BY Core0Places
<1>7. Buf(d) \in Nat /\ 1 <= Buf(d) /\ Buf(d) <= End(c) /\ Una(d) <= Buf(d) + 1 /\ Buf(d) <= Una(d)
      /\ (Una(d) = Buf(d) + 1 => Una(d) = End(c) + 1 /\ Buf(d) = End(c) /\ c.fin_queued)
  <2>1. A <= End(c) + 1 /\ (A = End(c) + 1 => c.fin_queued)
    BY <1>0, <1>3, <1>6
  <2> QED BY <1>1, <1>3, <1>6, <2>1
<1>8. Buf(c) <= Buf(d) /\ Una(c) # Buf(c) + 1
  <2>1. CASE Buf(c) <= A
    <3>1. Buf(c) <= Buf(d)
      BY <1>1, <1>3, <1>6, <2>1
    <3>2. ASSUME Una(c) = Buf(c) + 1 PROVE FALSE
      <4>1. Buf(c) = End(c)
        BY <1>6, <3>2 DEF Core0, AckOK
      <4> QED BY <1>0, <1>3, <1>6, <3>2, <4>1
    <3> QED BY <3>1, <3>2
  <2>2. CASE ~(Buf(c) <= A)
    <3>1. Una(c) # Buf(c) /\ Una(c) # Buf(c) + 1
      BY <1>0, <1>3, <1>6, <2>2
    <3>2. Top(c) <= 1 /\ Len(k.sent) = 0
      BY <3>1 DEF Core0, SndOK
    <3> QED BY <1>0, <1>1, <1>3, <1>6, <2>2, <3>1, <3>2
  <2> QED BY <2>1, <2>2
<1>9. AckOK(k, d)
  <2>1. c.iss = k.iss
    BY DEF Core0, AckOK
  <2> QED BY <1>1, <1>3, <1>5, <1>6, <1>7, <2>1 DEF AckOK
<1>10. ArrOK(k, d)
  BY <1>5 DEF Core0, ArrOK
<1>11. Later(k, c, d)
  <2>1. Pos(k, c) \in Nat /\ Len(c.recv_buf) \in Nat /\ Horizon(c) \in Int
    BY <1>0, PosType, OffsetType
  <2>2. Horizon(d) = Horizon(c)
    BY <1>5 DEF Horizon
  <2> QED BY <1>5, <1>8, <2>1, <2>2 DEF Later
<1>12. OutOK(k, d)
  BY <1>0, <1>4, <1>5, <1>11, LaterGrows, OutKept DEF Core0
<1>13. SndOK(k, d)
  <2>1. End(d) = Len(k.sent) + 1 /\ d.send_buf = SubSeq(k.sent, Buf(d), Len(k.sent))
    BY <1>1, <1>6
  <2>2. Una(d) <= Nxt(d) /\ Nxt(d) <= Top(d)
    BY <1>0, <1>1, <1>3, <1>5, <1>6
  <2>3. Top(d) <= End(d) + One(d.fin_queued)
    BY <1>1, <1>5, <1>6
  <2>4. Una(d) = Buf(d) \/ Una(d) = Buf(d) + 1
    BY <1>1, <1>3, <1>7
  <2> QED BY <2>1, <2>2, <2>3, <2>4 DEF SndOK
<1>14. RcvOK(k, d)
  <2>1. /\ d.irs = c.irs /\ d.rcv_nxt = c.rcv_nxt /\ d.rcv_offset = c.rcv_offset
        /\ d.recv_buf = c.recv_buf /\ d.out_of_order = c.out_of_order
        /\ d.peer_fin_seq = c.peer_fin_seq /\ d.fin_received = c.fin_received
        /\ d.state = c.state /\ Pos(k, d) = Pos(k, c)
    BY <1>2, TakenSame
  <2> HIDE DEF Same
  <2> QED BY <2>1 DEF Core0, RcvOK, PeerKnown, Accepting, Receiving
<1>15. d.retransmit
  <2>1. c.snd_una # c.snd_max
    <3>1. Una(c) # Top(c)
      BY <1>0, <1>3, <1>6
    <3> QED BY <3>1 DEF Una, Top
  <2> QED BY <1>5, <2>1 DEF Core0, TimOK, Timed
<1>16. TimOK(d)
  <2>1. d.time_wait = c.time_wait /\ d.persist = c.persist /\ d.delayed_ack = c.delayed_ack
    BY <1>2, TakenSame
  <2> QED BY <1>5, <1>15, <2>1 DEF Core0, TimOK, Timed, Quiet, PeerKnown
<1>17. NumsOK(d)
  <2>1. d.cwnd = c.cwnd /\ d.in_recovery = c.in_recovery /\ d.recover = c.recover
    BY <1>2, TakenSame
  <2>2. c.state \notin {"FinWait2", "TimeWait"}
    BY <1>8 DEF Core0, NumsOK
  <2> QED BY <1>5, <2>1, <2>2 DEF Core0, NumsOK, Handshake, PeerKnown
<1>18. StateOK(d)
  <2>1. Una(d) >= Buf(d)
    BY <1>1, <1>3, <1>7
  <2> QED BY <1>17, <2>1 DEF StateOK
<1>19. Core(k, d)
  BY <1>0, <1>4, <1>5, <1>9, <1>10, <1>12, <1>13, <1>14, <1>16, <1>18 DEF Core, Core0
<1> QED BY <1>2, <1>11, <1>15, <1>19 DEF d

\* What a change of the congestion state leaves alone.
LEMMA CongestionSame ==
    ASSUME NEW c, NEW d, Same(c, d, CongestionFields)
    PROVE  /\ Same(c, d, SideFields)
           /\ d.state = c.state /\ d.snd_wnd = c.snd_wnd /\ d.retransmit = c.retransmit
           /\ d.persist = c.persist /\ d.delayed_ack = c.delayed_ack /\ d.time_wait = c.time_wait
           /\ d.unacked_segments = c.unacked_segments
BY DEF Same, CongestionFields, SideFields, Fields, NewConnection

\* The congestion window is of no consequence for the streams.
LEMMA CongestionCore ==
    ASSUME NEW k, NEW c, Core(k, c), NEW d, Same(c, d, CongestionFields),
           d.cwnd \in Nat \ {0}, d.ssthresh \in Nat \ {0}, d.retries \in Nat,
           d.in_recovery => d.recover \in Nos /\ SeqSub(d.recover, c.iss) <= Top(c)
    PROVE  Acked(k, c, d)
<1>1. /\ Same(c, d, SideFields)
      /\ d.state = c.state /\ d.snd_wnd = c.snd_wnd /\ d.retransmit = c.retransmit
      /\ d.persist = c.persist /\ d.delayed_ack = c.delayed_ack /\ d.time_wait = c.time_wait
      /\ d.unacked_segments = c.unacked_segments
  BY CongestionSame
<1>2. /\ d.iss = c.iss /\ d.rcv_nxt = c.rcv_nxt /\ d.snd_una = c.snd_una /\ d.snd_max = c.snd_max
      /\ Una(d) = Una(c) /\ Top(d) = Top(c) /\ Buf(d) = Buf(c) /\ d.fin_received = c.fin_received
  BY <1>1, SideSame
<1> HIDE DEF Same
<1>3. SideTyped(d)
  <2>1. /\ c.retransmit \in BOOLEAN /\ c.persist \in BOOLEAN
        /\ c.delayed_ack \in BOOLEAN /\ c.time_wait \in BOOLEAN
    BY Zenon DEF Core, Typed
  <2>2. /\ d.retransmit \in BOOLEAN /\ d.persist \in BOOLEAN
        /\ d.delayed_ack \in BOOLEAN /\ d.time_wait \in BOOLEAN
    BY <1>1, <2>1, Zenon
  <2>3. c.snd_wnd \in Nat /\ c.unacked_segments \in Nat /\ c.state \in States
    BY DEF Core, Typed
  <2> QED BY <1>1, <2>2, <2>3 DEF SideTyped
<1>4. StateOK(d) /\ TimOK(d)
  BY <1>1, <1>2 DEF Core, StateOK, NumsOK, TimOK, Timed, Quiet, PeerKnown, Handshake
<1>5. (PeerKnown(d) <=> PeerKnown(c)) /\ (d.fin_received => ~Accepting(d)) /\ d.state # "Closed"
  BY <1>1, <1>2 DEF Core, RcvOK, PeerKnown, Accepting, Receiving
<1>6. Core(k, d) /\ Later(k, c, d)
  BY <1>1, <1>3, <1>4, <1>5, CoreSide
<1>7. Owed(c) => Owed(d)
  BY <1>1 DEF Owed, Receiving
<1> QED BY <1>1, <1>2, <1>6, <1>7 DEF Acked

\* A connection has its own acknowledgements taken into account.
LEMMA AckedSelf ==
    ASSUME NEW k, NEW c, Core(k, c)
    PROVE  Acked(k, c, c)
BY LaterSelf DEF Acked, Core

\* Taking two acknowledgements into account is taking acknowledgements into account.
LEMMA AckedTwice ==
    ASSUME NEW k, NEW c, Core(k, c), NEW d, Acked(k, c, d), NEW e, Acked(k, d, e)
    PROVE  Acked(k, c, e)
<1>1. IsAround(k) /\ Typed(c) /\ Typed(d) /\ Typed(e)
  BY DEF Acked, Core
<1>2. Later(k, c, e)
  BY <1>1, LaterTwice DEF Acked
<1> QED BY <1>2 DEF Acked

\* Sending again what was sent is no more than an acknowledgement.
LEMMA ResendsAcked ==
    ASSUME NEW k, NEW c, Core(k, c), PeerKnown(c), NEW d, Sent(k, c, d)
    PROVE  Acked(k, c, d)
<1>1. d.state = c.state /\ d.rcv_nxt = c.rcv_nxt
  BY SameFields DEF Sent
<1>2. Core(k, d) /\ Later(k, c, d) /\ (Owed(c) => Owed(d))
  BY CoreSent
<1> QED BY <1>1, <1>2 DEF Acked

-----------------------------------------------------------------------------

\* The lesser and the greater of two numbers.
LEMMA LeastType ==
    ASSUME NEW x \in Int, NEW y \in Int
    PROVE  /\ Least(x, y) \in Int /\ Least(x, y) <= x /\ Least(x, y) <= y
           /\ Greatest(x, y) \in Int /\ Greatest(x, y) >= x /\ Greatest(x, y) >= y
           /\ (x > 0 /\ y > 0 => Least(x, y) \in Nat \ {0})
           /\ (x >= 0 /\ y >= 0 => Least(x, y) \in Nat /\ Greatest(x, y) \in Nat)
           /\ (x > 0 /\ y >= 0 => Greatest(x, y) \in Nat \ {0})
           /\ (x >= 0 /\ y > 0 => Greatest(x, y) \in Nat \ {0})
BY DEF Least, Greatest

\* The configuration's numbers are what ConfigAssumption says.
LEMMA Sizes ==
    /\ Mss \in Nat \ {0} /\ CwndCap \in Nat \ {0} /\ RecvBuffer \in Nat \ {0}
    /\ SendBuffer \in Nat \ {0} /\ SynRetries \in Nat /\ DataRetries \in Nat
BY SizeAssumption

\* The congestion window never gets to 0.
LEMMA NextCwndType ==
    ASSUME NEW c, Typed(c), c.cwnd > 0, NEW ack \in Nos
    PROVE  NextCwnd(c, ack) \in Nat \ {0}
<1> DEFINE acked == SeqSub(ack, c.snd_una)
           g == Greatest(c.cwnd, 1)
           square == Mss * Mss
           q == square \div g
           x == Greatest(1, q)
           y == Least(acked, Mss)
<1>1. acked \in Nat /\ c.cwnd \in Nat \ {0} /\ c.ssthresh \in Nat \ {0} /\ Mss \in Nat \ {0}
  <2>1. c.snd_una \in Nos
    BY DEF Typed
  <2>2. acked \in Nos
    BY <2>1, SubCases
  <2>3. acked \in Nat
    <3> HIDE DEF acked
    <3> QED BY <2>2, HalfIsHalf DEF Nos
  <2>4. c.cwnd \in Nat \ {0} /\ c.ssthresh \in Nat \ {0}
    BY DEF Typed
  <2> QED BY <2>3, <2>4, Sizes
<1>2. g \in Nat \ {0}
  BY <1>1 DEF Greatest
<1>3. square \in Int
  BY <1>1
<1>4. q \in Int
  <2> HIDE DEF square, g
  <2> QED BY <1>2, <1>3
<1>5. x \in Nat \ {0}
  <2> HIDE DEF q
  <2> QED BY <1>4 DEF Greatest
<1>6. y \in Nat
  <2> HIDE DEF acked
  <2> QED BY <1>1 DEF Least
<1>7. \/ c.cwnd > acked /\ NextCwnd(c, ack) = c.cwnd - acked + Mss
      \/ NextCwnd(c, ack) = Mss
      \/ NextCwnd(c, ack) = c.ssthresh
      \/ NextCwnd(c, ack) = c.cwnd + y
      \/ NextCwnd(c, ack) = c.cwnd + x
  <2> HIDE DEF acked, x, y
  <2> QED BY DEF NextCwnd, acked, x, y, q, square, g
<1> HIDE DEF acked, x, y
<1> QED BY <1>1, <1>5, <1>6, <1>7

-----------------------------------------------------------------------------
(* OnNewAck. *)

\* OnNewAck in terms of Answered and NextCwnd.
LEMMA OnNewAckIs ==
    ASSUME NEW c, NEW ack
    PROVE  OnNewAck(c, ack) =
               [Answered(c, ack) EXCEPT !.in_recovery = PartialAck(c, ack),
                   !.cwnd = Least(NextCwnd(c, ack), CwndCap), !.dupacks = 0,
                   !.retransmit = ack # c.snd_max]
BY DEF OnNewAck, Answered, PartialAck, Taken, AckedBytes, NextCwnd

\* What the second half of OnNewAck changes.
LEMMA OpenedFrame ==
    ASSUME NEW c, DOMAIN c = Fields, NEW partial, NEW cwnd, NEW running
    PROVE  Opens(c, [c EXCEPT !.in_recovery = partial, !.cwnd = cwnd, !.dupacks = 0,
                              !.retransmit = running], partial, cwnd, running)
BY DEF Opens, Same, OpenedFields, SideFields, Fields, NewConnection

\* What it leaves alone.
LEMMA OpenedSame ==
    ASSUME NEW c, NEW d, Same(c, d, OpenedFields)
    PROVE  /\ d.state = c.state /\ d.snd_wnd = c.snd_wnd /\ d.ssthresh = c.ssthresh
           /\ d.persist = c.persist /\ d.delayed_ack = c.delayed_ack /\ d.time_wait = c.time_wait
           /\ d.unacked_segments = c.unacked_segments /\ d.retries = c.retries
           /\ d.recover = c.recover
BY DEF Same, OpenedFields, Fields, NewConnection

\* OnNewAck keeps Core, takes nothing back and leaves what is unacknowledged with a timer.
LEMMA OnNewAckCore ==
    ASSUME NEW k, NEW c, Core0(k, c), PeerKnown(c), ~Handshake(c), NEW ack, NewAck(k, c, ack)
    PROVE  Acked(k, c, OnNewAck(c, ack))
<1> DEFINE b == Taken(c, ack)
           e == Answered(c, ack)
           partial == PartialAck(c, ack)
           cwnd == Least(NextCwnd(c, ack), CwndCap)
           running == (ack # c.snd_max)
           d == [e EXCEPT !.in_recovery = partial, !.cwnd = cwnd, !.dupacks = 0,
                          !.retransmit = running]
<1>1. /\ Typed(c) /\ IsAround(k) /\ ack \in Nos /\ SeqSub(ack, k.iss) \in 1 .. k.heard
      /\ Una(c) < SeqSub(ack, c.iss) /\ SeqSub(ack, c.iss) <= Top(c)
  BY DEF Core0, NewAck
<1>2. Core(k, b) /\ Later(k, c, b) /\ Same(c, b, TakenFields) /\ b.snd_una = ack /\ b.retransmit
  BY TakenCore
<1> HIDE DEF b
<1>3. /\ b.state = c.state /\ b.snd_max = c.snd_max /\ b.in_recovery = c.in_recovery
      /\ b.recover = c.recover /\ b.rcv_nxt = c.rcv_nxt /\ b.iss = c.iss /\ Top(b) = Top(c)
      /\ b.unacked_segments = c.unacked_segments /\ b.delayed_ack = c.delayed_ack
  BY <1>2, TakenSame
<1>4. Ready(k, b)
  BY <1>2, <1>3, CoreReady DEF PeerKnown, Handshake
<1>5. ASSUME partial PROVE c.recover \in Nos /\ SeqSub(c.recover, c.iss) <= Top(c)
                           /\ b.snd_una # b.snd_max
  <2>1. c.in_recovery /\ SeqLt(ack, c.recover)
    BY <1>5 DEF PartialAck
  <2>2. c.recover \in Nos /\ SeqSub(c.recover, c.iss) <= Top(c)
    BY <2>1 DEF Core0, NumsOK
  <2>3. /\ SeqSub(ack, c.iss) < Half /\ SeqSub(ack, c.iss) \in Nat
        /\ ack = c.snd_max <=> SeqSub(ack, c.iss) = Top(c)
    BY <1>1, AckPlace
  <2>4. Top(c) < Half /\ Top(c) \in Nat /\ c.iss \in Nos
    BY <1>1, Core0Places DEF Typed
  <2>5. SeqSub(c.recover, c.iss) \in Nat
    BY <2>2, <2>4, SubCases DEF Nos
  <2>6. SeqSub(c.recover, c.iss) < Half
    BY <2>2, <2>4, <2>5, HalfIsHalf
  <2>7. SeqSub(ack, c.iss) < SeqSub(c.recover, c.iss)
    BY <1>1, <2>1, <2>2, <2>3, <2>4, <2>6, SubOrder
  <2>8. SeqSub(ack, c.iss) # Top(c)
    BY <2>2, <2>3, <2>4, <2>5, <2>7
  <2> QED BY <1>2, <1>3, <2>2, <2>3, <2>8
<1>6. Sent(k, b, e) /\ e.snd_max = b.snd_max
  <2>1. CASE partial
    <3>1. Resends(k, b, RetransmitFirst(b))
      BY <1>4, <1>5, <2>1, RetransmitFirstSent
    <3>2. e = RetransmitFirst(b)
      BY <2>1 DEF Answered, b
    <3> QED BY <3>1, <3>2 DEF Resends
  <2>2. CASE ~partial
    <3>1. e = b
      BY <2>2 DEF Answered, b
    <3> QED BY <1>4, <3>1, SentNothing
  <2> QED BY <2>1, <2>2
<1> HIDE DEF e, partial
<1>7. Acked(k, b, e)
  BY <1>2, <1>3, <1>6, ResendsAcked DEF PeerKnown
<1>8. /\ Core(k, e) /\ DOMAIN e = Fields /\ Typed(e)
      /\ e.state = c.state /\ e.snd_una = ack /\ e.snd_max = c.snd_max /\ e.recover = c.recover
      /\ e.iss = c.iss /\ Top(e) = Top(c)
  <2>1. Core(k, e) /\ Typed(e) /\ DOMAIN e = Fields
    BY <1>7 DEF Acked, Core, Typed
  <2>2. Same(b, e, SendFields)
    BY <1>6 DEF Sent
  <2>3. e.state = b.state /\ e.snd_una = b.snd_una /\ e.recover = b.recover /\ e.iss = b.iss
    BY <2>2, SameFields
  <2> QED BY <1>2, <1>3, <1>6, <2>1, <2>3 DEF Top
<1>9. cwnd \in Nat \ {0}
  <2>1. NextCwnd(c, ack) \in Nat \ {0}
    BY <1>1, NextCwndType DEF Core0, NumsOK
  <2> DEFINE n == NextCwnd(c, ack)
  <2>2. n \in Int /\ n > 0 /\ CwndCap \in Int /\ CwndCap > 0
    BY <2>1, Sizes
  <2> HIDE DEF n
  <2>3. Least(n, CwndCap) \in Nat \ {0}
    BY <2>2, LeastType
  <2> QED BY <2>3 DEF n
<1> HIDE DEF cwnd
<1>10. running \in BOOLEAN /\ (running <=> ack # c.snd_max)
  OBVIOUS
<1> HIDE DEF running
<1>11. /\ Same(e, d, OpenedFields) /\ Same(e, d, SideFields)
       /\ d.in_recovery = partial /\ d.cwnd = cwnd /\ d.retransmit = running
  <2>1. DOMAIN e = Fields
    BY <1>8
  <2>2. Opens(e, d, partial, cwnd, running)
    BY <2>1, OpenedFrame
  <2> HIDE DEF d
  <2> QED BY <2>2, Zenon DEF Opens
<1> HIDE DEF d
<1>12. /\ d.state = e.state /\ d.snd_wnd = e.snd_wnd /\ d.ssthresh = e.ssthresh
       /\ d.persist = e.persist /\ d.delayed_ack = e.delayed_ack /\ d.time_wait = e.time_wait
       /\ d.unacked_segments = e.unacked_segments /\ d.retries = e.retries
       /\ d.recover = e.recover
  BY <1>11, OpenedSame
<1>13. /\ d.iss = e.iss /\ d.rcv_nxt = e.rcv_nxt /\ d.snd_una = e.snd_una /\ d.snd_max = e.snd_max
       /\ Una(d) = Una(e) /\ Top(d) = Top(e) /\ Buf(d) = Buf(e) /\ d.fin_received = e.fin_received
  BY <1>11, SideSame
<1>14. SideTyped(d)
  <2>1. /\ e.persist \in BOOLEAN /\ e.delayed_ack \in BOOLEAN /\ e.time_wait \in BOOLEAN
    BY <1>8, Zenon DEF Typed
  <2>2. /\ d.retransmit \in BOOLEAN /\ d.persist \in BOOLEAN
        /\ d.delayed_ack \in BOOLEAN /\ d.time_wait \in BOOLEAN
    BY <1>10, <1>11, <1>12, <2>1, Zenon
  <2>3. /\ e.snd_wnd \in Nat /\ e.unacked_segments \in Nat /\ e.state \in States
        /\ e.ssthresh \in Nat \ {0} /\ e.retries \in Nat
    BY <1>8 DEF Typed
  <2> QED BY <1>9, <1>11, <1>12, <2>2, <2>3 DEF SideTyped
<1>15. StateOK(d) /\ TimOK(d)
  <2>1. d.in_recovery => d.recover \in Nos /\ SeqSub(d.recover, d.iss) <= Top(d)
    BY <1>5, <1>8, <1>11, <1>12, <1>13
  <2>2. StateOK(d)
    BY <1>8, <1>9, <1>11, <1>12, <1>13, <2>1 DEF Core, StateOK, NumsOK, PeerKnown, Handshake
  <2>3. TimOK(d)
    BY <1>3, <1>8, <1>10, <1>11, <1>12, <1>13 DEF Core, TimOK, Timed, Quiet, PeerKnown
  <2> QED BY <2>2, <2>3
<1>16. (PeerKnown(d) <=> PeerKnown(e)) /\ (d.fin_received => ~Accepting(d)) /\ d.state # "Closed"
  BY <1>8, <1>12, <1>13 DEF Core, RcvOK, PeerKnown, Accepting, Receiving
<1>17. Core(k, d) /\ Later(k, e, d)
  BY <1>8, <1>11, <1>14, <1>15, <1>16, CoreSide
<1>18. Owed(e) => Owed(d)
  BY <1>12 DEF Owed, Receiving
<1>19. Acked(k, e, d)
  BY <1>12, <1>13, <1>17, <1>18 DEF Acked
<1>20. Acked(k, b, d)
  BY <1>2, <1>7, <1>19, AckedTwice
<1>21. Acked(k, c, d)
  <2>1. Typed(b) /\ Typed(d)
    BY <1>2, <1>17 DEF Core
  <2>2. Later(k, c, d)
    BY <1>1, <1>2, <1>20, <2>1, LaterTwice DEF Acked
  <2>3. Owed(c) => Owed(b)
    BY <1>3 DEF Owed, Receiving
  <2> QED BY <1>3, <1>20, <2>2, <2>3 DEF Acked
<1>22. OnNewAck(c, ack) = d
  BY OnNewAckIs DEF d, e, partial, cwnd, running
<1> QED BY <1>21, <1>22

\* What a change of the congestion window changes.
LEMMA CwndFrame ==
    ASSUME NEW c, DOMAIN c = Fields, NEW w, NEW d, d = [c EXCEPT !.cwnd = w]
    PROVE  /\ Same(c, d, CongestionFields) /\ d.cwnd = w /\ d.ssthresh = c.ssthresh
           /\ d.retries = c.retries /\ d.in_recovery = c.in_recovery /\ d.recover = c.recover
BY DEF Same, CongestionFields, Fields, NewConnection

\* What counting duplicates changes.
LEMMA DupacksFrame ==
    ASSUME NEW c, DOMAIN c = Fields, NEW n, NEW d, d = [c EXCEPT !.dupacks = n]
    PROVE  /\ Same(c, d, CongestionFields) /\ d.cwnd = c.cwnd /\ d.ssthresh = c.ssthresh
           /\ d.retries = c.retries /\ d.in_recovery = c.in_recovery /\ d.recover = c.recover
BY DEF Same, CongestionFields, Fields, NewConnection

\* What the third duplicate changes.
LEMMA LostFrame ==
    ASSUME NEW c, DOMAIN c = Fields, NEW s
    PROVE  NotesLoss(c, [c EXCEPT !.dupacks = 3, !.recover = c.snd_max, !.in_recovery = TRUE,
                                  !.ssthresh = s], s)
BY DEF NotesLoss, Same, CongestionFields, Fields, NewConnection

\* A connection whose congestion window changes to another positive one.
LEMMA CwndAcked ==
    ASSUME NEW k, NEW c, Core(k, c), NEW w \in Nat \ {0}
    PROVE  Acked(k, c, [c EXCEPT !.cwnd = w])
<1> DEFINE d == [c EXCEPT !.cwnd = w]
<1>1. DOMAIN c = Fields /\ c.ssthresh \in Nat \ {0} /\ c.retries \in Nat
      /\ (c.in_recovery => c.recover \in Nos /\ SeqSub(c.recover, c.iss) <= Top(c))
  BY DEF Core, Typed, StateOK, NumsOK
<1>2. /\ Same(c, d, CongestionFields) /\ d.cwnd = w /\ d.ssthresh = c.ssthresh
      /\ d.retries = c.retries /\ d.in_recovery = c.in_recovery /\ d.recover = c.recover
  BY <1>1, CwndFrame
<1> HIDE DEF d
<1>3. Acked(k, c, d)
  BY <1>1, <1>2, CongestionCore
<1> QED BY <1>3 DEF d

\* Duplicate acknowledgements resend the first segment, and change the congestion window.
LEMMA OnDuplicateAckCore ==
    ASSUME NEW k, NEW c, Core(k, c), PeerKnown(c), ~Handshake(c), c.snd_una # c.snd_max
    PROVE  Acked(k, c, OnDuplicateAck(c))
<1> DEFINE flight == SeqSub(c.snd_max, c.snd_una)
           half == flight \div 2
           threshold == Greatest(half, 2 * Mss)
           s == Least(threshold, CwndCap)
           b == [c EXCEPT !.dupacks = 3, !.recover = c.snd_max, !.in_recovery = TRUE,
                          !.ssthresh = s]
           lost == RetransmitFirst(b)
           more == Least(c.cwnd + Mss, CwndCap)
           w == Least(threshold + 3 * Mss, CwndCap)
<1>1. /\ DOMAIN c = Fields /\ c.ssthresh \in Nat \ {0} /\ c.retries \in Nat
      /\ c.cwnd \in Nat \ {0} /\ c.snd_max \in Nos /\ c.snd_una \in Nos
      /\ (c.in_recovery => c.recover \in Nos /\ SeqSub(c.recover, c.iss) <= Top(c))
  BY DEF Core, Typed, StateOK, NumsOK
<1>2. threshold \in Nat \ {0}
  <2>1. flight \in Nat
    BY <1>1, SubCases DEF Nos
  <2>2. half \in Nat
    <3> HIDE DEF flight
    <3> QED BY <2>1
  <2> HIDE DEF half
  <2> QED BY <2>2, Sizes DEF Greatest
<1> HIDE DEF threshold
<1>3. s \in Nat \ {0} /\ w \in Nat \ {0}
  BY <1>2, Sizes DEF Least
<1>4. more \in Nat \ {0}
  <2> DEFINE x == c.cwnd
  <2>1. x \in Nat \ {0}
    BY <1>1
  <2> HIDE DEF x
  <2>2. Least(x + Mss, CwndCap) \in Nat \ {0}
    BY <2>1, Sizes DEF Least
  <2> QED BY <2>2 DEF x
<1> HIDE DEF s, w, more
<1>5. CASE c.in_recovery
  <2>1. OnDuplicateAck(c) = [c EXCEPT !.cwnd = more]
    BY <1>5 DEF OnDuplicateAck, more
  <2> QED BY <1>4, <2>1, CwndAcked
<1>6. CASE ~c.in_recovery /\ c.dupacks + 1 # 3
  <2> DEFINE n == c.dupacks + 1
             d == [c EXCEPT !.dupacks = n]
  <2>1. OnDuplicateAck(c) = d
    BY <1>6 DEF OnDuplicateAck
  <2>2. /\ Same(c, d, CongestionFields) /\ d.cwnd = c.cwnd /\ d.ssthresh = c.ssthresh
        /\ d.retries = c.retries /\ d.in_recovery = c.in_recovery /\ d.recover = c.recover
    BY <1>1, DupacksFrame
  <2> HIDE DEF d
  <2>3. Acked(k, c, d)
    BY <1>1, <2>2, CongestionCore
  <2> QED BY <2>1, <2>3
<1>7. CASE ~c.in_recovery /\ ~(c.dupacks + 1 # 3)
  <2>1. OnDuplicateAck(c) = [lost EXCEPT !.cwnd = w]
    BY <1>7 DEF OnDuplicateAck, lost, b, s, w, threshold
  <2>2. /\ Same(c, b, CongestionFields) /\ b.cwnd = c.cwnd /\ b.ssthresh = s
        /\ b.retries = c.retries /\ b.recover = c.snd_max /\ b.snd_una = c.snd_una
        /\ b.snd_max = c.snd_max
    <3>1. DOMAIN c = Fields
      BY <1>1
    <3>2. NotesLoss(c, b, s)
      BY <3>1, LostFrame
    <3> HIDE DEF b
    <3> QED BY <3>2 DEF NotesLoss
  <2> HIDE DEF b
  <2>3. b.recover \in Nos /\ SeqSub(b.recover, c.iss) <= Top(c)
    BY <1>1, <2>2, CorePlaces DEF Top
  <2>4. Acked(k, c, b)
    BY <1>1, <1>3, <2>2, <2>3, CongestionCore
  <2>5. Core(k, b) /\ b.state = c.state
    BY <2>4 DEF Acked
  <2>6. Ready(k, b)
    BY <2>5, CoreReady DEF PeerKnown, Handshake
  <2>7. Sent(k, b, lost)
    BY <2>2, <2>6, RetransmitFirstSent DEF Resends
  <2> HIDE DEF lost
  <2>8. Acked(k, b, lost)
    BY <2>5, <2>7, ResendsAcked DEF PeerKnown
  <2>9. Acked(k, lost, [lost EXCEPT !.cwnd = w])
    BY <1>3, <2>8, CwndAcked DEF Acked
  <2>10. Acked(k, c, lost)
    BY <2>4, <2>8, AckedTwice
  <2>11. Acked(k, c, [lost EXCEPT !.cwnd = w])
    BY <2>9, <2>10, AckedTwice
  <2> QED BY <2>1, <2>11
<1> QED BY <1>5, <1>6, <1>7

-----------------------------------------------------------------------------
(* The end of a connection. *)

\* What the end of a connection leaves alone.
LEMMA EndSame ==
    ASSUME NEW c, NEW d, Same(c, d, EndFields)
    PROVE  /\ DOMAIN d = Fields
           /\ d.iss = c.iss /\ d.snd_una = c.snd_una /\ d.snd_nxt = c.snd_nxt /\ d.snd_max = c.snd_max
           /\ d.buf_seq = c.buf_seq /\ d.fin_queued = c.fin_queued
           /\ d.irs = c.irs /\ d.rcv_nxt = c.rcv_nxt /\ d.rcv_offset = c.rcv_offset
           /\ d.recv_buf = c.recv_buf /\ d.fin_received = c.fin_received /\ d.out = c.out
           /\ Una(d) = Una(c) /\ Nxt(d) = Nxt(c) /\ Top(d) = Top(c) /\ Buf(d) = Buf(c)
           /\ \A k : Pos(k, d) = Pos(k, c)
BY DEF Same, Fields, NewConnection, EndFields, SideFields, Una, Nxt, Top, Buf, Pos

\* A connection that closes leaves both streams as they are.
LEMMA ClosedGood ==
    ASSUME NEW k, NEW c, Base(k, c), NEW d, Same(c, d, EndFields), SideTyped(d),
           d.state = "Closed", d.send_buf = <<>>
    PROVE  Good(k, d) /\ Later(k, c, d)
<1>1. Typed(c) /\ IsAround(k) /\ AckOK(k, c) /\ ArrOK(k, c) /\ OutOK(k, c)
  BY DEF Base
<1>2. /\ DOMAIN d = Fields
      /\ d.iss = c.iss /\ d.snd_una = c.snd_una /\ d.snd_nxt = c.snd_nxt /\ d.snd_max = c.snd_max
      /\ d.buf_seq = c.buf_seq /\ d.fin_queued = c.fin_queued
      /\ d.irs = c.irs /\ d.rcv_nxt = c.rcv_nxt /\ d.rcv_offset = c.rcv_offset
      /\ d.recv_buf = c.recv_buf /\ d.fin_received = c.fin_received /\ d.out = c.out
      /\ Una(d) = Una(c) /\ Buf(d) = Buf(c) /\ Pos(k, d) = Pos(k, c)
  BY EndSame
<1> HIDE DEF Same
<1>3. Typed(d)
  <2>1. d.fin_queued \in BOOLEAN /\ d.fin_received \in BOOLEAN
    <3>1. c.fin_queued \in BOOLEAN /\ c.fin_received \in BOOLEAN
      BY <1>1, Zenon DEF Typed
    <3> QED BY <1>2, <3>1, Zenon
  <2>2. d.send_buf \in Seq(Nat)
    OBVIOUS
  <2> QED BY <1>1, <1>2, <2>1, <2>2 DEF Typed, SideTyped
<1>4. Later(k, c, d)
  <2>1. Horizon(c) \in 0 .. M /\ Pos(k, c) \in Nat /\ Len(c.recv_buf) \in Nat /\ Buf(c) \in Nos
    BY <1>1, OffsetType, PosType
  <2>2. Horizon(c) <= Horizon(d)
    BY <2>1, HalfIsHalf DEF Horizon
  <2> QED BY <1>2, <2>1, <2>2, HalfIsHalf DEF Later, Nos
<1>5. OutOK(k, d)
  BY <1>1, <1>2, <1>3, <1>4, LaterGrows, OutKept
<1>6. AckOK(k, d) /\ ArrOK(k, d)
  BY <1>1, <1>2 DEF AckOK, ArrOK
<1> QED BY <1>3, <1>4, <1>5, <1>6 DEF Good

\* A connection that is not closed, and has its timers.
LEMMA CoreGood ==
    ASSUME NEW k, NEW c, Core(k, c), Owed(c), CovOK(k, c)
    PROVE  Good(k, c)
BY DEF Core, Good

\* A good connection that is not closed is one a handler can start from.
LEMMA GoodCore ==
    ASSUME NEW k, IsAround(k), NEW c, Good(k, c)
    PROVE  /\ Base(k, c)
           /\ c.state # "Closed" => Core(k, c) /\ Owed(c) /\ CovOK(k, c)
BY DEF Core, Good, Base

\* What ClearTimers changes.
LEMMA ClearTimersFrame ==
    ASSUME NEW c, DOMAIN c = Fields, NEW d, d = ClearTimers(c)
    PROVE  /\ Same(c, d, TimerFields) /\ d.retransmit = FALSE /\ d.persist = FALSE
           /\ d.delayed_ack = FALSE /\ d.time_wait = FALSE
BY DEF ClearTimers, Same, TimerFields, Fields, NewConnection

\* What EnterTimeWait changes.
LEMMA EnterTimeWaitFrame ==
    ASSUME NEW c, DOMAIN c = Fields, NEW d, d = EnterTimeWait(c)
    PROVE  /\ Same(c, d, TimerFields \cup {"state"}) /\ d.retransmit = FALSE /\ d.persist = FALSE
           /\ d.delayed_ack = FALSE /\ d.time_wait = TRUE /\ d.state = "TimeWait"
BY DEF EnterTimeWait, ClearTimers, Same, TimerFields, Fields, NewConnection

\* The last acknowledgement takes a connection to TimeWait, with nothing left to send again.
LEMMA TimeWaitCore ==
    ASSUME NEW k, NEW c, Core(k, c), PeerKnown(c), Una(c) = Buf(c) + 1
    PROVE  LET d == EnterTimeWait(c)
           IN  /\ Core(k, d) /\ Later(k, c, d) /\ d.state = "TimeWait"
               /\ d.unacked_segments = c.unacked_segments
               /\ (c.unacked_segments = 0 => Good(k, d))
<1> DEFINE d == EnterTimeWait(c)
<1>1. DOMAIN c = Fields /\ Typed(c)
  BY DEF Core, Typed
<1>2. /\ Same(c, d, TimerFields \cup {"state"}) /\ d.retransmit = FALSE /\ d.persist = FALSE
      /\ d.delayed_ack = FALSE /\ d.time_wait = TRUE /\ d.state = "TimeWait"
  BY <1>1, EnterTimeWaitFrame
<1> HIDE DEF d
<1>3. Same(c, d, SideFields)
  BY <1>2 DEF Same, SideFields, TimerFields
<1>4. /\ d.snd_wnd = c.snd_wnd /\ d.cwnd = c.cwnd /\ d.ssthresh = c.ssthresh
      /\ d.retries = c.retries /\ d.unacked_segments = c.unacked_segments
      /\ d.in_recovery = c.in_recovery /\ d.recover = c.recover
  BY <1>2 DEF Same, TimerFields, Fields, NewConnection
<1>5. /\ d.iss = c.iss /\ d.snd_una = c.snd_una /\ d.snd_max = c.snd_max
      /\ Una(d) = Una(c) /\ Top(d) = Top(c) /\ Buf(d) = Buf(c) /\ d.fin_received = c.fin_received
  BY <1>3, SideSame
<1>6. d.time_wait
  BY <1>2
<1>7. SideTyped(d)
  <2>1. /\ d.retransmit \in BOOLEAN /\ d.persist \in BOOLEAN
        /\ d.delayed_ack \in BOOLEAN /\ d.time_wait \in BOOLEAN
    BY <1>2, Booleans, Zenon
  <2>2. /\ c.snd_wnd \in Nat /\ c.cwnd \in Nat /\ c.ssthresh \in Nat \ {0} /\ c.retries \in Nat
        /\ c.unacked_segments \in Nat
    BY <1>1 DEF Typed
  <2>3. d.state \in States
    BY <1>2 DEF States
  <2> HIDE DEF Same
  <2> QED BY <1>4, <2>1, <2>2, <2>3 DEF SideTyped
<1>8. d.snd_una = d.snd_max
  <2>1. Una(c) = Top(c)
    <3>1. Buf(c) = Len(k.sent) + 1
      BY DEF Core, AckOK
    <3> QED BY <3>1, CorePlaces
  <2> QED BY <1>5, <2>1, CoreFin
<1>9. TimOK(d)
  BY <1>2, <1>6, <1>8 DEF TimOK, Timed, Quiet, PeerKnown
<1>10. d.state = "TimeWait"
  BY <1>2
<1>11. StateOK(d)
  <2>1. PeerKnown(c) => c.cwnd > 0
    BY DEF Core, StateOK, NumsOK
  <2>2. c.in_recovery => c.recover \in Nos /\ SeqSub(c.recover, c.iss) <= Top(c)
    BY DEF Core, StateOK, NumsOK
  <2>3. Buf(c) \in Nat
    BY CorePlaces
  <2> HIDE DEF Same
  <2> QED BY <1>4, <1>5, <1>10, <2>1, <2>2, <2>3 DEF StateOK, NumsOK, PeerKnown, Handshake
<1>12. (PeerKnown(d) <=> PeerKnown(c)) /\ (d.fin_received => ~Accepting(d)) /\ d.state # "Closed"
  BY <1>10 DEF PeerKnown, Accepting, Receiving
<1>13. Core(k, d) /\ Later(k, c, d)
  BY <1>3, <1>7, <1>9, <1>11, <1>12, CoreSide
<1>14. ASSUME c.unacked_segments = 0 PROVE Good(k, d)
  <2>1. Owed(d)
    BY <1>4, <1>14 DEF Owed
  <2>2. CovOK(k, d)
    BY <1>10 DEF CovOK, Unsent, Sending
  <2> QED BY <1>13, <2>1, <2>2, CoreGood
<1> QED BY <1>4, <1>10, <1>13, <1>14 DEF d

\* What a change of the state changes.
LEMMA StateFrame ==
    ASSUME NEW c, DOMAIN c = Fields, NEW s, NEW d, d = [c EXCEPT !.state = s]
    PROVE  Same(c, d, {"state"}) /\ d.state = s
BY DEF Same, Fields, NewConnection

\* What it leaves alone.
LEMMA StateSame ==
    ASSUME NEW c, NEW d, Same(c, d, {"state"})
    PROVE  /\ Same(c, d, SideFields) /\ d.snd_wnd = c.snd_wnd
           /\ d.cwnd = c.cwnd /\ d.ssthresh = c.ssthresh
           /\ d.retries = c.retries /\ d.unacked_segments = c.unacked_segments
           /\ d.in_recovery = c.in_recovery /\ d.recover = c.recover
           /\ d.retransmit = c.retransmit /\ d.persist = c.persist
           /\ d.delayed_ack = c.delayed_ack /\ d.time_wait = c.time_wait
BY DEF Same, SideFields, Fields, NewConnection

\* A connection that only changes its state, between two past the handshake.
LEMMA StateCore ==
    ASSUME NEW k, NEW c, Core(k, c), PeerKnown(c), ~Handshake(c),
           NEW s \in States, s \notin {"None", "Listen", "SynSent", "SynReceived", "Closed"},
           NEW d, d = [c EXCEPT !.state = s],
           s \in {"FinWait2", "TimeWait"} => Una(c) = Buf(c) + 1,
           s # "TimeWait", c.state # "TimeWait",
           c.fin_received => s \notin {"Established", "FinWait1", "FinWait2"}
    PROVE  /\ Core(k, d) /\ Later(k, c, d) /\ d.state = s /\ d.rcv_nxt = c.rcv_nxt
           /\ d.unacked_segments = c.unacked_segments /\ d.delayed_ack = c.delayed_ack
           /\ d.iss = c.iss /\ d.snd_una = c.snd_una /\ d.snd_max = c.snd_max
           /\ Same(c, d, SideFields)
<1>1. DOMAIN c = Fields /\ Typed(c)
  BY DEF Core, Typed
<1>2. Same(c, d, {"state"}) /\ d.state = s
  BY <1>1, StateFrame
<1>3. /\ Same(c, d, SideFields) /\ d.snd_wnd = c.snd_wnd
      /\ d.cwnd = c.cwnd /\ d.ssthresh = c.ssthresh
      /\ d.retries = c.retries /\ d.unacked_segments = c.unacked_segments
      /\ d.in_recovery = c.in_recovery /\ d.recover = c.recover
      /\ d.retransmit = c.retransmit /\ d.persist = c.persist
      /\ d.delayed_ack = c.delayed_ack /\ d.time_wait = c.time_wait
  BY <1>2, StateSame
<1>4. /\ d.iss = c.iss /\ d.snd_una = c.snd_una /\ d.snd_max = c.snd_max /\ d.rcv_nxt = c.rcv_nxt
      /\ Una(d) = Una(c) /\ Top(d) = Top(c) /\ Buf(d) = Buf(c) /\ d.fin_received = c.fin_received
  BY <1>3, SideSame
<1> HIDE DEF Same
<1>5. SideTyped(d)
  <2>1. /\ c.retransmit \in BOOLEAN /\ c.persist \in BOOLEAN
        /\ c.delayed_ack \in BOOLEAN /\ c.time_wait \in BOOLEAN
    BY <1>1, Zenon DEF Typed
  <2>2. /\ d.retransmit \in BOOLEAN /\ d.persist \in BOOLEAN
        /\ d.delayed_ack \in BOOLEAN /\ d.time_wait \in BOOLEAN
    BY <1>3, <2>1, Zenon
  <2>3. /\ c.snd_wnd \in Nat /\ c.unacked_segments \in Nat /\ c.cwnd \in Nat
        /\ c.ssthresh \in Nat \ {0} /\ c.retries \in Nat
    BY <1>1 DEF Typed
  <2> QED BY <1>2, <1>3, <2>2, <2>3 DEF SideTyped
<1>6. StateOK(d)
  <2>1. c.cwnd > 0 /\ Una(c) >= Buf(c)
    BY DEF Core, StateOK, NumsOK
  <2>2. c.in_recovery => c.recover \in Nos /\ SeqSub(c.recover, c.iss) <= Top(c)
    BY DEF Core, StateOK, NumsOK
  <2> QED BY <1>2, <1>3, <1>4, <2>1, <2>2 DEF StateOK, NumsOK, PeerKnown, Handshake
<1>7. TimOK(d)
  BY <1>2, <1>3, <1>4 DEF Core, TimOK, Timed, Quiet, PeerKnown
<1>8. (PeerKnown(d) <=> PeerKnown(c)) /\ (d.fin_received => ~Accepting(d)) /\ d.state # "Closed"
  BY <1>2, <1>4 DEF PeerKnown, Accepting, Receiving
<1>9. Core(k, d) /\ Later(k, c, d)
  BY <1>3, <1>5, <1>6, <1>7, <1>8, CoreSide
<1> QED BY <1>2, <1>3, <1>4, <1>9

\* An acknowledgement that is not refused is of something sent and received.
LEMMA AckedNumber ==
    ASSUME NEW k, NEW c, Core0(k, c), NEW seg, AcksSent(k, c, seg)
    PROVE  /\ seg \in Segs /\ seg.ack \in Nos /\ SeqSub(seg.ack, k.iss) \in 1 .. k.heard
           /\ SeqLt(c.snd_una, seg.ack) => NewAck(k, c, seg.ack)
<1>1. seg \in Segs /\ seg.ack \in Nos /\ SeqSub(seg.ack, k.iss) \in 1 .. k.heard
  BY DEF AcksSent, Arrives, Belongs, Segs
<1>2. /\ SeqLt(c.snd_una, seg.ack) <=> Una(c) < SeqSub(seg.ack, c.iss)
      /\ SeqLt(c.snd_max, seg.ack) <=> Top(c) < SeqSub(seg.ack, c.iss)
      /\ SeqSub(seg.ack, c.iss) \in Nat
  BY <1>1, AckPlace
<1>3. Top(c) \in Nat
  BY Core0Places
<1> QED BY <1>1, <1>2, <1>3 DEF AcksSent, AcksUnsent, NewAck

\* Taking it into account keeps Core, the SYN's acknowledgement included.
LEMMA AckTakenCore ==
    ASSUME NEW k, NEW c, Core0(k, c), PeerKnown(c), ~Handshake(c), NEW seg, AcksSent(k, c, seg),
           Core(k, c) \/ SeqLt(c.snd_una, seg.ack)
    PROVE  Acked(k, c, AckTaken(c, seg))
<1> DEFINE duplicate == /\ seg.ack = c.snd_una /\ seg.data = <<>> /\ "Fin" \notin seg.flags
                        /\ seg.window = c.snd_wnd /\ c.snd_max # c.snd_una
           acked == CASE SeqLt(c.snd_una, seg.ack) -> OnNewAck(c, seg.ack)
                      [] duplicate -> OnDuplicateAck(c)
                      [] OTHER -> c
           d == UpdateWindow(acked, seg)
<1>1. seg \in Segs /\ (SeqLt(c.snd_una, seg.ack) => NewAck(k, c, seg.ack))
  BY AckedNumber
<1>2. SeqLt(c.snd_una, seg.ack) /\ seg.ack = c.snd_una => FALSE
  <2>1. /\ SeqLt(c.snd_una, seg.ack) <=> Una(c) < SeqSub(seg.ack, c.iss)
        /\ seg.ack = c.snd_una <=> SeqSub(seg.ack, c.iss) = Una(c)
        /\ Una(c) \in Nat
    BY AckedNumber, AckPlace, Core0Places
  <2> QED BY <2>1
<1>3. Acked(k, c, acked)
  <2>1. CASE SeqLt(c.snd_una, seg.ack)
    <3>1. ~duplicate
      BY <1>2, <2>1
    <3>2. acked = OnNewAck(c, seg.ack)
      BY <2>1, <3>1
    <3> QED BY <1>1, <2>1, <3>2, OnNewAckCore
  <2>2. CASE ~SeqLt(c.snd_una, seg.ack) /\ duplicate
    <3>1. acked = OnDuplicateAck(c)
      BY <2>2
    <3>2. Core(k, c) /\ c.snd_una # c.snd_max
      BY <2>2
    <3> QED BY <3>1, <3>2, OnDuplicateAckCore
  <2>3. CASE ~SeqLt(c.snd_una, seg.ack) /\ ~duplicate
    <3>1. acked = c
      BY <2>3
    <3>2. Core(k, c)
      BY <2>3
    <3> QED BY <3>1, <3>2, AckedSelf
  <2> QED BY <2>1, <2>2, <2>3
<1>4. AckTaken(c, seg) = d
  BY DEF AckTaken
<1> HIDE DEF acked
<1>9. Core(k, acked) /\ PeerKnown(acked)
  BY <1>3 DEF Acked, PeerKnown
<1>5. /\ Core(k, d) /\ Later(k, acked, d)
      /\ d.state = acked.state /\ d.rcv_nxt = acked.rcv_nxt
      /\ d.unacked_segments = acked.unacked_segments /\ d.delayed_ack = acked.delayed_ack
  BY <1>1, <1>9, UpdateWindowCore
<1> HIDE DEF d
<1>6. Owed(acked) => Owed(d)
  BY <1>5 DEF Owed, Receiving
<1>7. Later(k, c, d)
  <2>1. IsAround(k) /\ Typed(c) /\ Typed(acked) /\ Typed(d)
    BY <1>3, <1>5 DEF Core0, Core, Acked
  <2> QED BY <1>3, <1>5, <2>1, LaterTwice DEF Acked
<1>8. Acked(k, c, d)
  BY <1>3, <1>5, <1>6, <1>7 DEF Acked
<1> QED BY <1>4, <1>8

\* The ACK of the FIN in LastAck closes the connection.
LEMMA LastAckGood ==
    ASSUME NEW k, NEW c, Core(k, c), Una(c) = Buf(c) + 1,
           NEW d, d = [ClearTimers(c) EXCEPT !.state = "Closed"]
    PROVE  Good(k, d) /\ Later(k, c, d) /\ d.state = "Closed"
<1> DEFINE b == ClearTimers(c)
<1>1. DOMAIN c = Fields /\ Typed(c)
  BY DEF Core, Typed
<1>2. /\ Same(c, b, TimerFields) /\ b.retransmit = FALSE /\ b.persist = FALSE
      /\ b.delayed_ack = FALSE /\ b.time_wait = FALSE
  BY <1>1, ClearTimersFrame
<1>3. DOMAIN b = Fields
  BY <1>2 DEF Same
<1> HIDE DEF b
<1>4. Same(b, d, {"state"}) /\ d.state = "Closed"
  BY <1>3, StateFrame DEF b
<1>5. /\ d.snd_wnd = b.snd_wnd /\ d.cwnd = b.cwnd /\ d.ssthresh = b.ssthresh
      /\ d.retries = b.retries /\ d.unacked_segments = b.unacked_segments
      /\ d.retransmit = b.retransmit /\ d.persist = b.persist
      /\ d.delayed_ack = b.delayed_ack /\ d.time_wait = b.time_wait
  BY <1>4, StateSame, ZenonT(30)
<1>6. /\ b.snd_wnd = c.snd_wnd /\ b.cwnd = c.cwnd /\ b.ssthresh = c.ssthresh
      /\ b.retries = c.retries /\ b.unacked_segments = c.unacked_segments
      /\ b.send_buf = c.send_buf
  BY <1>2 DEF Same, TimerFields, Fields, NewConnection
<1>7. Same(c, d, SideFields)
  BY <1>2, <1>4 DEF Same, SideFields, TimerFields
<1>8. Same(c, d, EndFields) /\ d.send_buf = c.send_buf
  <2>1. d.send_buf = c.send_buf
    BY <1>7, SideSame
  <2>2. Same(c, d, EndFields)
    BY <1>7, Zenon DEF Same, EndFields
  <2> QED BY <2>1, <2>2
<1>9. SideTyped(d)
  <2>1. /\ d.retransmit \in BOOLEAN /\ d.persist \in BOOLEAN
        /\ d.delayed_ack \in BOOLEAN /\ d.time_wait \in BOOLEAN
    BY <1>2, <1>5, Booleans, Zenon
  <2>2. /\ c.snd_wnd \in Nat /\ c.cwnd \in Nat /\ c.ssthresh \in Nat \ {0} /\ c.retries \in Nat
        /\ c.unacked_segments \in Nat
    BY <1>1 DEF Typed
  <2>3. d.state \in States
    BY <1>4 DEF States
  <2> HIDE DEF Same
  <2> QED BY <1>5, <1>6, <2>1, <2>2, <2>3 DEF SideTyped
<1>10. d.send_buf = <<>>
  <2>1. Buf(c) = Len(k.sent) + 1
    BY DEF Core, AckOK
  <2>2. Len(c.send_buf) = 0
    BY <2>1, CorePlaces
  <2>3. c.send_buf \in Seq(Nat)
    BY <1>1 DEF Typed
  <2> QED BY <1>8, <2>2, <2>3, EmptyIffNoBytes
<1>11. Base(k, c)
  BY DEF Base, Core
<1>12. d.state = "Closed"
  BY <1>4
<1> QED BY <1>8, <1>9, <1>10, <1>11, <1>12, ClosedGood

\* ProcessAck leaves a connection that goes on with its data, or one that is closed or waits to
\* be.
LEMMA ProcessAckCore ==
    ASSUME NEW k, NEW c, Core0(k, c), PeerKnown(c), ~Handshake(c), c.state # "TimeWait",
           NEW seg, AcksSent(k, c, seg), Core(k, c) \/ SeqLt(c.snd_una, seg.ack), Owed(c)
    PROVE  LET d == ProcessAck(c, seg)
           IN  /\ d.state \notin {"TimeWait", "Closed"} => Went(k, c, d)
               /\ d.state \in {"TimeWait", "Closed"} => Good(k, d) /\ Later(k, c, d)
<1> DEFINE e == AckTaken(c, seg)
           d == ProcessAck(c, seg)
<1>1. Acked(k, c, e)
  BY AckTakenCore
<1>2. d = CASE FinAcked(e) /\ e.state = "FinWait1" -> [e EXCEPT !.state = "FinWait2"]
            [] FinAcked(e) /\ e.state = "Closing" -> EnterTimeWait(e)
            [] FinAcked(e) /\ e.state = "LastAck" -> [ClearTimers(e) EXCEPT !.state = "Closed"]
            [] OTHER -> e
  BY DEF ProcessAck, AckTaken
<1> HIDE DEF e, d
<1>3. /\ Core(k, e) /\ Later(k, c, e) /\ e.state = c.state /\ e.rcv_nxt = c.rcv_nxt /\ Owed(e)
      /\ PeerKnown(e) /\ ~Handshake(e) /\ e.state # "TimeWait" /\ e.state # "Closed"
      /\ IsAround(k) /\ Typed(c) /\ Typed(e)
      /\ (FinAcked(e) <=> Una(e) = Buf(e) + 1)
  BY <1>1, CoreFin DEF Acked, PeerKnown, Handshake, Core, Core0
<1>4. CASE FinAcked(e) /\ e.state = "FinWait1"
  <2>1. d = [e EXCEPT !.state = "FinWait2"]
    BY <1>2, <1>4
  <2>2. ~e.fin_received
    BY <1>3, <1>4 DEF Core, RcvOK, Accepting, Receiving
  <2>3. "FinWait2" \in States
    BY DEF States
  <2>4. /\ Core(k, d) /\ Later(k, e, d) /\ d.state = "FinWait2" /\ d.rcv_nxt = e.rcv_nxt
        /\ d.unacked_segments = e.unacked_segments /\ d.delayed_ack = e.delayed_ack
    BY <1>3, <1>4, <2>1, <2>2, <2>3, StateCore
  <2>5. Owed(d)
    BY <1>3, <1>4, <2>4 DEF Owed, Receiving
  <2>6. Later(k, c, d)
    BY <1>3, <2>4, LaterTwice DEF Core
  <2>7. Went(k, c, d)
    BY <1>3, <2>4, <2>5, <2>6 DEF Went, PeerKnown, Handshake
  <2> QED BY <2>4, <2>7 DEF d
<1>5. CASE FinAcked(e) /\ e.state = "Closing"
  <2>1. d = EnterTimeWait(e)
    BY <1>2, <1>5
  <2>2. e.unacked_segments = 0
    BY <1>3, <1>5 DEF Owed, Receiving
  <2>3. Good(k, d) /\ Later(k, e, d) /\ d.state = "TimeWait" /\ Core(k, d)
    BY <1>3, <1>5, <2>1, <2>2, TimeWaitCore
  <2>4. Later(k, c, d)
    BY <1>3, <2>3, LaterTwice DEF Core
  <2> QED BY <2>3, <2>4 DEF d
<1>6. CASE FinAcked(e) /\ e.state = "LastAck"
  <2>1. d = [ClearTimers(e) EXCEPT !.state = "Closed"]
    BY <1>2, <1>6
  <2>2. Good(k, d) /\ Later(k, e, d) /\ d.state = "Closed"
    BY <1>3, <1>6, <2>1, LastAckGood
  <2>3. Later(k, c, d)
    BY <1>3, <2>2, LaterTwice DEF Good
  <2> QED BY <2>2, <2>3 DEF d
<1>7. CASE ~(FinAcked(e) /\ e.state \in {"FinWait1", "Closing", "LastAck"})
  <2>1. d = e
    BY <1>2, <1>7
  <2>2. Went(k, c, d)
    BY <1>3, <2>1 DEF Went
  <2> QED BY <1>3, <2>1, <2>2 DEF d
<1> QED BY <1>4, <1>5, <1>6, <1>7

\* What receiving leaves alone.
LEMMA ReceiveSame ==
    ASSUME NEW c, NEW d, Same(c, d, ReceiveFields)
    PROVE  /\ DOMAIN d = Fields
           /\ d.state = c.state /\ d.iss = c.iss /\ d.snd_una = c.snd_una /\ d.snd_nxt = c.snd_nxt
           /\ d.snd_max = c.snd_max /\ d.buf_seq = c.buf_seq /\ d.send_buf = c.send_buf
           /\ d.fin_queued = c.fin_queued /\ d.snd_wnd = c.snd_wnd /\ d.cwnd = c.cwnd
           /\ d.ssthresh = c.ssthresh /\ d.retries = c.retries /\ d.retransmit = c.retransmit
           /\ d.persist = c.persist /\ d.delayed_ack = c.delayed_ack /\ d.time_wait = c.time_wait
           /\ d.irs = c.irs /\ d.in_recovery = c.in_recovery /\ d.recover = c.recover
           /\ d.out = c.out
           /\ Una(d) = Una(c) /\ Nxt(d) = Nxt(c) /\ Top(d) = Top(c) /\ Buf(d) = Buf(c)
           /\ End(d) = End(c)
BY DEF Same, Fields, NewConnection, ReceiveFields, Una, Nxt, Top, Buf, End

\* A connection that has received more of the peer's stream.
LEMMA ReceiveCore ==
    ASSUME NEW k, NEW c, Core(k, c), NEW d, Same(c, d, ReceiveFields), ReceiveTyped(d),
           ArrOK(k, d), RcvOK(k, d), Len(c.recv_buf) <= Len(d.recv_buf),
           c.fin_received => d.fin_received
    PROVE  Core(k, d) /\ Later(k, c, d)
<1>1. Typed(c) /\ IsAround(k) /\ c.state # "Closed"
  BY DEF Core
<1>2. /\ DOMAIN d = Fields
      /\ d.state = c.state /\ d.iss = c.iss /\ d.snd_una = c.snd_una /\ d.snd_nxt = c.snd_nxt
      /\ d.snd_max = c.snd_max /\ d.buf_seq = c.buf_seq /\ d.send_buf = c.send_buf
      /\ d.fin_queued = c.fin_queued /\ d.snd_wnd = c.snd_wnd /\ d.cwnd = c.cwnd
      /\ d.ssthresh = c.ssthresh /\ d.retries = c.retries /\ d.retransmit = c.retransmit
      /\ d.persist = c.persist /\ d.delayed_ack = c.delayed_ack /\ d.time_wait = c.time_wait
      /\ d.irs = c.irs /\ d.in_recovery = c.in_recovery /\ d.recover = c.recover
      /\ d.out = c.out
      /\ Una(d) = Una(c) /\ Nxt(d) = Nxt(c) /\ Top(d) = Top(c) /\ Buf(d) = Buf(c)
      /\ End(d) = End(c)
  BY ReceiveSame
<1> HIDE DEF Same
<1>3. Typed(d)
  <2>1. /\ c.fin_queued \in BOOLEAN /\ c.retransmit \in BOOLEAN /\ c.persist \in BOOLEAN
        /\ c.delayed_ack \in BOOLEAN /\ c.time_wait \in BOOLEAN
    BY <1>1, Zenon DEF Typed
  <2>2. /\ d.fin_queued \in BOOLEAN /\ d.retransmit \in BOOLEAN /\ d.persist \in BOOLEAN
        /\ d.delayed_ack \in BOOLEAN /\ d.time_wait \in BOOLEAN
    BY <1>2, <2>1, Zenon
  <2> QED BY <1>1, <1>2, <2>2 DEF Typed, ReceiveTyped
<1>4. Len(c.recv_buf) \in Nat /\ Len(d.recv_buf) \in Nat /\ k.read \in Nat
      /\ One(c.fin_received) \in 0 .. 1 /\ One(d.fin_received) \in 0 .. 1
  BY <1>1, <1>3, PosType DEF IsAround
<1>5. Pos(k, c) <= Pos(k, d)
  <2>1. One(c.fin_received) <= One(d.fin_received)
    BY <1>4 DEF One
  <2> DEFINE x == One(c.fin_received)
             y == One(d.fin_received)
  <2>2. x \in 0 .. 1 /\ y \in 0 .. 1 /\ x <= y
    BY <1>4, <2>1
  <2>3. Pos(k, c) = 1 + k.read + Len(c.recv_buf) + x /\ Pos(k, d) = 1 + k.read + Len(d.recv_buf) + y
    BY DEF Pos
  <2> HIDE DEF x, y
  <2> QED BY <1>4, <2>2, <2>3, SMTT(30)
<1>6. Later(k, c, d)
  <2>1. Horizon(d) = Horizon(c) /\ Horizon(c) \in Int /\ Buf(c) \in Nat
    BY <1>1, <1>2, OffsetType, HalfIsHalf DEF Horizon, Nos
  <2> QED BY <1>2, <1>5, <2>1 DEF Later
<1>7. OutOK(k, d)
  BY <1>1, <1>2, <1>3, <1>6, LaterGrows, OutKept DEF Core
<1>8. AckOK(k, d)
  BY <1>2 DEF Core, AckOK
<1>9. SndOK(k, d)
  BY <1>2 DEF Core, SndOK
<1>10. StateOK(d) /\ TimOK(d)
  BY <1>2 DEF Core, StateOK, NumsOK, TimOK, Timed, Quiet, PeerKnown, Handshake
<1> QED BY <1>1, <1>2, <1>3, <1>6, <1>7, <1>8, <1>9, <1>10 DEF Core

\* What a connection that still receives knows of the peer's stream.
LEMMA ReceivePlaces ==
    ASSUME NEW k, NEW c, Core(k, c), PeerKnown(c), ~c.fin_received
    PROVE  /\ c.rcv_nxt \in Nos /\ c.recv_buf \in Seq(Nat) /\ Len(c.recv_buf) \in Nat
           /\ k.read \in Nat /\ k.irs \in Nos
           /\ c.rcv_offset = k.read + Len(c.recv_buf) /\ SeqSub(c.rcv_nxt, k.irs) = c.rcv_offset + 1
           /\ c.rcv_offset \in Nat /\ c.rcv_offset <= Len(k.peer)
           /\ Pos(k, c) = c.rcv_offset + 1
           /\ k.peer \in Seq(Nat) /\ Len(k.peer) \in Nat /\ Len(k.peer) + 2 < Half
           /\ c.recv_buf = SubSeq(k.peer, k.read + 1, c.rcv_offset)
<1>1. /\ c.rcv_nxt \in Nos /\ c.recv_buf \in Seq(Nat) /\ Len(c.recv_buf) \in Nat
      /\ k.read \in Nat /\ k.irs \in Nos
      /\ k.peer \in Seq(Nat) /\ Len(k.peer) \in Nat /\ Len(k.peer) + 2 < Half
  BY LenProperties DEF Core, Typed, IsAround
<1>2. c.rcv_offset = k.read + Len(c.recv_buf) /\ SeqSub(c.rcv_nxt, k.irs) = Pos(k, c)
  BY DEF Core, RcvOK
<1>3. Pos(k, c) = c.rcv_offset + 1
  <2>1. Pos(k, c) = 1 + k.read + Len(c.recv_buf) + 0
    BY DEF Pos, One
  <2> DEFINE r == k.read
             b == Len(c.recv_buf)
  <2>2. Pos(k, c) = 1 + r + b + 0 /\ r \in Nat /\ b \in Nat /\ c.rcv_offset = r + b
    BY <1>1, <1>2, <2>1
  <2> HIDE DEF r, b
  <2> QED BY <2>2
<1>4. k.read + Len(c.recv_buf) <= Len(k.peer)
      /\ c.recv_buf = SubSeq(k.peer, k.read + 1, k.read + Len(c.recv_buf))
  BY DEF Core, ArrOK
<1> QED BY <1>1, <1>2, <1>3, <1>4

-----------------------------------------------------------------------------
(* Receive. *)

\* What Receive changes.
LEMMA ReceiveFrame ==
    ASSUME NEW c, DOMAIN c = Fields, NEW data
    PROVE  Receives(c, Receive(c, data), data)
BY DEF Receives, Receive, Same, Fields, NewConnection

\* The bytes that come next are received.
LEMMA ReceiveNext ==
    ASSUME NEW k, NEW c, Core(k, c), PeerKnown(c), ~c.fin_received,
           NEW data, Continues(k.peer, c.rcv_offset, data), NEW d, Receives(c, d, data)
    PROVE  /\ Core(k, d) /\ Later(k, c, d)
           /\ d.state = c.state /\ d.fin_received = c.fin_received
           /\ d.unacked_segments = c.unacked_segments /\ d.delayed_ack = c.delayed_ack
           /\ d.out_of_order = c.out_of_order /\ d.peer_fin_seq = c.peer_fin_seq
<1> DEFINE n == Len(data)
           o == c.rcv_offset
           r == k.read
           e == Len(k.peer)
           b == Len(c.recv_buf)
<1>1. /\ c.rcv_nxt \in Nos /\ c.recv_buf \in Seq(Nat) /\ b \in Nat
      /\ r \in Nat /\ k.irs \in Nos
      /\ o = r + b /\ SeqSub(c.rcv_nxt, k.irs) = o + 1
      /\ o \in Nat /\ o <= e
      /\ k.peer \in Seq(Nat) /\ e \in Nat /\ e + 2 < Half
      /\ c.recv_buf = SubSeq(k.peer, r + 1, o)
  BY ReceivePlaces
<1>0. e = Len(k.peer) /\ r = k.read /\ b = Len(c.recv_buf)
  OBVIOUS
<1>2. n \in Nat /\ o + n <= e /\ data \in Seq(Nat)
  BY LenProperties DEF Continues
<1>3. /\ Same(c, d, {"recv_buf", "rcv_nxt", "rcv_offset"})
      /\ d.recv_buf = c.recv_buf \o data /\ d.rcv_nxt = (c.rcv_nxt + n) % M
      /\ d.rcv_offset = o + n
  BY DEF Receives
<1> HIDE DEF n, o, r, e, b
<1>4. /\ d.state = c.state /\ d.fin_received = c.fin_received
      /\ d.unacked_segments = c.unacked_segments /\ d.delayed_ack = c.delayed_ack
      /\ d.out_of_order = c.out_of_order /\ d.peer_fin_seq = c.peer_fin_seq /\ d.irs = c.irs
  BY <1>3 DEF Same, Fields, NewConnection
<1>5. Same(c, d, ReceiveFields)
  BY <1>3 DEF Same, ReceiveFields
<1> HIDE DEF Same
<1>6. d.rcv_nxt \in Nos /\ SeqSub(d.rcv_nxt, k.irs) = o + n + 1
  <2>1. SeqSub(c.rcv_nxt, k.irs) + n \in Nos /\ n \in Int
    BY <1>1, <1>2, HalfIsHalf DEF Nos
  <2>2. (c.rcv_nxt + n) % M \in Nos
        /\ SeqSub((c.rcv_nxt + n) % M, k.irs) = SeqSub(c.rcv_nxt, k.irs) + n
    BY <1>1, <2>1, SubAdd
  <2> QED BY <1>1, <1>2, <1>3, <2>2
<1>7. d.recv_buf \in Seq(Nat) /\ Len(d.recv_buf) = b + n
  BY <1>0, <1>1, <1>2, <1>3, ConcatProperties DEF n
<1>8. d.recv_buf = SubSeq(k.peer, r + 1, o + n)
  <2>1. data = SubSeq(k.peer, o + 1, o + n)
    BY DEF o, n, Continues
  <2>2. SubSeq(k.peer, r + 1, o) \o SubSeq(k.peer, o + 1, o + n) = SubSeq(k.peer, r + 1, o + n)
    <3> DEFINE x == r + 1
               z == o + n
    <3>1. x \in Nat \ {0} /\ o \in Nat /\ z \in Nat /\ x <= o + 1 /\ o <= z /\ z <= e
      BY <1>1, <1>2
    <3>2. z <= Len(k.peer)
      BY <1>0, <3>1
    <3>3. k.peer \in Seq(Nat)
      BY <1>1
    <3> HIDE DEF x, z
    <3>4. SubSeq(k.peer, x, o) \o SubSeq(k.peer, o + 1, z) = SubSeq(k.peer, x, z)
      BY <3>1, <3>2, <3>3, PieceJoined
    <3> QED BY <3>4 DEF x, z
  <2> QED BY <1>1, <1>3, <2>1, <2>2
<1>9. k.read + Len(d.recv_buf) = o + n
  <2>1. r + (b + n) = o + n
    BY <1>1, <1>2
  <2> QED BY <1>0, <1>7, <2>1
<1>10. ArrOK(k, d)
  <2>1. k.read + Len(d.recv_buf) <= Len(k.peer)
    BY <1>2, <1>9 DEF e
  <2>2. d.recv_buf = SubSeq(k.peer, k.read + 1, k.read + Len(d.recv_buf))
    BY <1>8, <1>9 DEF r
  <2> QED BY <1>4, <2>1, <2>2 DEF ArrOK
<1>11. RcvOK(k, d)
  <2>1. Pos(k, d) = o + n + 1
    <3>1. Pos(k, d) = 1 + k.read + Len(d.recv_buf) + 0
      BY <1>4 DEF Pos, One
    <3>2. 1 + r + (b + n) + 0 = o + n + 1
      BY <1>1, <1>2
    <3> QED BY <1>0, <1>7, <3>1, <3>2
  <2>2. d.rcv_offset = k.read + Len(d.recv_buf)
    BY <1>3, <1>9
  <2>3. PeerKnown(d) /\ (Accepting(d) <=> Accepting(c))
    BY <1>4 DEF PeerKnown, Accepting, Receiving
  <2> QED BY <1>4, <1>6, <2>1, <2>2, <2>3 DEF Core, RcvOK
<1>12. ReceiveTyped(d)
  <2>1. d.fin_received \in BOOLEAN /\ d.unacked_segments \in Nat
    <3>1. c.fin_received \in BOOLEAN /\ c.unacked_segments \in Nat
      BY DEF Core, Typed
    <3> QED BY <1>4, <3>1
  <2> QED BY <1>1, <1>2, <1>3, <1>6, <1>7, <2>1 DEF ReceiveTyped
<1>13. Len(c.recv_buf) <= Len(d.recv_buf)
  <2>1. b <= b + n
    BY <1>1, <1>2
  <2> QED BY <1>0, <1>7, <2>1
<1> QED BY <1>4, <1>5, <1>10, <1>11, <1>12, <1>13, ReceiveCore

\* Receiving nothing is a way of receiving.
LEMMA KeptSelf ==
    ASSUME NEW k, NEW c, Core(k, c)
    PROVE  Kept(k, c, c)
BY LaterSelf DEF Kept, Core

\* Receiving twice is receiving.
LEMMA KeptTwice ==
    ASSUME NEW k, NEW c, Core(k, c), NEW d, Kept(k, c, d), NEW e, Kept(k, d, e)
    PROVE  Kept(k, c, e)
<1>1. IsAround(k) /\ Typed(c) /\ Typed(d) /\ Typed(e)
  BY DEF Kept, Core
<1>2. Later(k, c, e)
  BY <1>1, LaterTwice DEF Kept
<1> QED BY <1>2 DEF Kept

\* The pieces kept out of order are pieces of the peer's stream.
LEMMA CorePieces ==
    ASSUME NEW k, NEW c, Core(k, c)
    PROVE  PiecesOK(k, c.out_of_order)
BY DEF Core, RcvOK, PiecesOK

\* What a change of the pieces changes.
LEMMA PiecesFrame ==
    ASSUME NEW c, DOMAIN c = Fields, NEW pieces
    PROVE  Same(c, [c EXCEPT !.out_of_order = pieces], {"out_of_order"})
           /\ [c EXCEPT !.out_of_order = pieces].out_of_order = pieces
BY DEF Same, Fields, NewConnection

\* What noting the peer's FIN changes.
LEMMA FinSeqFrame ==
    ASSUME NEW c, DOMAIN c = Fields, NEW s
    PROVE  Same(c, [c EXCEPT !.peer_fin_seq = s], {"peer_fin_seq"})
           /\ [c EXCEPT !.peer_fin_seq = s].peer_fin_seq = s
BY DEF Same, Fields, NewConnection

\* What waits for a hole to close may be any pieces of the peer's stream, and its end.
LEMMA WaitingKept ==
    ASSUME NEW k, NEW c, Core(k, c), NEW d, Same(c, d, {"out_of_order", "peer_fin_seq"}),
           PiecesOK(k, d.out_of_order), FinKnown(k, d.peer_fin_seq)
    PROVE  Kept(k, c, d)
<1>1. Same(c, d, ReceiveFields)
  BY DEF Same, ReceiveFields
<1>2. /\ d.state = c.state /\ d.fin_received = c.fin_received /\ d.irs = c.irs
      /\ d.unacked_segments = c.unacked_segments /\ d.delayed_ack = c.delayed_ack
      /\ d.recv_buf = c.recv_buf /\ d.rcv_nxt = c.rcv_nxt /\ d.rcv_offset = c.rcv_offset
      /\ Pos(k, d) = Pos(k, c)
  BY DEF Same, Fields, NewConnection, Pos
<1> HIDE DEF Same
<1>3. ReceiveTyped(d)
  <2>1. d.fin_received \in BOOLEAN
    BY <1>2, Zenon DEF Core, Typed
  <2> QED BY <1>2, <2>1 DEF Core, Typed, ReceiveTyped
<1>4. ArrOK(k, d)
  BY <1>2 DEF Core, ArrOK
<1>5. RcvOK(k, d)
  BY <1>2 DEF Core, RcvOK, PiecesOK, FinKnown, PeerKnown, Accepting, Receiving
<1>6. Len(c.recv_buf) <= Len(d.recv_buf)
  <2>1. Len(c.recv_buf) \in Nat
    BY LenProperties DEF Core, Typed
  <2> QED BY <1>2, <2>1
<1>7. Core(k, d) /\ Later(k, c, d)
  BY <1>1, <1>2, <1>3, <1>4, <1>5, <1>6, ReceiveCore
<1> QED BY <1>2, <1>7 DEF Kept

\* Keeping other pieces of the peer's stream keeps Core.
LEMMA PiecesKept ==
    ASSUME NEW k, NEW c, Core(k, c), NEW pieces, PiecesOK(k, pieces)
    PROVE  Kept(k, c, [c EXCEPT !.out_of_order = pieces])
<1> DEFINE d == [c EXCEPT !.out_of_order = pieces]
<1>1. DOMAIN c = Fields
  BY DEF Core, Typed
<1>2. Same(c, d, {"out_of_order"}) /\ d.out_of_order = pieces
  BY <1>1, PiecesFrame
<1> HIDE DEF d
<1>3. Same(c, d, {"out_of_order", "peer_fin_seq"}) /\ d.peer_fin_seq = c.peer_fin_seq
  BY <1>2 DEF Same, Fields, NewConnection
<1>4. FinKnown(k, c.peer_fin_seq)
  BY DEF Core, RcvOK, FinKnown
<1>5. Kept(k, c, d)
  BY <1>2, <1>3, <1>4, WaitingKept
<1> QED BY <1>5 DEF d

\* Noting the peer's FIN keeps Core.
LEMMA FinSeqKept ==
    ASSUME NEW k, NEW c, Core(k, c), NEW s, FinKnown(k, s)
    PROVE  Kept(k, c, [c EXCEPT !.peer_fin_seq = s])
<1> DEFINE d == [c EXCEPT !.peer_fin_seq = s]
<1>1. DOMAIN c = Fields
  BY DEF Core, Typed
<1>2. Same(c, d, {"peer_fin_seq"}) /\ d.peer_fin_seq = s
  BY <1>1, FinSeqFrame
<1> HIDE DEF d
<1>3. Same(c, d, {"out_of_order", "peer_fin_seq"}) /\ d.out_of_order = c.out_of_order
  BY <1>2 DEF Same, Fields, NewConnection
<1>4. PiecesOK(k, c.out_of_order)
  BY CorePieces
<1>5. Kept(k, c, d)
  BY <1>2, <1>3, <1>4, WaitingKept
<1> QED BY <1>5 DEF d

\* Receiving what comes next of the peer's stream keeps Core.
LEMMA ReceiveKept ==
    ASSUME NEW k, NEW c, Core(k, c), PeerKnown(c), ~c.fin_received,
           NEW data, Continues(k.peer, c.rcv_offset, data)
    PROVE  Kept(k, c, Receive(c, data))
<1> DEFINE d == Receive(c, data)
<1>1. Receives(c, d, data)
  BY ReceiveFrame DEF Core, Typed
<1> HIDE DEF d
<1>2. Kept(k, c, d)
  BY <1>1, ReceiveNext DEF Kept
<1> QED BY <1>2 DEF d

-----------------------------------------------------------------------------
(* PullOutOfOrder. *)

\* The part of a stored piece that has not been received comes next.
LEMMA StoredNext ==
    ASSUME NEW s \in Seq(Nat), NEW first \in Nat, NEW piece \in Seq(Nat),
           first + Len(piece) <= Len(s), piece = SubSeq(s, first + 1, first + Len(piece)),
           NEW o \in Nat, first <= o, o <= Len(s)
    PROVE  Continues(s, o, SubSeq(piece, o - first + 1, Len(piece)))
<1> DEFINE L == Len(piece)
           e == Len(s)
           i == o - first + 1
           a == first + 1
           b == first + L
           x == SubSeq(piece, o - first + 1, Len(piece))
<1>1. L \in Nat /\ e \in Nat /\ first + L <= e /\ L = Len(piece) /\ e = Len(s)
  BY LenProperties
<1> HIDE DEF L, e
<1>2. i \in Nat \ {0} /\ a \in Nat \ {0} /\ b \in Nat /\ b <= e /\ a <= b + 1 /\ b - a + 1 = L
  BY <1>1
<1>3. piece = SubSeq(s, a, b) /\ x = SubSeq(piece, i, L)
  BY <1>1
<1>4. a + i - 1 = o + 1 /\ a + L - 1 = b
  BY <1>1
<1>5. L - i + 1 = b - o /\ (i <= L + 1 <=> o <= b)
  BY <1>1
<1> HIDE DEF i, a, b, x
<1>6. CASE o <= b
  <2>1. x = SubSeq(s, a + i - 1, a + L - 1)
    <3>1. /\ s \in Seq(Nat) /\ a \in Nat \ {0} /\ b \in Nat /\ b <= Len(s) /\ a <= b + 1
          /\ i \in Nat \ {0} /\ L \in Nat /\ i <= L + 1 /\ L <= b - a + 1
      BY <1>1, <1>2, <1>5, <1>6
    <3>2. SubSeq(SubSeq(s, a, b), i, L) = SubSeq(s, a + i - 1, a + L - 1)
      BY <3>1, PieceOfPiece
    <3> QED BY <1>3, <3>2
  <2>2. x = SubSeq(s, o + 1, b)
    BY <1>4, <2>1
  <2>3. x \in Seq(Nat) /\ Len(x) = b - (o + 1) + 1
    <3> DEFINE m == o + 1
    <3>1. m \in Nat \ {0} /\ m <= b + 1 /\ b <= Len(s)
      BY <1>1, <1>2, <1>6
    <3>2. x = SubSeq(s, m, b)
      BY <2>2
    <3> HIDE DEF m
    <3>3. x \in Seq(Nat) /\ Len(x) = b - m + 1
      BY <1>2, <3>1, <3>2, Piece
    <3> QED BY <3>3 DEF m
  <2>4. o + Len(x) = b
    BY <1>2, <2>3
  <2> QED BY <1>1, <1>2, <2>2, <2>3, <2>4 DEF Continues, x
<1>7. CASE ~(o <= b)
  <2>1. L < i
    BY <1>1, <1>2, <1>5, <1>7
  <2>2. x = <<>>
    BY <1>1, <1>2, <1>3, <2>1, SubSeqEmpty
  <2>3. Len(x) = 0 /\ x \in Seq(Nat)
    BY <2>2
  <2>4. SubSeq(s, o + 1, o) = <<>>
    <3>1. o + 1 \in Int /\ o \in Int /\ o < o + 1
      OBVIOUS
    <3> QED BY <3>1, SubSeqEmpty
  <2>5. o + Len(x) = o
    BY <2>3
  <2> QED BY <1>1, <2>2, <2>3, <2>4, <2>5 DEF Continues, x
<1> QED BY <1>6, <1>7

\* Pulling the next piece, or dropping a stale one, keeps Core.
LEMMA PullOnceKept ==
    ASSUME NEW k, NEW c, Core(k, c), PeerKnown(c), ~c.fin_received
    PROVE  Kept(k, c, PullOnce(c))
<1> DEFINE offsets == DOMAIN c.out_of_order
           first == CHOOSE o \in offsets : \A p \in offsets : o <= p
           data == c.out_of_order[first]
           rest == [o \in offsets \ {first} |-> c.out_of_order[o]]
           x == SubSeq(data, c.rcv_offset - first + 1, Len(data))
           e == Receive(c, x)
<1>1. PiecesOK(k, c.out_of_order)
  BY CorePieces
<1>2. CASE offsets = {} \/ first > c.rcv_offset
  <2>1. PullOnce(c) = c
    BY <1>2 DEF PullOnce
  <2> QED BY <2>1, KeptSelf
<1>3. CASE ~(offsets = {} \/ first > c.rcv_offset)
  <2>1. PullOnce(c) = [e EXCEPT !.out_of_order = rest]
    BY <1>3 DEF PullOnce
  <2>2. offsets \in SUBSET Nat /\ offsets # {}
    BY <1>1, <1>3 DEF PiecesOK
  <2>3. first \in offsets
    <3>1. \E o \in offsets : \A p \in offsets : o <= p
      BY <2>2, LeastOf
    <3> QED BY <3>1
  <2>4. /\ first \in Nat /\ data \in Seq(Nat) /\ first + Len(data) <= Len(k.peer)
        /\ data = SubSeq(k.peer, first + 1, first + Len(data))
    BY <1>1, <2>2, <2>3 DEF PiecesOK
  <2>5. PiecesOK(k, rest)
    <3>1. DOMAIN rest = offsets \ {first} /\ \A o \in offsets \ {first} : rest[o] = c.out_of_order[o]
      OBVIOUS
    <3>2. IsFiniteSet(offsets \ {first})
      BY <1>1, FS_RemoveElement DEF PiecesOK
    <3>3. \A o \in offsets \ {first} : LET piece == c.out_of_order[o] IN
              /\ piece \in Seq(Nat) /\ o + Len(piece) <= Len(k.peer)
              /\ piece = SubSeq(k.peer, o + 1, o + Len(piece))
      BY <1>1 DEF PiecesOK
    <3>4. offsets \ {first} \in SUBSET Nat
      BY <2>2
    <3> HIDE DEF rest, first, offsets
    <3> QED BY <3>1, <3>2, <3>3, <3>4 DEF PiecesOK
  <2> HIDE DEF rest, first, data, offsets
  <2>6. /\ k.peer \in Seq(Nat) /\ c.rcv_offset \in Nat /\ c.rcv_offset <= Len(k.peer)
        /\ first <= c.rcv_offset
    BY <1>3, <2>4, ReceivePlaces
  <2>7. Continues(k.peer, c.rcv_offset, x)
    BY <2>4, <2>6, StoredNext
  <2> HIDE DEF x
  <2>8. Kept(k, c, e)
    BY <2>7, ReceiveKept
  <2> HIDE DEF e
  <2>9. Kept(k, e, [e EXCEPT !.out_of_order = rest])
    BY <2>5, <2>8, PiecesKept DEF Kept
  <2>10. Kept(k, c, [e EXCEPT !.out_of_order = rest])
    BY <2>8, <2>9, KeptTwice
  <2> QED BY <2>1, <2>10
<1> QED BY <1>2, <1>3

\* The rounds of the loop of PullOutOfOrder exist.
LEMMA PullsExist ==
    ASSUME NEW c, NEW R \in Nat
    PROVE  \E f : f = [n \in 0 .. R |-> IF n = 0 THEN c ELSE PullOnce(f[n - 1])]
<1> DEFINE IsF(f, m) == f = [n \in 0 .. m |-> IF n = 0 THEN c ELSE PullOnce(f[n - 1])]
           T == {m \in 0 .. R : \E f : IsF(f, m)}
<1>1. 0 \in T
  <2> DEFINE f == [n \in 0 .. 0 |-> c]
  <2>1. IsF(f, 0)
    OBVIOUS
  <2>2. \E g : IsF(g, 0)
    <3> HIDE DEF f, IsF
    <3> QED BY <2>1
  <2> HIDE DEF IsF
  <2> QED BY <2>2
<1>2. ASSUME NEW m \in Nat, m \in T, m < R
      PROVE  m + 1 \in T
  <2>1. PICK f : IsF(f, m)
    BY <1>2
  <2> DEFINE g == [n \in 0 .. m + 1 |-> IF n = m + 1 THEN PullOnce(f[m]) ELSE f[n]]
  <2>2. \A n \in 0 .. m + 1 : g[n] = IF n = 0 THEN c ELSE PullOnce(g[n - 1])
    <3> SUFFICES ASSUME NEW n \in 0 .. m + 1
                 PROVE  g[n] = IF n = 0 THEN c ELSE PullOnce(g[n - 1])
      OBVIOUS
    <3>1. \A i \in 0 .. m : f[i] = IF i = 0 THEN c ELSE PullOnce(f[i - 1])
      BY <2>1
    <3>2. \A i \in 0 .. m : g[i] = f[i]
      OBVIOUS
    <3>3. g[m + 1] = PullOnce(f[m])
      OBVIOUS
    <3> HIDE DEF g
    <3>4. CASE n = m + 1
      <4>1. g[n - 1] = f[m] /\ n # 0
        BY <3>2, <3>4
      <4> QED BY <3>3, <3>4, <4>1
    <3>5. CASE n \in 1 .. m
      <4>1. g[n] = f[n] /\ g[n - 1] = f[n - 1] /\ n # 0
        BY <3>2, <3>5
      <4> QED BY <3>1, <3>5, <4>1
    <3>6. CASE n = 0
      BY <3>1, <3>2, <3>6
    <3> QED BY <3>4, <3>5, <3>6
  <2>3. IsF(g, m + 1)
    <3>1. DOMAIN g = 0 .. m + 1 /\ g = [n \in 0 .. m + 1 |-> g[n]]
      OBVIOUS
    <3> HIDE DEF g
    <3> QED BY <2>2, <3>1
  <2>4. \E h : IsF(h, m + 1)
    <3> HIDE DEF g, IsF
    <3> QED BY <2>3
  <2> HIDE DEF g, IsF
  <2> QED BY <1>2, <2>4
<1>3. R \in T
  <2> HIDE DEF T
  <2>1. \A n \in 0 .. R : n \in T
    BY <1>1, <1>2, UpTo
  <2> QED BY <2>1
<1> QED BY <1>3

\* So does pulling all that follow on (PullOutOfOrder).
LEMMA PullOutOfOrderKept ==
    ASSUME NEW k, NEW c, Core(k, c), PeerKnown(c), ~c.fin_received
    PROVE  Kept(k, c, PullOutOfOrder(c))
<1> DEFINE R == Cardinality(DOMAIN c.out_of_order)
           IsF(f) == f = [n \in 0 .. R |-> IF n = 0 THEN c ELSE PullOnce(f[n - 1])]
           g == CHOOSE f : IsF(f)
<1>1. R \in Nat
  BY CorePieces, FS_CardinalityType DEF PiecesOK
<1>2. PullOutOfOrder(c) = g[R]
  BY DEF PullOutOfOrder
<1> HIDE DEF R
<1>3. IsF(g)
  <2>1. \E f : IsF(f)
    BY <1>1, PullsExist
  <2> HIDE DEF IsF
  <2> QED BY <2>1
<1> HIDE DEF g
<1>4. g[0] = c /\ \A n \in 1 .. R : g[n] = PullOnce(g[n - 1])
  BY <1>1, <1>3
<1> DEFINE T == {n \in 0 .. R : Kept(k, c, g[n])}
<1>5. 0 \in T
  BY <1>1, <1>4, KeptSelf
<1>6. ASSUME NEW n \in Nat, n \in T, n < R
      PROVE  n + 1 \in T
  <2>1. Kept(k, c, g[n]) /\ n + 1 \in 1 .. R /\ (n + 1) - 1 = n /\ n + 1 \in 0 .. R
    BY <1>1, <1>6
  <2>2. g[n + 1] = PullOnce(g[n])
    BY <1>4, <2>1
  <2>3. Core(k, g[n]) /\ PeerKnown(g[n]) /\ ~g[n].fin_received
    BY <2>1 DEF Kept, PeerKnown
  <2>4. Kept(k, g[n], g[n + 1])
    BY <2>2, <2>3, PullOnceKept
  <2>5. Kept(k, c, g[n + 1])
    BY <2>1, <2>4, KeptTwice
  <2> QED BY <2>1, <2>5
<1>7. R \in T
  <2> HIDE DEF T
  <2>1. \A n \in 0 .. R : n \in T
    BY <1>1, <1>5, <1>6, UpTo
  <2> QED BY <1>1, <2>1
<1> QED BY <1>2, <1>7

\* Data past a hole is kept.
LEMMA StoreKept ==
    ASSUME NEW k, NEW c, Core(k, c), NEW offset \in Nat, NEW data, Continues(k.peer, offset, data)
    PROVE  Kept(k, c, Store(c, offset, data))
<1> DEFINE offsets == DOMAIN c.out_of_order
           pieces == [o \in offsets \cup {offset} |-> IF o = offset THEN data ELSE c.out_of_order[o]]
<1>1. PiecesOK(k, c.out_of_order)
  BY CorePieces
<1>2. PiecesOK(k, pieces)
  <2>1. DOMAIN pieces = offsets \cup {offset} /\ pieces[offset] = data
        /\ \A o \in offsets : o # offset => pieces[o] = c.out_of_order[o]
    OBVIOUS
  <2>2. offsets \cup {offset} \in SUBSET Nat /\ IsFiniteSet(offsets \cup {offset})
    BY <1>1, FS_AddElement DEF PiecesOK
  <2>3. \A o \in offsets : LET piece == c.out_of_order[o] IN
              /\ piece \in Seq(Nat) /\ o + Len(piece) <= Len(k.peer)
              /\ piece = SubSeq(k.peer, o + 1, o + Len(piece))
    BY <1>1 DEF PiecesOK
  <2> HIDE DEF pieces, offsets
  <2> QED BY <2>1, <2>2, <2>3 DEF PiecesOK, Continues
<1>3. Store(c, offset, data) = c \/ Store(c, offset, data) = [c EXCEPT !.out_of_order = pieces]
  BY DEF Store
<1> HIDE DEF pieces
<1> QED BY <1>2, <1>3, KeptSelf, PiecesKept

\* A part of a piece, as long as there is something of it.
LEMMA PieceTrimmed ==
    ASSUME NEW p \in Seq(Nat), NEW s \in Nat \ {0}, NEW piece \in Seq(Nat),
           s + Len(piece) <= Len(p) + 1, piece = SubSeq(p, s, s + Len(piece) - 1),
           NEW skip \in Nat, NEW e \in Int, e <= Len(piece),
           SubSeq(piece, skip + 1, e) # <<>>
    PROVE  Continues(p, s + skip - 1, SubSeq(piece, skip + 1, e))
<1> DEFINE L == Len(piece)
           n == Len(p)
           b == s + L - 1
           i == skip + 1
           o == s + skip - 1
           z == s + e - 1
           x == SubSeq(piece, i, e)
<1>1. L \in Nat /\ n \in Nat /\ L = Len(piece) /\ n = Len(p) /\ s + L <= n + 1 /\ e <= L
  BY LenProperties
<1>2. skip + 1 <= e
  <2>1. skip + 1 \in Int
    OBVIOUS
  <2> QED BY <2>1, SubSeqEmpty
<1>3. piece = SubSeq(p, s, b) /\ x = SubSeq(piece, i, e)
  OBVIOUS
<1> HIDE DEF L, n
<1>4. /\ b \in Nat /\ b <= n /\ s <= b + 1 /\ i \in Nat \ {0} /\ e \in Nat /\ i <= e + 1
      /\ e <= b - s + 1 /\ s + i - 1 = o + 1 /\ o \in Nat /\ o + 1 \in Nat \ {0}
      /\ z \in Nat /\ z <= n /\ o + 1 <= z + 1 /\ s + e - 1 = z /\ z - (o + 1) + 1 = z - o
      /\ o <= z
  BY <1>1, <1>2
<1> HIDE DEF b, i, x, o, z
<1>5. x = SubSeq(p, o + 1, z)
  <2>1. b <= Len(p) /\ s \in Nat \ {0}
    BY <1>1, <1>4
  <2>2. SubSeq(SubSeq(p, s, b), i, e) = SubSeq(p, s + i - 1, s + e - 1)
    BY <1>4, <2>1, PieceOfPiece
  <2> QED BY <1>3, <1>4, <2>2
<1>6. x \in Seq(Nat) /\ Len(x) = z - o
  <2> DEFINE m == o + 1
  <2>1. m \in Nat \ {0} /\ z \in Nat /\ z <= Len(p) /\ m <= z + 1 /\ z - m + 1 = z - o
    BY <1>1, <1>4
  <2>2. x = SubSeq(p, m, z)
    BY <1>5
  <2> HIDE DEF m
  <2> QED BY <2>1, <2>2, Piece
<1>7. o + Len(x) = z
  BY <1>4, <1>6
<1>8. Continues(p, o, x)
  BY <1>1, <1>4, <1>5, <1>6, <1>7 DEF Continues
<1> QED BY <1>8 DEF o, x, i

\* InWindow in terms of what it skips and where it ends.
LEMMA InWindowIs ==
    ASSUME NEW c, NEW seg
    PROVE  InWindow(c, seg) = SubSeq(seg.data, InWindowSkip(c, seg) + 1, InWindowEnd(c, seg))
BY DEF InWindow, InWindowSkip, InWindowEnd

\* What it skips and where it ends are numbers.
LEMMA InWindowEndType ==
    ASSUME NEW c, Typed(c), NEW seg \in Segs
    PROVE  /\ InWindowSkip(c, seg) \in Nat /\ InWindowEnd(c, seg) \in Int
           /\ InWindowEnd(c, seg) <= Len(seg.data)
<1> DEFINE ahead == IF SeqLt(seg.seq, c.rcv_nxt) THEN 0 ELSE SeqSub(seg.seq, c.rcv_nxt)
           room == Greatest(ReceiveWindow(c) - ahead, 0)
<1>1. c.rcv_nxt \in Nos /\ seg.seq \in Nos
  BY DEF Typed, Segs
<1>2. SeqSub(c.rcv_nxt, seg.seq) \in Nat /\ SeqSub(seg.seq, c.rcv_nxt) \in Nat
  BY <1>1, SubCases DEF Nos
<1>3. InWindowSkip(c, seg) \in Nat /\ ahead \in Nat
  BY <1>2 DEF InWindowSkip
<1>4. ReceiveWindow(c) \in Nat
  BY WindowType
<1> HIDE DEF ahead
<1>5. room \in Nat
  BY <1>3, <1>4 DEF Greatest
<1>6. Len(seg.data) \in Nat
  BY LenProperties DEF Segs
<1> HIDE DEF room
<1> DEFINE skip == InWindowSkip(c, seg)
           n == Len(seg.data)
<1>7. InWindowEnd(c, seg) = Least(n, skip + room)
  BY DEF InWindowEnd, room, ahead
<1> HIDE DEF skip, n
<1>8. skip \in Nat /\ n \in Nat
  BY <1>3, <1>6 DEF skip, n
<1>9. Least(n, skip + room) \in Int /\ Least(n, skip + room) <= n
  BY <1>5, <1>8 DEF Least
<1> QED BY <1>3, <1>7, <1>9 DEF n

\* Nothing of no data is in the window.
LEMMA InWindowEmpty ==
    ASSUME NEW c, Typed(c), NEW seg \in Segs, seg.data = <<>>
    PROVE  InWindow(c, seg) = <<>>
<1> DEFINE i == InWindowSkip(c, seg) + 1
           e == InWindowEnd(c, seg)
<1>1. i \in Int /\ e \in Int /\ e < i
  BY InWindowEndType
<1>2. InWindow(c, seg) = SubSeq(seg.data, i, e)
  BY InWindowIs
<1> HIDE DEF i, e
<1> QED BY <1>1, <1>2, SubSeqEmpty

\* What is new in a segment comes next, or lies behind a hole.
LEMMA InWindowContinues ==
    ASSUME NEW k, NEW c, Core(k, c), PeerKnown(c), ~c.fin_received,
           NEW seg \in Segs, HasData(k, seg), InWindow(c, seg) # <<>>
    PROVE  /\ SeqLe(seg.seq, c.rcv_nxt) => Continues(k.peer, c.rcv_offset, InWindow(c, seg))
           /\ ~SeqLe(seg.seq, c.rcv_nxt) =>
                /\ c.rcv_offset + SeqSub(seg.seq, c.rcv_nxt) \in Nat
                /\ Continues(k.peer, c.rcv_offset + SeqSub(seg.seq, c.rcv_nxt), InWindow(c, seg))
<1> DEFINE s == SeqSub(seg.seq, k.irs)
           P == SeqSub(c.rcv_nxt, k.irs)
           skip == InWindowSkip(c, seg)
           e == InWindowEnd(c, seg)
           x == InWindow(c, seg)
           n == Len(seg.data)
           f == SeqSub(seg.seq, c.rcv_nxt)
           g == SeqSub(c.rcv_nxt, seg.seq)
           r == c.rcv_offset
<1>1. /\ c.rcv_nxt \in Nos /\ k.irs \in Nos /\ P = r + 1
      /\ r \in Nat /\ r <= Len(k.peer)
      /\ k.peer \in Seq(Nat) /\ Len(k.peer) \in Nat /\ Len(k.peer) + 2 < Half
  BY ReceivePlaces
<1>2. /\ seg.seq \in Nos /\ s \in Nat \ {0} /\ seg.data \in Seq(Nat) /\ s + n <= Len(k.peer) + 1
      /\ seg.data = SubSeq(k.peer, s, s + n - 1)
  BY DEF HasData, Segs
<1>3. n \in Nat
  BY <1>2, LenProperties
<1>4. skip \in Nat /\ e \in Int /\ e <= n /\ x = SubSeq(seg.data, skip + 1, e)
  BY InWindowIs, InWindowEndType DEF Core
<1>5. s < Half /\ P < Half /\ P \in Nat
  <2> DEFINE m == Len(k.peer)
  <2>1. m \in Nat /\ m + 2 < Half /\ s + n <= m + 1 /\ r <= m /\ P = r + 1 /\ r \in Nat
        /\ s \in Nat \ {0}
    BY <1>1, <1>2
  <2> HIDE DEF m, s, P, n, r
  <2> QED BY <1>3, <2>1, HalfIsHalf
<1>6. (SeqLt(seg.seq, c.rcv_nxt) <=> s < P) /\ (SeqLe(seg.seq, c.rcv_nxt) <=> s <= P)
  BY <1>1, <1>2, <1>5, SubOrder
<1>7. s <= P => g = P - s
  BY <1>1, <1>2, <1>5, SubDiff
<1>8. s >= P => f = s - P
  BY <1>1, <1>2, <1>5, SubDiff
<1>9. Continues(k.peer, s + skip - 1, x)
  <2> HIDE DEF s, skip, e, x
  <2>1. SubSeq(seg.data, skip + 1, e) # <<>>
    BY <1>4 DEF x
  <2>2. Continues(k.peer, s + skip - 1, SubSeq(seg.data, skip + 1, e))
    BY <1>1, <1>2, <1>4, <2>1, PieceTrimmed
  <2> QED BY <1>4, <2>2
<1>10. skip = IF s < P THEN g ELSE 0
  BY <1>6 DEF InWindowSkip
<1> HIDE DEF s, P, skip, e, n, f, g, r
<1>11. CASE SeqLe(seg.seq, c.rcv_nxt)
  <2>1. s + skip - 1 = r
    BY <1>1, <1>2, <1>5, <1>6, <1>7, <1>10, <1>11
  <2>2. Continues(k.peer, r, x)
    BY <1>9, <2>1
  <2> QED BY <1>11, <2>2 DEF r
<1>12. CASE ~SeqLe(seg.seq, c.rcv_nxt)
  <2>1. s + skip - 1 = r + f /\ r + f \in Nat
    <3>1. ~(s <= P) /\ s \in Nat /\ P \in Nat /\ P = r + 1 /\ r \in Nat
      BY <1>1, <1>2, <1>5, <1>6, <1>12
    <3>2. f = s - P /\ skip = 0
      BY <1>8, <1>10, <3>1
    <3> QED BY <3>1, <3>2
  <2>2. Continues(k.peer, r + f, x)
    BY <1>9, <2>1
  <2> QED BY <1>12, <2>1, <2>2 DEF r, f
<1> QED BY <1>11, <1>12

-----------------------------------------------------------------------------
(* TakeFin. *)

\* What taking the FIN changes, the state apart.
LEMMA TakeFinFrame ==
    ASSUME NEW c, DOMAIN c = Fields, NEW s
    PROVE  TakesFin([c EXCEPT !.state = s],
                    [[c EXCEPT !.rcv_nxt = (@ + 1) % M, !.fin_received = TRUE] EXCEPT !.state = s])
<1> DEFINE b == [c EXCEPT !.state = s]
           d == [[c EXCEPT !.rcv_nxt = (@ + 1) % M, !.fin_received = TRUE] EXCEPT !.state = s]
<1>1. Same(b, d, {"rcv_nxt", "fin_received"})
  BY DEF Same, Fields, NewConnection
<1>2. d.rcv_nxt = (b.rcv_nxt + 1) % M
  BY DEF Fields, NewConnection
<1>3. d.fin_received = TRUE
  BY Zenon DEF Fields, NewConnection
<1> QED BY <1>1, <1>2, <1>3 DEF TakesFin

\* The same when the FIN ends the connection.
LEMMA TimeWaitFinFrame ==
    ASSUME NEW c, DOMAIN c = Fields
    PROVE  TakesFin(EnterTimeWait(c),
                    EnterTimeWait([c EXCEPT !.rcv_nxt = (@ + 1) % M, !.fin_received = TRUE]))
<1> DEFINE b == EnterTimeWait(c)
           d == EnterTimeWait([c EXCEPT !.rcv_nxt = (@ + 1) % M, !.fin_received = TRUE])
<1>1. Same(b, d, {"rcv_nxt", "fin_received"})
  BY ZenonT(30) DEF EnterTimeWait, ClearTimers, Same, Fields, NewConnection
<1>2. d.rcv_nxt = (b.rcv_nxt + 1) % M
  BY DEF EnterTimeWait, ClearTimers, Fields, NewConnection
<1>3. d.fin_received = TRUE
  BY DEF EnterTimeWait, ClearTimers, Fields, NewConnection
<1> QED BY <1>1, <1>2, <1>3 DEF TakesFin

\* A connection that no longer receives takes the end of the peer's stream.
LEMMA TakesFinCore ==
    ASSUME NEW k, NEW c, Core(k, c), PeerKnown(c), ~Handshake(c), ~Receiving(c), ~c.fin_received,
           k.ended, c.rcv_offset = Len(k.peer), NEW d, TakesFin(c, d)
    PROVE  Core(k, d) /\ Later(k, c, d) /\ d.state = c.state
<1>1. /\ Same(c, d, {"rcv_nxt", "fin_received"}) /\ d.rcv_nxt = (c.rcv_nxt + 1) % M
      /\ d.fin_received
  BY DEF TakesFin
<1>2. Same(c, d, ReceiveFields)
  BY <1>1 DEF Same, ReceiveFields
<1>3. /\ d.state = c.state /\ d.irs = c.irs /\ d.recv_buf = c.recv_buf
      /\ d.rcv_offset = c.rcv_offset /\ d.out_of_order = c.out_of_order
      /\ d.peer_fin_seq = c.peer_fin_seq /\ d.unacked_segments = c.unacked_segments
  BY <1>1 DEF Same, Fields, NewConnection
<1> HIDE DEF Same
<1> DEFINE r == k.read
           b == Len(c.recv_buf)
           e == Len(k.peer)
           o == c.rcv_offset
<1>4. /\ c.rcv_nxt \in Nos /\ c.recv_buf \in Seq(Nat) /\ b \in Nat /\ r \in Nat /\ k.irs \in Nos
      /\ o = r + b /\ SeqSub(c.rcv_nxt, k.irs) = o + 1 /\ o \in Nat
      /\ e \in Nat /\ e + 2 < Half /\ o = e
  BY ReceivePlaces
<1>5. r = k.read /\ b = Len(c.recv_buf) /\ e = Len(k.peer) /\ o = c.rcv_offset
  OBVIOUS
<1> HIDE DEF r, b, e, o
<1>6. d.rcv_nxt \in Nos /\ SeqSub(d.rcv_nxt, k.irs) = o + 2
  <2>1. SeqSub(c.rcv_nxt, k.irs) + 1 \in Nos /\ 1 \in Int
    BY <1>4, HalfIsHalf DEF Nos
  <2>2. (c.rcv_nxt + 1) % M \in Nos
        /\ SeqSub((c.rcv_nxt + 1) % M, k.irs) = SeqSub(c.rcv_nxt, k.irs) + 1
    BY <1>4, <2>1, SubAdd
  <2> QED BY <1>1, <1>4, <2>2
<1>7. Pos(k, d) = o + 2
  <2>1. Pos(k, d) = 1 + r + b + 1
    BY <1>1, <1>3, <1>5 DEF Pos, One
  <2> QED BY <1>4, <2>1
<1>8. ArrOK(k, d)
  <2>1. k.read + Len(d.recv_buf) = Len(k.peer)
    BY <1>3, <1>4, <1>5
  <2> QED BY <1>3, <2>1 DEF Core, ArrOK
<1>9. RcvOK(k, d)
  <2>1. PeerKnown(d) /\ ~Accepting(d)
    BY <1>3 DEF PeerKnown, Handshake, Accepting, Receiving
  <2> QED BY <1>3, <1>6, <1>7, <2>1 DEF Core, RcvOK
<1>10. ReceiveTyped(d)
  <2>1. d.fin_received \in BOOLEAN
    BY DEF TakesFin
  <2>2. c.rcv_offset \in Nat /\ c.unacked_segments \in Nat
    BY DEF Core, Typed
  <2> QED BY <1>3, <1>4, <1>6, <2>1, <2>2 DEF ReceiveTyped
<1>11. Len(c.recv_buf) <= Len(d.recv_buf)
  BY <1>3, <1>4, <1>5
<1> QED BY <1>1, <1>2, <1>3, <1>8, <1>9, <1>10, <1>11, ReceiveCore

\* Taking the peer's FIN, when its turn has come, keeps Core.
LEMMA TakeFinCore ==
    ASSUME NEW k, NEW c, Core(k, c), Receiving(c), ~c.fin_received, c.peer_fin_seq = c.rcv_nxt
    PROVE  LET d == TakeFin(c)
           IN  Core(k, d) /\ Later(k, c, d) /\ PeerKnown(d) /\ ~Handshake(d)
<1> DEFINE got == [c EXCEPT !.rcv_nxt = (@ + 1) % M, !.fin_received = TRUE]
           d == TakeFin(c)
<1>1. Typed(c) /\ DOMAIN c = Fields /\ IsAround(k) /\ PeerKnown(c) /\ ~Handshake(c)
  BY DEF Core, Typed, PeerKnown, Handshake, Receiving
<1>2. k.ended /\ c.rcv_offset = Len(k.peer)
  <2>1. c.rcv_nxt \in Nos /\ SeqSub(c.rcv_nxt, k.irs) = c.rcv_offset + 1 /\ c.rcv_offset \in Nat
        /\ Len(k.peer) \in Nat
    BY <1>1, ReceivePlaces
  <2>2. c.rcv_nxt # NoSeq
    BY <2>1, HalfIsHalf DEF Nos, NoSeq
  <2>3. k.ended /\ SeqSub(c.rcv_nxt, k.irs) = Len(k.peer) + 1
    BY <2>2 DEF Core, RcvOK
  <2> QED BY <2>1, <2>3
<1>3. ASSUME NEW b, Core(k, b), Later(k, c, b), PeerKnown(b), ~Receiving(b), ~Handshake(b),
             Same(c, b, SideFields), TakesFin(b, d)
      PROVE  Core(k, d) /\ Later(k, c, d) /\ PeerKnown(d) /\ ~Handshake(d)
  <2>1. ~b.fin_received /\ b.rcv_offset = c.rcv_offset
    BY <1>3, SideSame
  <2> HIDE DEF d
  <2>2. Core(k, d) /\ Later(k, b, d) /\ d.state = b.state
    BY <1>2, <1>3, <2>1, TakesFinCore
  <2>3. Later(k, c, d)
    BY <1>1, <1>3, <2>2, LaterTwice DEF Core
  <2> QED BY <1>3, <2>2, <2>3 DEF PeerKnown, Handshake
<1>4. ASSUME NEW s \in {"CloseWait", "Closing"}, d = [got EXCEPT !.state = s]
      PROVE  Core(k, d) /\ Later(k, c, d) /\ PeerKnown(d) /\ ~Handshake(d)
  <2> DEFINE b == [c EXCEPT !.state = s]
  <2>1. s \in States
    BY DEF States
  <2>6. s # "TimeWait" /\ c.state # "TimeWait"
    BY <1>4 DEF Receiving
  <2>2. /\ Core(k, b) /\ Later(k, c, b) /\ b.state = s /\ Same(c, b, SideFields)
    BY <1>1, <2>1, <2>6, StateCore
  <2>3. TakesFin([c EXCEPT !.state = s], [got EXCEPT !.state = s])
    <3>1. DOMAIN c = Fields
      BY <1>1
    <3> HIDE DEF b, d
    <3> QED BY <3>1, TakeFinFrame
  <2>5. TakesFin(b, d)
    BY <1>4, <2>3
  <2> HIDE DEF b, d
  <2>4. PeerKnown(b) /\ ~Receiving(b) /\ ~Handshake(b)
    BY <2>2 DEF PeerKnown, Receiving, Handshake
  <2> QED BY <1>3, <2>2, <2>5, <2>4
<1>5. ASSUME Una(c) = Buf(c) + 1, d = EnterTimeWait(got)
      PROVE  Core(k, d) /\ Later(k, c, d) /\ PeerKnown(d) /\ ~Handshake(d)
  <2> DEFINE b == EnterTimeWait(c)
  <2>1. Core(k, b) /\ Later(k, c, b) /\ b.state = "TimeWait"
    BY <1>1, <1>5, TimeWaitCore
  <2>2. Same(c, b, SideFields)
    <3>1. Same(c, b, TimerFields \cup {"state"})
      BY <1>1, EnterTimeWaitFrame
    <3> HIDE DEF b
    <3> QED BY <3>1 DEF Same, SideFields, TimerFields
  <2>3. TakesFin(b, d)
    BY <1>1, <1>5, TimeWaitFinFrame
  <2> HIDE DEF b, d
  <2>4. PeerKnown(b) /\ ~Receiving(b) /\ ~Handshake(b)
    BY <2>1 DEF PeerKnown, Receiving, Handshake
  <2> QED BY <1>3, <2>1, <2>2, <2>3, <2>4
<1>6. CASE c.state = "Established"
  <2>1. d = [got EXCEPT !.state = "CloseWait"]
    BY <1>6 DEF TakeFin
  <2> QED BY <1>4, <2>1
<1>7. CASE c.state = "FinWait1" /\ ~FinAcked(c)
  <2>1. d = [got EXCEPT !.state = "Closing"]
    BY <1>7 DEF TakeFin
  <2> QED BY <1>4, <2>1
<1>8. CASE (c.state = "FinWait1" /\ FinAcked(c)) \/ c.state = "FinWait2"
  <2>1. d = EnterTimeWait(got)
    BY <1>8 DEF TakeFin
  <2>2. Una(c) = Buf(c) + 1
    BY <1>8, CoreFin DEF Core, StateOK, NumsOK
  <2> QED BY <1>5, <2>1, <2>2
<1>9. c.state \in {"Established", "FinWait1", "FinWait2"}
  BY DEF Receiving
<1> QED BY <1>6, <1>7, <1>8, <1>9

\* What a change of what acknowledgement is owed leaves alone.
LEMMA AckSame ==
    ASSUME NEW c, NEW d, Same(c, d, AckFields)
    PROVE  /\ Same(c, d, SideFields) /\ d.state = c.state /\ d.snd_wnd = c.snd_wnd
           /\ d.cwnd = c.cwnd /\ d.ssthresh = c.ssthresh /\ d.retries = c.retries
           /\ d.in_recovery = c.in_recovery /\ d.recover = c.recover
           /\ d.retransmit = c.retransmit /\ d.persist = c.persist /\ d.time_wait = c.time_wait
BY DEF Same, AckFields, SideFields, Fields, NewConnection

\* It keeps Core and the cover of what is unsent.
LEMMA AckFieldsCore ==
    ASSUME NEW k, NEW c, Core(k, c), PeerKnown(c), NEW d, Same(c, d, AckFields),
           d.unacked_segments \in Nat, d.delayed_ack \in BOOLEAN
    PROVE  /\ Core(k, d) /\ Later(k, c, d)
           /\ d.state = c.state /\ d.fin_received = c.fin_received /\ d.rcv_nxt = c.rcv_nxt
           /\ d.peer_fin_seq = c.peer_fin_seq
<1>1. /\ Same(c, d, SideFields) /\ d.state = c.state /\ d.snd_wnd = c.snd_wnd
      /\ d.cwnd = c.cwnd /\ d.ssthresh = c.ssthresh /\ d.retries = c.retries
      /\ d.in_recovery = c.in_recovery /\ d.recover = c.recover
      /\ d.retransmit = c.retransmit /\ d.persist = c.persist /\ d.time_wait = c.time_wait
  BY AckSame
<1>2. /\ d.iss = c.iss /\ d.snd_una = c.snd_una /\ d.snd_max = c.snd_max
      /\ Una(d) = Una(c) /\ Top(d) = Top(c) /\ Buf(d) = Buf(c) /\ d.fin_received = c.fin_received
      /\ d.rcv_nxt = c.rcv_nxt /\ d.peer_fin_seq = c.peer_fin_seq
  BY <1>1, SideSame
<1> HIDE DEF Same
<1>3. SideTyped(d)
  <2>1. c.retransmit \in BOOLEAN /\ c.persist \in BOOLEAN /\ c.time_wait \in BOOLEAN
    BY Zenon DEF Core, Typed
  <2>2. d.retransmit \in BOOLEAN /\ d.persist \in BOOLEAN /\ d.time_wait \in BOOLEAN
    BY <1>1, <2>1, Zenon
  <2>3. /\ c.snd_wnd \in Nat /\ c.state \in States /\ c.cwnd \in Nat
        /\ c.ssthresh \in Nat \ {0} /\ c.retries \in Nat
    BY DEF Core, Typed
  <2> QED BY <1>1, <2>2, <2>3 DEF SideTyped
<1>4. StateOK(d) /\ TimOK(d)
  BY <1>1, <1>2 DEF Core, StateOK, NumsOK, TimOK, Timed, Quiet, PeerKnown, Handshake
<1>5. (PeerKnown(d) <=> PeerKnown(c)) /\ (d.fin_received => ~Accepting(d)) /\ d.state # "Closed"
  BY <1>1, <1>2 DEF Core, RcvOK, PeerKnown, Accepting, Receiving
<1>6. Core(k, d) /\ Later(k, c, d)
  BY <1>1, <1>3, <1>4, <1>5, CoreSide
<1> QED BY <1>1, <1>2, <1>6

\* What counting a segment to acknowledge changes.
LEMMA CountFrame ==
    ASSUME NEW c, DOMAIN c = Fields
    PROVE  LET d == [c EXCEPT !.unacked_segments = @ + 1]
           IN  /\ Same(c, d, AckFields) /\ d.unacked_segments = c.unacked_segments + 1
               /\ d.delayed_ack = c.delayed_ack
BY DEF Same, AckFields, Fields, NewConnection

\* One more segment is to be acknowledged.
LEMMA CountCore ==
    ASSUME NEW k, NEW c, Core(k, c), PeerKnown(c)
    PROVE  LET d == [c EXCEPT !.unacked_segments = @ + 1]
           IN  Core(k, d) /\ Later(k, c, d) /\ d.state = c.state /\ d.fin_received = c.fin_received
<1> DEFINE d == [c EXCEPT !.unacked_segments = @ + 1]
<1>1. DOMAIN c = Fields /\ c.unacked_segments \in Nat
  BY DEF Core, Typed
<1>2. Same(c, d, AckFields) /\ d.unacked_segments = c.unacked_segments + 1
      /\ d.delayed_ack = c.delayed_ack
  BY <1>1, CountFrame
<1>3. c.delayed_ack \in BOOLEAN
  BY Zenon DEF Core, Typed
<1> HIDE DEF d
<1>4. d.unacked_segments \in Nat
  BY <1>1, <1>2
<1>5. d.delayed_ack \in BOOLEAN
  BY <1>2, <1>3, Zenon
<1>6. Core(k, d) /\ Later(k, c, d) /\ d.state = c.state /\ d.fin_received = c.fin_received
  BY <1>2, <1>4, <1>5, AckFieldsCore
<1> QED BY <1>6 DEF d

\* What arming the delayed acknowledgement changes.
LEMMA ArmFrame ==
    ASSUME NEW c, DOMAIN c = Fields
    PROVE  Arms(c, [c EXCEPT !.delayed_ack = @ \/ c.unacked_segments > 0])
<1> DEFINE b == c.delayed_ack \/ c.unacked_segments > 0
           d == [c EXCEPT !.delayed_ack = b]
<1>1. Same(c, d, AckFields) /\ d.unacked_segments = c.unacked_segments
  BY DEF Same, AckFields, Fields, NewConnection
<1>2. d.delayed_ack = b
  BY Zenon DEF Fields, NewConnection
<1> QED BY <1>1, <1>2, Zenon DEF Arms

\* What is owed is armed.
LEMMA ArmCore ==
    ASSUME NEW k, NEW c, Core(k, c), Receiving(c)
    PROVE  LET d == [c EXCEPT !.delayed_ack = @ \/ c.unacked_segments > 0]
           IN  Core(k, d) /\ Later(k, c, d) /\ d.state = c.state /\ Owed(d)
<1> DEFINE d == [c EXCEPT !.delayed_ack = @ \/ c.unacked_segments > 0]
<1>1. DOMAIN c = Fields /\ c.unacked_segments \in Nat
  BY DEF Core, Typed
<1>2. Arms(c, d)
  BY <1>1, ArmFrame
<1> HIDE DEF d
<1>3. /\ Same(c, d, AckFields) /\ d.unacked_segments \in Nat
      /\ d.unacked_segments = c.unacked_segments
  BY <1>1, <1>2 DEF Arms
<1>4. d.delayed_ack \in BOOLEAN /\ (c.unacked_segments > 0 => d.delayed_ack)
  <2> DEFINE u == c.unacked_segments > 0
  <2>1. d.delayed_ack = (c.delayed_ack \/ u)
    BY <1>2, Zenon DEF Arms
  <2>2. u \in BOOLEAN
    BY <1>1
  <2>3. c.delayed_ack \in BOOLEAN
    BY Zenon DEF Core, Typed
  <2> HIDE DEF u
  <2>4. d.delayed_ack \in BOOLEAN /\ (u => d.delayed_ack)
    BY <2>1, <2>2, <2>3, Zenon
  <2> QED BY <2>4 DEF u
<1>5. Core(k, d) /\ Later(k, c, d) /\ d.state = c.state
  BY <1>3, <1>4, AckFieldsCore DEF PeerKnown, Receiving
<1>6. Owed(d)
  BY <1>3, <1>4, <1>5 DEF Owed, Receiving
<1> QED BY <1>5, <1>6 DEF d

\* What a segment of the peer's stream carries.
LEMMA ArrivesData ==
    ASSUME NEW k, IsAround(k), NEW seg, Arrives(k, seg), "Rst" \notin seg.flags
    PROVE  /\ seg \in Segs
           /\ seg.data # <<>> => HasData(k, seg)
           /\ "Fin" \in seg.flags => FinKnown(k, (seg.seq + Len(seg.data)) % M)
<1> DEFINE s == SeqSub(seg.seq, k.irs)
           n == Len(seg.data)
           m == Len(k.peer)
<1>1. seg \in Segs /\ seg.seq \in Nos /\ seg.data \in Seq(Nat) /\ k.irs \in Nos
  BY DEF Arrives, Belongs, Segs, IsAround
<1>2. n \in Nat /\ m \in Nat /\ m + 2 < Half /\ s \in Nos
  BY <1>1, LenProperties, SubCases DEF IsAround
<1>3. seg.data # <<>> => HasData(k, seg)
  <2>1. seg.data # <<>> => s >= 1 /\ s + n <= m + 1 /\ seg.data = SubSeq(k.peer, s, s + n - 1)
    BY DEF Arrives, Belongs
  <2>2. s \in Nat
    BY <1>2 DEF Nos
  <2>3. s >= 1 => s \in Nat \ {0}
    BY <2>2
  <2> QED BY <1>1, <2>1, <2>3 DEF HasData
<1>4. ASSUME "Fin" \in seg.flags
      PROVE  FinKnown(k, (seg.seq + n) % M)
  <2>1. k.ended /\ s + n = m + 1
    BY <1>4 DEF Arrives, Belongs
  <2>2. s + n \in Nos /\ n \in Int
    BY <1>2, <2>1, HalfIsHalf DEF Nos
  <2>3. (seg.seq + n) % M \in Nos /\ SeqSub((seg.seq + n) % M, k.irs) = s + n
    BY <1>1, <2>2, SubAdd
  <2> QED BY <2>1, <2>3 DEF FinKnown
<1> QED BY <1>1, <1>3, <1>4

-----------------------------------------------------------------------------
(* ProcessData: the data and the FIN of a segment. *)

\* Moved is transitive.
LEMMA MovedTwice ==
    ASSUME NEW k, NEW c, Core(k, c), NEW d, Moved(k, c, d), NEW e, Moved(k, d, e)
    PROVE  Moved(k, c, e)
<1>1. IsAround(k) /\ Typed(c) /\ Typed(d) /\ Typed(e)
  BY DEF Moved, Core
<1>2. Later(k, c, e)
  BY <1>1, LaterTwice DEF Moved
<1> QED BY <1>2 DEF Moved

\* SendAck keeps Core, owes nothing and leaves what is unsent covered.
LEMMA SendAckMoved ==
    ASSUME NEW k, NEW c, Core(k, c), PeerKnown(c)
    PROVE  LET d == SendAck(c)
           IN  /\ Acked(k, c, d) /\ d.state = c.state /\ Owed(d)
               /\ CovOK(k, c) => CovOK(k, d)
<1> DEFINE d == SendAck(c)
<1>1. Acks(k, c)
  BY CoreAcks
<1>2. Sent(k, c, d) /\ d.unacked_segments = 0
  BY <1>1, SendAckSent DEF Resends
<1> HIDE DEF d
<1>3. c.state \notin {"None", "Listen"}
  BY DEF PeerKnown
<1>4. Acked(k, c, d) /\ (CovOK(k, c) => CovOK(k, d))
  BY <1>2, <1>3, ResendsAcked, CoreSent
<1>5. Owed(d) /\ d.state = c.state
  BY <1>2, <1>4 DEF Owed, Acked
<1> QED BY <1>4, <1>5 DEF d

\* Seeing the FIN of a segment keeps Core.
LEMMA SeenKept ==
    ASSUME NEW k, NEW c, Core(k, c), NEW seg, Arrives(k, seg), "Rst" \notin seg.flags
    PROVE  Kept(k, c, Seen(c, seg)) /\ Same(c, Seen(c, seg), {"peer_fin_seq"})
<1>1. IsAround(k) /\ DOMAIN c = Fields
  BY DEF Core, Typed
<1>2. CASE "Fin" \in seg.flags
  <2> DEFINE s == (seg.seq + Len(seg.data)) % M
  <2>1. FinKnown(k, s)
    BY <1>1, <1>2, ArrivesData
  <2>2. Seen(c, seg) = [c EXCEPT !.peer_fin_seq = s]
    BY <1>2 DEF Seen
  <2> HIDE DEF s
  <2> QED BY <1>1, <2>1, <2>2, FinSeqKept, FinSeqFrame
<1>3. CASE "Fin" \notin seg.flags
  <2>1. Seen(c, seg) = c
    BY <1>3 DEF Seen
  <2>2. Same(c, c, {"peer_fin_seq"})
    BY <1>1 DEF Same
  <2> QED BY <2>1, <2>2, KeptSelf
<1> QED BY <1>2, <1>3

\* Taking the data of a segment keeps Core.
LEMMA GotMoved ==
    ASSUME NEW k, NEW c, Core(k, c), Receiving(c),
           NEW seg, Arrives(k, seg), "Rst" \notin seg.flags
    PROVE  LET d == Got(c, seg)
           IN  /\ Core(k, d) /\ Later(k, c, d) /\ d.state = c.state
               /\ ~c.fin_received /\ ~d.fin_received
<1> DEFINE e == Seen(c, seg)
           data == InWindow(c, seg)
           in_order == SeqLe(seg.seq, c.rcv_nxt)
           offset == c.rcv_offset + SeqSub(seg.seq, c.rcv_nxt)
           d == Got(c, seg)
<1>1. PeerKnown(c) /\ ~c.fin_received /\ IsAround(k) /\ Typed(c)
  BY DEF Core, RcvOK, PeerKnown, Accepting, Receiving
<1>2. Kept(k, c, e) /\ Same(c, e, {"peer_fin_seq"})
  BY SeenKept
<1>3. e.rcv_offset = c.rcv_offset /\ e.state = c.state /\ e.fin_received = c.fin_received
  BY <1>2 DEF Same, Fields, NewConnection
<1>4. Core(k, e) /\ PeerKnown(e) /\ ~e.fin_received
  BY <1>1, <1>2, <1>3 DEF Kept, PeerKnown
<1>5. seg \in Segs /\ (seg.data # <<>> => HasData(k, seg))
  BY <1>1, ArrivesData
<1>6. data # <<>> => HasData(k, seg)
  BY <1>1, <1>5, InWindowEmpty
<1>7. ASSUME data # <<>>
      PROVE  /\ in_order => Continues(k.peer, c.rcv_offset, data)
             /\ ~in_order => offset \in Nat /\ Continues(k.peer, offset, data)
  BY <1>1, <1>5, <1>6, <1>7, InWindowContinues
<1>8. ASSUME NEW x, Kept(k, e, x)
      PROVE  Core(k, x) /\ Later(k, c, x) /\ x.state = c.state /\ ~x.fin_received
  <2>1. Kept(k, c, x)
    BY <1>2, <1>8, KeptTwice
  <2> QED BY <1>1, <2>1 DEF Kept
<1>9. /\ data = <<>> => d = e
      /\ data # <<>> /\ in_order =>
              d = [PullOutOfOrder(Receive(e, data)) EXCEPT !.unacked_segments = @ + 1]
      /\ data # <<>> /\ ~in_order => d = Store(e, offset, data)
  BY DEF Got
<1> HIDE DEF e, data, in_order, offset, d
<1>10. CASE data = <<>>
  <2>1. Kept(k, e, e)
    BY <1>4, KeptSelf
  <2> QED BY <1>1, <1>8, <1>9, <1>10, <2>1 DEF d
<1>11. CASE data # <<>> /\ in_order
  <2> DEFINE x == Receive(e, data)
             y == PullOutOfOrder(x)
             z == [y EXCEPT !.unacked_segments = @ + 1]
  <2>1. Continues(k.peer, e.rcv_offset, data)
    BY <1>3, <1>7, <1>11
  <2>2. Kept(k, e, x)
    BY <1>4, <2>1, ReceiveKept
  <2>3. d = z
    BY <1>9, <1>11
  <2> HIDE DEF x
  <2>4. Core(k, x) /\ PeerKnown(x) /\ ~x.fin_received
    BY <1>4, <2>2 DEF Kept, PeerKnown
  <2>5. Kept(k, x, y)
    BY <2>4, PullOutOfOrderKept
  <2> HIDE DEF y
  <2>6. Kept(k, e, y)
    BY <1>4, <2>2, <2>5, KeptTwice
  <2>7. Core(k, y) /\ Later(k, c, y) /\ y.state = c.state /\ ~y.fin_received
    BY <1>8, <2>6
  <2>10. PeerKnown(y)
    BY <1>1, <2>7 DEF PeerKnown
  <2>8. Core(k, z) /\ Later(k, y, z) /\ z.state = y.state /\ z.fin_received = y.fin_received
    BY <2>7, <2>10, CountCore
  <2> HIDE DEF z
  <2>9. Later(k, c, z)
    BY <1>1, <2>7, <2>8, LaterTwice DEF Core
  <2> QED BY <1>1, <2>3, <2>7, <2>8, <2>9 DEF d
<1>12. CASE data # <<>> /\ ~in_order
  <2>1. offset \in Nat /\ Continues(k.peer, offset, data)
    BY <1>7, <1>12
  <2>2. Kept(k, e, Store(e, offset, data))
    BY <1>4, <2>1, StoreKept
  <2> QED BY <1>1, <1>8, <1>9, <1>12, <2>2 DEF d
<1> QED BY <1>10, <1>11, <1>12

\* ProcessData in terms of Got and TakeFin.
LEMMA ProcessDataIs ==
    ASSUME NEW c, NEW seg
    PROVE  \/ ~Receiving(c) /\ ProcessData(c, seg) \in {c, SendAck(c)}
           \/ /\ Receiving(c) /\ TakesEnd(Got(c, seg))
              /\ ProcessData(c, seg) = SendAck(TakeFin(Got(c, seg)))
           \/ /\ Receiving(c) /\ ~TakesEnd(Got(c, seg))
              /\ LET d == Got(c, seg)
                 IN  ProcessData(c, seg) \in
                        {SendAck(d), [d EXCEPT !.delayed_ack = @ \/ d.unacked_segments > 0]}
BY DEF ProcessData, Got, Seen, TakesEnd

\* ProcessData keeps Core and times the acknowledgement it owes.
LEMMA ProcessDataMoved ==
    ASSUME NEW k, NEW c, Core(k, c), PeerKnown(c), ~Handshake(c), Owed(c),
           NEW seg, Arrives(k, seg), "Rst" \notin seg.flags
    PROVE  Moved(k, c, ProcessData(c, seg)) /\ Owed(ProcessData(c, seg))
<1> DEFINE e == Got(c, seg)
           d == ProcessData(c, seg)
<1>0. IsAround(k) /\ Typed(c) /\ Later(k, c, c)
  BY LaterSelf DEF Core
<1>1. ASSUME NEW x, Core(k, x), Later(k, c, x), PeerKnown(x), ~Handshake(x)
      PROVE  Moved(k, c, SendAck(x)) /\ Owed(SendAck(x))
  <2> DEFINE y == SendAck(x)
  <2>1. Acked(k, x, y) /\ y.state = x.state /\ Owed(y)
    BY <1>1, SendAckMoved
  <2> HIDE DEF y
  <2>2. Moved(k, x, y) /\ Moved(k, c, x)
    BY <1>1, <2>1 DEF Moved, Acked, PeerKnown, Handshake
  <2>3. Moved(k, c, y)
    BY <2>2, MovedTwice
  <2> QED BY <2>1, <2>3 DEF y
<1>2. CASE ~Receiving(c) /\ d \in {c, SendAck(c)}
  <2>1. Moved(k, c, c)
    BY <1>0 DEF Moved
  <2>2. Moved(k, c, SendAck(c)) /\ Owed(SendAck(c))
    BY <1>0, <1>1
  <2> HIDE DEF d
  <2>3. d = c \/ d = SendAck(c)
    BY <1>2
  <2>4. Moved(k, c, d) /\ Owed(d)
    BY <2>1, <2>2, <2>3
  <2> QED BY <2>4 DEF d
<1>3. ASSUME Receiving(c)
      PROVE  Core(k, e) /\ Later(k, c, e) /\ e.state = c.state /\ ~e.fin_received /\ Receiving(e)
  <2>1. Core(k, e) /\ Later(k, c, e) /\ e.state = c.state /\ ~e.fin_received
    BY <1>3, GotMoved
  <2> QED BY <1>3, <2>1 DEF Receiving
<1>4. CASE Receiving(c) /\ TakesEnd(e) /\ d = SendAck(TakeFin(e))
  <2> DEFINE x == TakeFin(e)
  <2>1. Core(k, e) /\ Receiving(e) /\ ~e.fin_received /\ e.peer_fin_seq = e.rcv_nxt
    BY <1>3, <1>4 DEF TakesEnd
  <2> HIDE DEF e
  <2>2. Core(k, x) /\ Later(k, e, x) /\ PeerKnown(x) /\ ~Handshake(x)
    BY <2>1, TakeFinCore
  <2> HIDE DEF x
  <2>3. Later(k, c, x)
    BY <1>0, <1>3, <1>4, <2>2, LaterTwice DEF Core
  <2>4. Moved(k, c, SendAck(x)) /\ Owed(SendAck(x))
    BY <1>1, <2>2, <2>3
  <2> QED BY <1>4, <2>4 DEF x
<1>5. CASE Receiving(c)
           /\ d \in {SendAck(e), [e EXCEPT !.delayed_ack = @ \/ e.unacked_segments > 0]}
  <2> DEFINE y == [e EXCEPT !.delayed_ack = @ \/ e.unacked_segments > 0]
  <2> HIDE DEF e
  <2>1. Core(k, e) /\ Later(k, c, e) /\ e.state = c.state /\ Receiving(e)
    BY <1>3, <1>5
  <2>2. PeerKnown(e) /\ ~Handshake(e)
    BY <2>1 DEF PeerKnown, Handshake, Receiving
  <2>3. Moved(k, c, SendAck(e)) /\ Owed(SendAck(e))
    BY <1>1, <2>1, <2>2
  <2>4. Core(k, y) /\ Later(k, e, y) /\ y.state = e.state /\ Owed(y)
    BY <2>1, ArmCore
  <2>5. d = SendAck(e) \/ d = y
    BY <1>5
  <2> HIDE DEF y
  <2>6. Later(k, c, y)
    BY <1>0, <2>1, <2>4, LaterTwice DEF Core
  <2>7. Moved(k, c, y)
    BY <2>2, <2>4, <2>6 DEF Moved, PeerKnown, Handshake
  <2> QED BY <2>3, <2>4, <2>5, <2>7
<1>6. \/ ~Receiving(c) /\ d \in {c, SendAck(c)}
      \/ Receiving(c) /\ TakesEnd(e) /\ d = SendAck(TakeFin(e))
      \/ /\ Receiving(c)
         /\ d \in {SendAck(e), [e EXCEPT !.delayed_ack = @ \/ e.unacked_segments > 0]}
  BY ProcessDataIs
<1> QED BY <1>2, <1>4, <1>5, <1>6

-----------------------------------------------------------------------------
(* Opening: Connect, AcceptSyn and HandleSynSent. *)

\* What the start of a connection leaves alone.
LEMMA StartSame ==
    ASSUME NEW c, NEW d, Same(c, d, StartFields)
    PROVE  /\ DOMAIN d = Fields /\ d.iss = c.iss /\ d.buf_seq = c.buf_seq /\ d.send_buf = c.send_buf
           /\ d.fin_queued = c.fin_queued /\ d.ssthresh = c.ssthresh /\ d.persist = c.persist
           /\ d.delayed_ack = c.delayed_ack /\ d.time_wait = c.time_wait
           /\ d.unacked_segments = c.unacked_segments /\ d.rcv_offset = c.rcv_offset
           /\ d.recv_buf = c.recv_buf /\ d.out_of_order = c.out_of_order
           /\ d.peer_fin_seq = c.peer_fin_seq /\ d.fin_received = c.fin_received /\ d.out = c.out
           /\ d.in_recovery = c.in_recovery /\ d.recover = c.recover
           /\ Buf(d) = Buf(c) /\ End(d) = End(c) /\ \A k : Pos(k, d) = Pos(k, c)
BY DEF Same, StartFields, Fields, NewConnection, Buf, End, Pos

\* A connection that has not heard of its peer.
LEMMA CoreStart ==
    ASSUME NEW k, NEW c, Core(k, c), c.state \in {"None", "Listen", "SynSent"}
    PROVE  /\ Una(c) = 0 /\ Nxt(c) = Top(c) /\ Top(c) <= 1 /\ Buf(c) = 1 /\ Len(k.sent) = 0
           /\ End(c) = 1 /\ ~c.fin_queued /\ c.rcv_offset = 0 /\ ~c.fin_received /\ Pos(k, c) = 1
           /\ c.state = "SynSent" => Top(c) = 1
<1> DEFINE u == Una(c)
           n == Nxt(c)
           t == Top(c)
           b == Buf(c)
           m == Len(k.sent)
           l == Len(c.recv_buf)
<1>1. /\ u \in Nat /\ n \in Nat /\ t \in Nat /\ b \in Nat /\ 1 <= b /\ u <= n /\ n <= t
      /\ m \in Nat /\ End(c) = m + 1
  BY CorePlaces
<1>2. ~PeerKnown(c)
  BY DEF PeerKnown
<1>3. c.state \in {"None", "Listen"} => t = 0
  BY DEF Core, StateOK, NumsOK
<1>4. c.state = "SynSent" => u = 0 /\ t = 1
  BY DEF Core, StateOK, NumsOK, Handshake
<1>5. \/ u = b
      \/ u = b + 1
      \/ u = 0 /\ t <= 1 /\ n = t /\ m = 0 /\ ~c.fin_queued
  BY DEF Core, SndOK
<1>6. b \in 1 .. m + 1
  BY DEF Core, AckOK
<1>7. c.rcv_offset = 0 /\ ~c.fin_received /\ c.rcv_offset = k.read + l
  BY <1>2 DEF Core, RcvOK
<1>8. k.read \in Nat /\ l \in Nat
  BY LenProperties DEF Core, IsAround, Typed
<1>9. Pos(k, c) = 1 + k.read + l + 0
  BY <1>7 DEF Pos, One
<1> HIDE DEF u, n, t, b, m, l
<1>10. u = 0 /\ n = t /\ t <= 1 /\ m = 0 /\ ~c.fin_queued /\ b = 1
       /\ (c.state = "SynSent" => t = 1)
  BY <1>1, <1>3, <1>4, <1>5, <1>6
<1>11. Pos(k, c) = 1
  BY <1>7, <1>8, <1>9
<1> QED BY <1>1, <1>7, <1>10, <1>11 DEF u, n, t, b, m

\* A start with the right numbers keeps Core.
LEMMA StartedCore ==
    ASSUME NEW k, NEW c, Core(k, c), c.state \in {"None", "Listen", "SynSent"},
           NEW d, Same(c, d, StartFields), Started(k, d)
    PROVE  Core(k, d) /\ Later(k, c, d) /\ (Owed(c) => Owed(d))
<1>1. /\ DOMAIN d = Fields /\ d.iss = c.iss /\ d.buf_seq = c.buf_seq /\ d.send_buf = c.send_buf
      /\ d.fin_queued = c.fin_queued /\ d.ssthresh = c.ssthresh /\ d.persist = c.persist
      /\ d.delayed_ack = c.delayed_ack /\ d.time_wait = c.time_wait
      /\ d.unacked_segments = c.unacked_segments /\ d.rcv_offset = c.rcv_offset
      /\ d.recv_buf = c.recv_buf /\ d.out_of_order = c.out_of_order
      /\ d.peer_fin_seq = c.peer_fin_seq /\ d.fin_received = c.fin_received /\ d.out = c.out
      /\ d.in_recovery = c.in_recovery /\ d.recover = c.recover
      /\ Buf(d) = Buf(c) /\ End(d) = End(c) /\ Pos(k, d) = Pos(k, c)
  BY StartSame
<1>2. /\ Una(c) = 0 /\ Nxt(c) = Top(c) /\ Top(c) <= 1 /\ Buf(c) = 1 /\ Len(k.sent) = 0
      /\ End(c) = 1 /\ ~c.fin_queued /\ c.rcv_offset = 0 /\ ~c.fin_received /\ Pos(k, c) = 1
      /\ Top(c) \in Nat
  BY CoreStart, CorePlaces
<1>3. IsAround(k) /\ Typed(c) /\ k.heard \in Nat
  BY DEF Core, IsAround
<1>4. d.state # "Closed" /\ d.state \in States
  BY DEF Started, States
<1> HIDE DEF Same
<1>5. Typed(d)
  <2>1. /\ c.fin_queued \in BOOLEAN /\ c.persist \in BOOLEAN /\ c.delayed_ack \in BOOLEAN
        /\ c.time_wait \in BOOLEAN /\ c.fin_received \in BOOLEAN
    BY <1>3, Zenon DEF Typed
  <2>2. /\ d.fin_queued \in BOOLEAN /\ d.persist \in BOOLEAN /\ d.delayed_ack \in BOOLEAN
        /\ d.time_wait \in BOOLEAN /\ d.fin_received \in BOOLEAN
    BY <1>1, <2>1, Zenon
  <2>3. d.retransmit \in BOOLEAN
    BY Zenon DEF Started
  <2>4. /\ c.iss \in Nos /\ c.buf_seq \in Nos /\ c.send_buf \in Seq(Nat)
        /\ c.ssthresh \in Nat \ {0} /\ c.unacked_segments \in Nat /\ c.rcv_offset \in Nat
        /\ c.recv_buf \in Seq(Nat)
    BY <1>3 DEF Typed
  <2> QED BY <1>1, <1>4, <2>2, <2>3, <2>4 DEF Typed, Started
<1>6. Una(d) \in {0, 1} /\ (Una(d) = 1 => d.state = "Established" /\ 1 <= k.heard)
      /\ Nxt(d) = 1 /\ Top(d) = 1
  BY DEF Started
<1>7. AckOK(k, d)
  <2>1. c.iss = k.iss
    BY DEF Core, AckOK
  <2>2. Una(d) <= k.heard /\ Una(d) <= Buf(d) + 1 /\ Una(d) # Buf(d) + 1
    BY <1>1, <1>2, <1>3, <1>6
  <2>3. Buf(d) \in 1 .. Len(k.sent) + 1 /\ Buf(d) = 1
    BY <1>1, <1>2
  <2> QED BY <1>1, <2>1, <2>2, <2>3 DEF AckOK
<1>8. ArrOK(k, d)
  BY <1>1, <1>2 DEF Core, ArrOK
<1>9. Later(k, c, d)
  <2>1. Horizon(c) <= Horizon(d)
    BY <1>2, <1>4, <1>6 DEF Horizon, Core
  <2>2. Una(c) # Buf(c) + 1
    BY <1>2
  <2>3. Pos(k, c) <= Pos(k, d) /\ Len(c.recv_buf) <= Len(d.recv_buf) /\ Buf(c) <= Buf(d)
    <3>1. Len(c.recv_buf) \in Nat
      BY <1>3, PosType
    <3> QED BY <1>1, <1>2, <3>1
  <2> QED BY <1>1, <2>1, <2>2, <2>3 DEF Later
<1>10. OutOK(k, d)
  <2>1. OutOK(k, c) /\ Grows(k, c, d)
    BY <1>9, LaterGrows DEF Core
  <2> QED BY <1>1, <1>3, <1>5, <2>1, OutKept
<1>11. SndOK(k, d)
  <2>1. One(d.fin_queued) = 0
    BY <1>1, <1>2 DEF One
  <2>2. d.send_buf = SubSeq(k.sent, Buf(d), Len(k.sent))
    BY <1>1 DEF Core, SndOK
  <2>3. End(d) = Len(k.sent) + 1 /\ Una(d) <= Nxt(d) /\ Nxt(d) <= Top(d)
        /\ Top(d) <= End(d) + One(d.fin_queued)
    BY <1>1, <1>2, <1>6, <2>1
  <2>4. \/ Una(d) = Buf(d)
        \/ Una(d) = 0 /\ Top(d) <= 1 /\ Nxt(d) = Top(d) /\ Len(k.sent) = 0 /\ ~d.fin_queued
    BY <1>1, <1>2, <1>6
  <2> QED BY <2>2, <2>3, <2>4 DEF SndOK
<1>12. RcvOK(k, d)
  <2>1. PeerKnown(d) => d.irs = k.irs /\ SeqSub(d.rcv_nxt, k.irs) = Pos(k, d)
    BY <1>1, <1>2 DEF PeerKnown, Started
  <2>2. d.rcv_offset = k.read + Len(d.recv_buf)
    BY <1>1 DEF Core, RcvOK
  <2> QED BY <1>1, <1>2, <2>1, <2>2 DEF Core, RcvOK
<1>13. StateOK(d)
  <2>1. NumsOK(d)
    <3>1. d.in_recovery => d.recover \in Nos /\ SeqSub(d.recover, d.iss) <= Top(d)
      <4>1. c.in_recovery => c.recover \in Nos /\ SeqSub(c.recover, c.iss) <= Top(c)
        BY DEF Core, StateOK, NumsOK
      <4>2. c.in_recovery => SeqSub(c.recover, c.iss) \in Nos
        <5>1. c.iss \in Nos
          BY <1>3 DEF Typed
        <5> QED BY <4>1, <5>1, SubCases
      <4>3. c.in_recovery => SeqSub(c.recover, c.iss) \in Nat
        BY <4>2 DEF Nos
      <4> QED BY <1>1, <1>2, <1>6, <4>1, <4>3
    <3>2. /\ d.state \notin {"None", "Listen", "FinWait2", "TimeWait"}
          /\ (Handshake(d) => Una(d) = 0 /\ Top(d) = 1)
          /\ (PeerKnown(d) => d.cwnd > 0)
      BY DEF Started, Handshake, PeerKnown
    <3> QED BY <3>1, <3>2 DEF NumsOK
  <2>2. PeerKnown(d) /\ ~Handshake(d) => Una(d) >= Buf(d)
    <3>1. PeerKnown(d) /\ ~Handshake(d) => d.state = "Established"
      BY DEF Started, PeerKnown, Handshake
    <3> QED BY <1>1, <1>2, <3>1 DEF Started
  <2> QED BY <2>1, <2>2 DEF StateOK
<1>14. TimOK(d)
  <2>1. d.snd_una # d.snd_max => d.retransmit
    <3>1. Una(d) = 1 => d.snd_una = d.snd_max
      <4>1. Una(d) = 1 => Una(d) = Top(d)
        BY <1>6
      <4> QED BY <1>5, <4>1, SubInjective DEF Una, Top, Typed
    <3> QED BY <3>1 DEF Started
  <2>2. d.state # "TimeWait"
    BY DEF Started
  <2>3. Quiet(c) /\ ~PeerKnown(c) /\ ~c.time_wait
    BY DEF Core, TimOK, PeerKnown
  <2>4. ~d.persist /\ ~d.delayed_ack
    BY <1>1, <2>3, Zenon DEF Quiet
  <2>5. ~d.time_wait
    BY <1>1, <2>3, Zenon
  <2>6. d.state \notin {"None", "Listen"}
    BY DEF Started
  <2> QED BY <2>1, <2>2, <2>4, <2>5, <2>6 DEF TimOK, Timed, Quiet
<1>15. Core(k, d)
  BY <1>3, <1>4, <1>5, <1>7, <1>8, <1>10, <1>11, <1>12, <1>13, <1>14 DEF Core
<1>16. Owed(c) => Owed(d)
  <2>1. ~Receiving(c)
    BY DEF Receiving
  <2> QED BY <1>1, <1>3, <2>1 DEF Owed, Typed
<1> QED BY <1>9, <1>15, <1>16

\* The SYN, and the SYN-ACK once the peer is known, is in order.
LEMMA SynLeaves ==
    ASSUME NEW k, NEW c, Core(k, c), Handshake(c), NEW flags,
           \/ flags = {"Syn"}
           \/ flags = {"Syn", "Ack"} /\ PeerKnown(c)
    PROVE  LET d == EmitSegment(c, c.iss, flags, <<>>)
           IN  /\ Core(k, d) /\ Later(k, c, d) /\ d.state = c.state
               /\ Owed(c) => Owed(d)
               /\ CovOK(k, d)
<1> DEFINE seg == Emitted(c, c.iss, flags, <<>>)
           d == EmitSegment(c, c.iss, flags, <<>>)
<1>1. IsAround(k) /\ Typed(c) /\ OutOK(k, c) /\ c.iss = k.iss /\ c.iss \in Nos /\ k.irs \in Nos
      /\ c.state # "Closed"
  BY DEF Core, AckOK, Typed, IsAround
<1>2. Top(c) = 1 /\ Nxt(c) <= Top(c) /\ Top(c) <= End(c) + One(c.fin_queued)
  BY CoreOpening, CorePlaces
<1>3. flags \in SUBSET Flags /\ <<>> \in Seq(Nat) /\ c.iss \in Int
  BY <1>1, HalfIsHalf DEF Flags, Nos
<1>4. seg \in Segs /\ seg.seq = c.iss % M /\ seg.flags = flags /\ seg.data = <<>>
      /\ ("Ack" \in flags => seg.ack = c.rcv_nxt)
  <2> DEFINE b == <<>>
             n == c.iss
  <2>1. seg = Emitted(c, n, flags, b)
    OBVIOUS
  <2>2. b \in Seq(Nat) /\ n \in Int
    BY <1>3
  <2> HIDE DEF seg, b, n
  <2>3. /\ seg \in Segs /\ seg.seq = n % M /\ seg.flags = flags /\ seg.data = b
        /\ ("Ack" \in flags => seg.ack = c.rcv_nxt)
    <3>1. Typed(c) /\ flags \in SUBSET Flags
      BY <1>1, <1>3
    <3> QED BY ONLY <2>1, <2>2, <3>1, EmittedType
  <2> QED BY <2>3 DEF b, n
<1>5. seg.seq = c.iss /\ SeqSub(c.iss, k.iss) = 0
  BY <1>1, <1>4, NumberItself, SubSelf
<1>6. "Ack" \in flags => SeqSub(c.rcv_nxt, k.irs) \in 1 .. Pos(k, c)
  <2>1. "Ack" \in flags => PeerKnown(c)
    OBVIOUS
  <2>2. PeerKnown(c) => Acks(k, c)
    BY CoreAcks
  <2> QED BY <2>1, <2>2 DEF Acks
<1> HIDE DEF seg
<1>7. Leaves(k, c, seg)
  <2>1. Horizon(c) = 1
    BY <1>1, <1>2 DEF Horizon
  <2>2. "Rst" \notin flags /\ "Fin" \notin flags /\ "Syn" \in flags
    OBVIOUS
  <2> QED BY <1>4, <1>5, <1>6, <2>1, <2>2 DEF Leaves, Belongs
<1>8. Sent(k, c, d)
  BY <1>1, <1>2, <1>7, EmitSent DEF seg
<1> HIDE DEF d
<1>9. Core(k, d) /\ Later(k, c, d) /\ (Owed(c) => Owed(d)) /\ d.state = c.state
  <2>1. c.state \notin {"None", "Listen"}
    BY DEF Handshake
  <2>2. d.state = c.state
    BY <1>8, SameFields DEF Sent
  <2>3. d.persist = c.persist
    <3>1. DOMAIN c = Fields
      BY <1>1 DEF Typed
    <3>2. Same(c, d, EmitFields)
      BY <3>1, EmitFrame DEF Emits, d
    <3> QED BY <3>2 DEF Same, EmitFields, Fields, NewConnection
  <2> QED BY <1>8, <2>1, <2>2, <2>3, CoreSent
<1>10. CovOK(k, d)
  BY <1>9 DEF CovOK, Unsent, Sending, Handshake
<1> QED BY <1>9, <1>10 DEF d

\* The first congestion window is positive.
LEMMA FirstCwndType == FirstCwnd \in Nat \ {0}
<1> DEFINE a == 4 * Mss
           b == Greatest(2 * Mss, 4380)
<1>1. a \in Int /\ a > 0 /\ 2 * Mss \in Int /\ 2 * Mss > 0
  BY Sizes
<1>2. b \in Int /\ b > 0
  BY <1>1 DEF Greatest
<1> HIDE DEF a, b
<1>3. Least(a, b) \in Int /\ Least(a, b) > 0
  BY <1>1, <1>2 DEF Least
<1>4. FirstCwnd = Least(Least(a, b), CwndCap)
  BY DEF FirstCwnd, a, b
<1> DEFINE e == Least(a, b)
<1> HIDE DEF e
<1>5. e \in Int /\ e > 0 /\ FirstCwnd = Least(e, CwndCap)
  BY <1>3, <1>4 DEF e
<1> QED BY <1>5, Sizes DEF Least

\* What is taken from a SYN of the peer is right.
LEMMA SynTaken ==
    ASSUME NEW k, IsAround(k), NEW syn, Arrives(k, syn), "Syn" \in syn.flags, "Rst" \notin syn.flags,
           NEW d, TakesSyn(d, syn)
    PROVE  /\ d.irs = k.irs /\ d.irs \in Nos /\ d.rcv_nxt \in Nos /\ SeqSub(d.rcv_nxt, k.irs) = 1
           /\ d.cwnd \in Nat /\ d.cwnd > 0 /\ d.snd_wnd \in Nat
<1>1. syn.seq \in Nos /\ syn.window \in Nat /\ k.irs \in Nos /\ SeqSub(syn.seq, k.irs) = 0
  BY DEF Arrives, Belongs, Segs, IsAround
<1>2. syn.seq = k.irs
  BY <1>1, SubSelf, SubInjective
<1>3. SeqSub(syn.seq, k.irs) + 1 \in Nos /\ 1 \in Int
  BY <1>1, HalfIsHalf DEF Nos
<1>4. (syn.seq + 1) % M \in Nos /\ SeqSub((syn.seq + 1) % M, k.irs) = 1
  <2>1. (syn.seq + 1) % M \in Nos
        /\ SeqSub((syn.seq + 1) % M, k.irs) = SeqSub(syn.seq, k.irs) + 1
    BY <1>1, <1>3, SubAdd
  <2> QED BY <1>1, <2>1
<1> QED BY <1>1, <1>2, <1>4, FirstCwndType DEF TakesSyn

\* The number after the initial one is the first of the stream.
LEMMA IssNext ==
    ASSUME NEW iss \in Nos
    PROVE  (iss + 1) % M \in Nos /\ SeqSub((iss + 1) % M, iss) = 1
<1>1. SeqSub(iss, iss) = 0 /\ 1 \in Int
  BY SubSelf
<1>2. SeqSub(iss, iss) + 1 \in Nos
  BY <1>1, HalfIsHalf DEF Nos
<1>3. (iss + 1) % M \in Nos /\ SeqSub((iss + 1) % M, iss) = SeqSub(iss, iss) + 1
  BY <1>2, SubAdd
<1> QED BY <1>1, <1>3

-----------------------------------------------------------------------------
(* What a handler leaves. *)

\* TrySend leaves nothing without a timer.
LEMMA TrySendFine ==
    ASSUME NEW k, NEW c, Core(k, c), PeerKnown(c), ~Handshake(c), Owed(c)
    PROVE  Fine(k, c, TrySend(c)) /\ TrySend(c).state = c.state
<1> DEFINE d == TrySend(c)
<1>1. Ready(k, c) /\ Timed(c) /\ c.state \notin {"None", "Listen"}
  BY CoreReady DEF PeerKnown
<1>2. Sent(k, c, d) /\ Covered(d)
  BY <1>1, TrySendSent
<1> HIDE DEF d
<1>3. Core(k, d) /\ Later(k, c, d) /\ Owed(d)
  BY <1>1, <1>2, CoreSent
<1>4. CovOK(k, d)
  BY <1>2 DEF CovOK, Covered
<1>5. Fine(k, c, d) /\ d.state = c.state
  BY <1>2, <1>3, <1>4, CoreGood, SameFields DEF Fine, Sent
<1> QED BY <1>5 DEF d

\* What follows a fine step of the core.
LEMMA FineTwice ==
    ASSUME NEW k, NEW c, Core(k, c), NEW d, Core(k, d), Later(k, c, d), NEW e, Fine(k, d, e)
    PROVE  Fine(k, c, e)
<1>1. IsAround(k) /\ Typed(c) /\ Typed(d) /\ Typed(e)
  BY DEF Core, Fine, Good
<1>2. Later(k, c, e)
  BY <1>1, LaterTwice DEF Fine
<1> QED BY <1>2 DEF Fine

\* Doing nothing is fine.
LEMMA FineSelf ==
    ASSUME NEW k, IsAround(k), NEW c, Good(k, c)
    PROVE  Fine(k, c, c)
BY LaterSelf DEF Good, Fine

\* Sending an acknowledgement is fine.
LEMMA SendAckFine ==
    ASSUME NEW k, NEW c, Core(k, c), PeerKnown(c), CovOK(k, c)
    PROVE  Fine(k, c, SendAck(c))
<1> DEFINE d == SendAck(c)
<1>1. Acked(k, c, d) /\ Owed(d) /\ CovOK(k, d)
  BY SendAckMoved
<1> HIDE DEF d
<1>2. Fine(k, c, d)
  BY <1>1, CoreGood DEF Fine, Acked
<1> QED BY <1>2 DEF d

\* What EmitReset changes.
LEMMA ResetFrame ==
    ASSUME NEW c, DOMAIN c = Fields, NEW seq
    PROVE  Same(c, EmitReset(c, seq), {"out"})
           /\ EmitReset(c, seq).out = Append(c.out, Segment(seq, 0, {"Rst"}, 0, <<>>))
BY DEF EmitReset, Same, Fields, NewConnection

\* A reset of any number is in order.
LEMMA ResetOut ==
    ASSUME NEW k, IsAround(k), NEW c, Typed(c), OutOK(k, c), NEW seq \in Int
    PROVE  LET d == EmitReset(c, seq)
           IN  Same(c, d, {"out"}) /\ Typed(d) /\ OutOK(k, d) /\ d.state = c.state
<1> DEFINE seg == Segment(seq, 0, {"Rst"}, 0, <<>>)
           d == EmitReset(c, seq)
<1>1. DOMAIN c = Fields
  BY DEF Typed
<1>2. Same(c, d, {"out"}) /\ d.out = Append(c.out, seg)
  BY <1>1, ResetFrame
<1>3. seg \in Segs /\ "Rst" \in seg.flags
  <2>1. seq % M \in Nos /\ 0 \in Nos
    BY HalfIsHalf DEF Nos
  <2>2. {"Rst"} \in SUBSET Flags
    BY DEF Flags
  <2> QED BY <2>1, <2>2 DEF Segment, Segs
<1> HIDE DEF seg, d
<1>4. Same(c, d, SendFields)
  BY <1>2 DEF Same, SendFields
<1>5. /\ d.snd_nxt = c.snd_nxt /\ d.snd_max = c.snd_max /\ d.retransmit = c.retransmit
      /\ d.persist = c.persist /\ d.delayed_ack = c.delayed_ack
      /\ d.unacked_segments = c.unacked_segments
  BY <1>2 DEF Same, Fields, NewConnection
<1>6. /\ DOMAIN d = Fields
      /\ d.state = c.state /\ d.iss = c.iss /\ d.snd_una = c.snd_una
      /\ d.buf_seq = c.buf_seq /\ d.snd_wnd = c.snd_wnd /\ d.send_buf = c.send_buf
      /\ d.fin_queued = c.fin_queued /\ d.cwnd = c.cwnd /\ d.ssthresh = c.ssthresh
      /\ d.retries = c.retries /\ d.time_wait = c.time_wait /\ d.irs = c.irs
      /\ d.rcv_nxt = c.rcv_nxt /\ d.rcv_offset = c.rcv_offset /\ d.recv_buf = c.recv_buf
      /\ d.fin_received = c.fin_received /\ Pos(k, d) = Pos(k, c)
  BY <1>4, SameFields
<1> HIDE DEF Same
<1>7. Typed(d)
  <2>1. /\ c.fin_queued \in BOOLEAN /\ c.persist \in BOOLEAN /\ c.delayed_ack \in BOOLEAN
        /\ c.time_wait \in BOOLEAN /\ c.fin_received \in BOOLEAN /\ c.retransmit \in BOOLEAN
    BY Zenon DEF Typed
  <2>2. /\ d.fin_queued \in BOOLEAN /\ d.persist \in BOOLEAN /\ d.delayed_ack \in BOOLEAN
        /\ d.time_wait \in BOOLEAN /\ d.fin_received \in BOOLEAN /\ d.retransmit \in BOOLEAN
    BY <1>5, <1>6, <2>1, Zenon
  <2> QED BY <1>5, <1>6, <2>2 DEF Typed
<1>8. Grows(k, c, d)
  <2>1. Pos(k, c) \in Nat /\ Horizon(c) \in 0 .. M
    BY PosType, OffsetType
  <2>2. Horizon(d) = Horizon(c)
    BY <1>5, <1>6 DEF Horizon, Top
  <2> QED BY <1>6, <2>1, <2>2 DEF Grows
<1>9. Leaves(k, d, seg)
  BY <1>3 DEF Leaves, Belongs
<1>10. OutOK(k, d)
  BY <1>2, <1>7, <1>8, <1>9, OutMore
<1>11. Same(c, d, {"out"}) /\ Typed(d) /\ OutOK(k, d) /\ d.state = c.state
  BY <1>2, <1>6, <1>7, <1>10
<1> QED BY <1>11 DEF d

\* A reset counts as sending nothing.
LEMMA ResetSent ==
    ASSUME NEW k, NEW c, Core(k, c), NEW seq \in Int
    PROVE  Sent(k, c, EmitReset(c, seq))
<1> DEFINE d == EmitReset(c, seq)
<1>1. IsAround(k) /\ Typed(c) /\ OutOK(k, c)
  BY DEF Core
<1>2. Same(c, d, {"out"}) /\ Typed(d) /\ OutOK(k, d)
  BY <1>1, ResetOut
<1> HIDE DEF d
<1>3. Same(c, d, SendFields)
  BY <1>2 DEF Same, SendFields
<1>4. /\ d.snd_nxt = c.snd_nxt /\ d.snd_max = c.snd_max /\ d.retransmit = c.retransmit
      /\ d.persist = c.persist /\ d.delayed_ack = c.delayed_ack
      /\ d.unacked_segments = c.unacked_segments /\ d.iss = c.iss
  BY <1>2 DEF Same, Fields, NewConnection
<1> HIDE DEF Same
<1>5. /\ Nxt(c) \in Nat /\ Top(c) \in Nat /\ Nxt(c) <= Top(c)
      /\ Top(c) <= End(c) + One(c.fin_queued)
  BY CorePlaces
<1>6. Nxt(d) = Nxt(c) /\ Top(d) = Top(c)
  BY <1>4 DEF Nxt, Top
<1>7. Nxt(c) <= Nxt(d) /\ Nxt(d) <= Top(d) /\ Top(c) <= Top(d)
      /\ Top(d) <= End(c) + One(c.fin_queued)
  BY <1>5, <1>6
<1>8. Sent(k, c, d)
  BY <1>2, <1>3, <1>4, <1>7, Zenon DEF Sent
<1> QED BY <1>8 DEF d

\* Core implies Base.
LEMMA CoreBase ==
    ASSUME NEW k, NEW c, Core(k, c)
    PROVE  Base(k, c)
BY DEF Core, Base

\* Sending a reset is fine.
LEMMA ResetFine ==
    ASSUME NEW k, NEW c, Core(k, c), PeerKnown(c) \/ Handshake(c), Owed(c), CovOK(k, c),
           NEW seq \in Int
    PROVE  Fine(k, c, EmitReset(c, seq))
<1> DEFINE d == EmitReset(c, seq)
<1>1. Sent(k, c, d)
  BY ResetSent
<1>4. Same(c, d, {"out"})
  BY CoreBase, ResetOut DEF Base
<1> HIDE DEF d
<1>5. d.persist = c.persist
  BY <1>4 DEF Same, Fields, NewConnection
<1>2. Core(k, d) /\ Later(k, c, d) /\ Owed(d) /\ CovOK(k, d)
  BY <1>1, <1>5, CoreSent
<1>3. Fine(k, c, d)
  BY <1>2, CoreGood DEF Fine
<1> QED BY <1>3 DEF d

\* What Terminate changes.
LEMMA TerminateFrame ==
    ASSUME NEW c, DOMAIN c = Fields, NEW error
    PROVE  Ends(c, Terminate(c, error))
BY DEF Ends, Terminate, ClearTimers, Same, EndFields, SideFields, Fields, NewConnection

\* The end of a connection is fine, whatever it was in the middle of.
LEMMA EndsFine ==
    ASSUME NEW k, NEW c, Base(k, c), NEW d, Ends(c, d)
    PROVE  Fine(k, c, d) /\ d.state = "Closed"
<1>1. Typed(c)
  BY DEF Base
<1>2. /\ Same(c, d, EndFields) /\ d.state = "Closed" /\ d.send_buf = <<>>
      /\ d.snd_wnd = c.snd_wnd /\ d.cwnd = c.cwnd /\ d.ssthresh = c.ssthresh
      /\ d.retries = c.retries /\ d.unacked_segments = c.unacked_segments
  BY DEF Ends
<1>3. /\ d.retransmit \in BOOLEAN /\ d.persist \in BOOLEAN /\ d.delayed_ack \in BOOLEAN
      /\ d.time_wait \in BOOLEAN
  BY Booleans, Zenon DEF Ends
<1> HIDE DEF Same
<1>4. d.state \in States
  BY <1>2 DEF States
<1>5. SideTyped(d)
  BY <1>1, <1>2, <1>3, <1>4 DEF SideTyped, Typed
<1> QED BY <1>2, <1>5, ClosedGood DEF Fine

\* However a connection ends, what it has said stays said.
LEMMA TerminateFine ==
    ASSUME NEW k, NEW c, Base(k, c), NEW error
    PROVE  Fine(k, c, Terminate(c, error)) /\ Terminate(c, error).state = "Closed"
<1> DEFINE d == Terminate(c, error)
<1>1. DOMAIN c = Fields
  BY DEF Base, Typed
<1>2. Ends(c, d)
  BY <1>1, TerminateFrame
<1> HIDE DEF d
<1>3. Fine(k, c, d) /\ d.state = "Closed"
  BY <1>2, EndsFine
<1> QED BY <1>3 DEF d

\* What the fields of a SYN change.
LEMMA SetsFrame ==
    ASSUME NEW c, DOMAIN c = Fields, NEW irs, NEW rcv, NEW cwnd, NEW wnd, NEW wl1, NEW wl2
    PROVE  Sets(c, [c EXCEPT !.irs = irs, !.rcv_nxt = rcv, !.cwnd = cwnd, !.snd_wnd = wnd,
                             !.snd_wl1 = wl1, !.snd_wl2 = wl2], irs, rcv, cwnd, wnd)
BY DEF Sets, Same, SynFields, Fields, NewConnection

\* What TakeSyn changes.
LEMMA TakeSynFrame ==
    ASSUME NEW c, DOMAIN c = Fields, NEW syn, NEW wl2
    PROVE  Same(c, TakeSyn(c, syn, wl2), SynFields) /\ TakesSyn(TakeSyn(c, syn, wl2), syn)
<1> DEFINE cwnd == FirstCwnd
           rcv == (syn.seq + 1) % M
           irs == syn.seq
           wnd == syn.window
           d == [c EXCEPT !.irs = irs, !.rcv_nxt = rcv, !.cwnd = cwnd, !.snd_wnd = wnd,
                          !.snd_wl1 = irs, !.snd_wl2 = wl2]
<1>1. TakeSyn(c, syn, wl2) = d
  BY DEF TakeSyn, FirstCwnd
<1>2. Sets(c, d, irs, rcv, cwnd, wnd)
  <2> HIDE DEF cwnd, rcv, irs, wnd
  <2> QED BY SetsFrame
<1> HIDE DEF d
<1>3. Same(c, d, SynFields) /\ TakesSyn(d, syn)
  BY <1>2 DEF Sets, TakesSyn
<1> QED BY <1>1, <1>3

\* What sending a SYN changes.
LEMMA NumbersSent ==
    ASSUME NEW c, DOMAIN c = Fields, NEW s, NEW next, NEW running
    PROVE  Numbers(c, [c EXCEPT !.state = s, !.snd_nxt = next, !.snd_max = next,
                                !.retransmit = running], s, c.snd_una, next, running, c.retries)
BY DEF Numbers, Same, Fields, NewConnection

\* What a change of the state alone changes of the numbers.
LEMMA NumbersState ==
    ASSUME NEW c, DOMAIN c = Fields, NEW s, c.snd_nxt = c.snd_max
    PROVE  Numbers(c, [c EXCEPT !.state = s], s, c.snd_una, c.snd_max, c.retransmit, c.retries)
BY DEF Numbers, Same, Fields, NewConnection

\* What the answer to a SYN changes.
LEMMA NumbersAnswered ==
    ASSUME NEW c, DOMAIN c = Fields, NEW s, NEW una, NEW retries, NEW running, c.snd_nxt = c.snd_max
    PROVE  Numbers(c, [c EXCEPT !.snd_una = una, !.retries = retries, !.retransmit = running,
                                !.state = s], s, una, c.snd_max, running, retries)
BY DEF Numbers, Same, Fields, NewConnection

\* Taking a SYN and numbering is starting.
LEMMA NumbersStart ==
    ASSUME NEW c, NEW b, NEW syn, Same(c, b, SynFields), TakesSyn(b, syn),
           NEW d, NEW s, NEW una, NEW next, NEW running, NEW retries,
           Numbers(b, d, s, una, next, running, retries)
    PROVE  Starts(c, d, s, una, next, running) /\ TakesSyn(d, syn) /\ d.retries = retries
           /\ d.iss = c.iss
<1>1. Same(b, d, {"state", "snd_una", "snd_nxt", "snd_max", "retransmit", "retries"})
  BY DEF Numbers
<1>2. Same(c, d, StartFields)
  BY <1>1 DEF Same, SynFields, StartFields
<1>3. d.irs = b.irs /\ d.rcv_nxt = b.rcv_nxt /\ d.cwnd = b.cwnd /\ d.snd_wnd = b.snd_wnd
  BY <1>1 DEF Same, Fields, NewConnection
<1>4. d.iss = c.iss
  BY <1>2, StartSame
<1> HIDE DEF Same
<1>5. Starts(c, d, s, una, next, running) /\ d.retries = retries
  BY <1>2, Zenon DEF Numbers, Starts
<1> QED BY <1>3, <1>4, <1>5 DEF TakesSyn

\* Numbering alone is starting.
LEMMA ConnectFrame ==
    ASSUME NEW c, DOMAIN c = Fields, NEW d, NEW s, NEW una, NEW next, NEW running, NEW retries,
           Numbers(c, d, s, una, next, running, retries)
    PROVE  /\ Starts(c, d, s, una, next, running)
           /\ d.retries = retries /\ d.irs = c.irs /\ d.rcv_nxt = c.rcv_nxt
           /\ d.cwnd = c.cwnd /\ d.snd_wnd = c.snd_wnd /\ d.iss = c.iss
<1>1. Same(c, d, {"state", "snd_una", "snd_nxt", "snd_max", "retransmit", "retries"})
  BY DEF Numbers
<1>2. Same(c, d, StartFields)
  BY <1>1 DEF Same, StartFields
<1>3. d.irs = c.irs /\ d.rcv_nxt = c.rcv_nxt /\ d.cwnd = c.cwnd /\ d.snd_wnd = c.snd_wnd
      /\ d.iss = c.iss
  BY <1>1 DEF Same, Fields, NewConnection
<1> HIDE DEF Same
<1>4. Starts(c, d, s, una, next, running) /\ d.retries = retries
  BY <1>2, Zenon DEF Numbers, Starts
<1> QED BY <1>3, <1>4

\* A connection that starts with the right numbers is Started.
LEMMA StartsCore ==
    ASSUME NEW k, NEW c, Core(k, c), c.state \in {"None", "Listen", "SynSent"},
           NEW d, NEW s \in {"SynSent", "SynReceived", "Established"},
           NEW una \in Nos, NEW next \in Nos, NEW running,
           Starts(c, d, s, una, next, running),
           SeqSub(next, k.iss) = 1,
           SeqSub(una, k.iss) = (IF s = "Established" THEN 1 ELSE 0),
           s = "Established" => 1 <= k.heard,
           d.retransmit \in BOOLEAN, s # "Established" => d.retransmit,
           d.retries \in Nat, d.cwnd \in Nat, d.snd_wnd \in Nat, d.irs \in Nos, d.rcv_nxt \in Nos,
           s # "SynSent" => d.irs = k.irs /\ SeqSub(d.rcv_nxt, k.irs) = 1 /\ d.cwnd > 0
    PROVE  Core(k, d) /\ Later(k, c, d) /\ (Owed(c) => Owed(d)) /\ d.state = s
<1>1. /\ Same(c, d, StartFields) /\ d.state = s /\ d.snd_una = una
      /\ d.snd_nxt = next /\ d.snd_max = next /\ d.retransmit = running
  BY Zenon DEF Starts
<1>2. c.iss = k.iss
  BY DEF Core, AckOK
<1>3. d.iss = k.iss
  BY <1>1, <1>2, StartSame
<1> HIDE DEF Same
<1>6. Nxt(d) = 1 /\ Top(d) = 1 /\ Una(d) = IF s = "Established" THEN 1 ELSE 0
  BY <1>1, <1>3 DEF Nxt, Top, Una
<1>7. Started(k, d)
  BY <1>1, <1>6 DEF Started
<1> QED BY <1>1, <1>7, StartedCore

\* Connect is fine.
LEMMA ConnectFine ==
    ASSUME NEW k, NEW c, Core(k, c), c.state = "None", Owed(c)
    PROVE  Fine(k, c, Connect(c))
<1> DEFINE next == (c.iss + 1) % M
           x == [c EXCEPT !.state = "SynSent", !.snd_nxt = next, !.snd_max = next,
                          !.retransmit = TRUE]
           y == EmitSegment(x, x.iss, {"Syn"}, <<>>)
           on == TRUE
<1>1. Typed(c) /\ DOMAIN c = Fields /\ c.iss = k.iss /\ c.iss \in Nos /\ IsAround(k)
  BY DEF Core, Typed, AckOK
<1>2. next \in Nos /\ SeqSub(next, k.iss) = 1
  BY <1>1, IssNext
<1>3. /\ Starts(c, x, "SynSent", c.snd_una, next, on)
      /\ x.retries = c.retries /\ x.irs = c.irs /\ x.rcv_nxt = c.rcv_nxt
      /\ x.cwnd = c.cwnd /\ x.snd_wnd = c.snd_wnd /\ x.iss = c.iss
  <2>1. Numbers(c, x, "SynSent", c.snd_una, next, on, c.retries)
    <3>1. DOMAIN c = Fields /\ x = [c EXCEPT !.state = "SynSent", !.snd_nxt = next, !.snd_max = next,
                                              !.retransmit = on]
      BY <1>1
    <3> HIDE DEF next, on, x
    <3> QED BY <3>1, NumbersSent
  <2> HIDE DEF next, on, x
  <2> QED BY <1>1, <2>1, ConnectFrame
<1>4. Connect(c) = y
  BY <1>3 DEF Connect
<1> HIDE DEF next, x
<1>5. Core(k, x) /\ Later(k, c, x) /\ Owed(x) /\ x.state = "SynSent"
  <2>1. SeqSub(c.snd_una, k.iss) = 0 /\ c.snd_una \in Nos
    BY <1>1, CoreStart DEF Una, Typed
  <2>2. /\ x.retries \in Nat /\ x.cwnd \in Nat /\ x.snd_wnd \in Nat /\ x.irs \in Nos
        /\ x.rcv_nxt \in Nos
    BY <1>1, <1>3 DEF Typed
  <2>3. x.retransmit \in BOOLEAN /\ x.retransmit
    BY <1>3, Booleans, Zenon DEF Starts
  <2> HIDE DEF on
  <2> DEFINE s == "SynSent"
  <2>4. /\ s \in {"SynSent", "SynReceived", "Established"} /\ s # "Established" /\ s = "SynSent"
        /\ Starts(c, x, s, c.snd_una, next, on) /\ c.state \in {"None", "Listen", "SynSent"}
    BY <1>3
  <2> HIDE DEF s
  <2>5. SeqSub(c.snd_una, k.iss) = (IF s = "Established" THEN 1 ELSE 0)
    BY <2>1, <2>4
  <2> QED BY <1>2, <2>1, <2>2, <2>3, <2>4, <2>5, StartsCore
<1>6. Handshake(x)
  BY <1>5 DEF Handshake
<1>7. Core(k, y) /\ Later(k, x, y) /\ Owed(y) /\ CovOK(k, y)
  BY <1>5, <1>6, SynLeaves
<1> HIDE DEF y
<1>8. Fine(k, x, y)
  BY <1>7, CoreGood DEF Fine
<1> QED BY <1>4, <1>5, <1>8, FineTwice

\* AcceptSyn is fine.
LEMMA AcceptSynFine ==
    ASSUME NEW k, NEW c, Core(k, c), c.state = "Listen", Owed(c),
           NEW syn, Arrives(k, syn), BareSyn(syn)
    PROVE  Fine(k, c, AcceptSyn(c, syn))
<1> DEFINE next == (c.iss + 1) % M
           x == [TakeSyn(c, syn, c.iss) EXCEPT !.state = "SynReceived", !.snd_nxt = next,
                                               !.snd_max = next, !.retransmit = TRUE]
           y == EmitSegment(x, x.iss, {"Syn", "Ack"}, <<>>)
           on == TRUE
<1>1. Typed(c) /\ DOMAIN c = Fields /\ c.iss = k.iss /\ c.iss \in Nos /\ IsAround(k)
  BY DEF Core, Typed, AckOK
<1>2. next \in Nos /\ SeqSub(next, k.iss) = 1
  BY <1>1, IssNext
<1>3. /\ Starts(c, x, "SynReceived", c.snd_una, next, on) /\ TakesSyn(x, syn)
      /\ x.retries = c.retries /\ x.iss = c.iss
  <2> DEFINE b == TakeSyn(c, syn, c.iss)
             s == "SynReceived"
  <2>1. Same(c, b, SynFields) /\ TakesSyn(b, syn)
    BY <1>1, TakeSynFrame
  <2>2. x = [b EXCEPT !.state = s, !.snd_nxt = next, !.snd_max = next, !.retransmit = on]
    OBVIOUS
  <2> HIDE DEF next, on, x, b, s
  <2>3. DOMAIN b = Fields /\ b.snd_una = c.snd_una /\ b.retries = c.retries
    BY <2>1 DEF Same, SynFields, Fields, NewConnection
  <2>4. Numbers(b, x, s, c.snd_una, next, on, c.retries)
    BY <2>2, <2>3, NumbersSent
  <2>5. Starts(c, x, s, c.snd_una, next, on) /\ TakesSyn(x, syn) /\ x.retries = c.retries
        /\ x.iss = c.iss
    BY <2>1, <2>4, NumbersStart
  <2> QED BY <2>5 DEF s
<1>4. AcceptSyn(c, syn) = y
  BY <1>3 DEF AcceptSyn
<1>5. "Syn" \in syn.flags /\ "Rst" \notin syn.flags
  BY DEF BareSyn
<1> HIDE DEF next, x
<1>6. Core(k, x) /\ Later(k, c, x) /\ Owed(x) /\ x.state = "SynReceived"
  <2>1. SeqSub(c.snd_una, k.iss) = 0 /\ c.snd_una \in Nos
    BY <1>1, CoreStart DEF Una, Typed
  <2>2. /\ x.irs = k.irs /\ x.irs \in Nos /\ x.rcv_nxt \in Nos /\ SeqSub(x.rcv_nxt, k.irs) = 1
        /\ x.cwnd \in Nat /\ x.cwnd > 0 /\ x.snd_wnd \in Nat
    BY <1>1, <1>3, <1>5, SynTaken
  <2>3. x.retransmit \in BOOLEAN /\ x.retransmit
    BY <1>3, Booleans, Zenon DEF Starts
  <2>4. x.retries \in Nat
    BY <1>1, <1>3 DEF Typed
  <2> HIDE DEF on
  <2> QED BY <1>2, <1>3, <2>1, <2>2, <2>3, <2>4, StartsCore
<1>7. Handshake(x) /\ PeerKnown(x)
  BY <1>6 DEF Handshake, PeerKnown
<1>8. Core(k, y) /\ Later(k, x, y) /\ Owed(y) /\ CovOK(k, y)
  BY <1>6, <1>7, SynLeaves
<1> HIDE DEF y
<1>9. Fine(k, x, y)
  BY <1>8, CoreGood DEF Fine
<1> QED BY <1>4, <1>6, <1>9, FineTwice

\* HandleSynSent is fine, its refusals, the reset and the simultaneous open included.
LEMMA HandleSynSentFine ==
    ASSUME NEW k, NEW c, Core(k, c), c.state = "SynSent", Owed(c), CovOK(k, c),
           NEW seg, Arrives(k, seg)
    PROVE  Fine(k, c, HandleSynSent(c, seg))
<1> DEFINE ack_ok == SeqLt(c.iss, seg.ack) /\ SeqLe(seg.ack, c.snd_max)
           opened == TakeSyn(c, seg, seg.ack)
           x == [opened EXCEPT !.snd_una = seg.ack, !.retries = 0,
                               !.retransmit = FALSE, !.state = "Established"]
           z == [opened EXCEPT !.state = "SynReceived"]
           d == HandleSynSent(c, seg)
<1>1. Typed(c) /\ DOMAIN c = Fields /\ c.iss = k.iss /\ c.iss \in Nos /\ IsAround(k)
  BY DEF Core, Typed, AckOK
<1>2. Una(c) = 0 /\ Nxt(c) = 1 /\ Top(c) = 1 /\ Handshake(c) /\ c.retransmit
  <2>1. Handshake(c)
    BY DEF Handshake
  <2>2. Una(c) = 0 /\ Nxt(c) = 1 /\ Top(c) = 1
    BY <2>1, CoreOpening
  <2>3. c.snd_una # c.snd_max
    BY <2>2 DEF Una, Top
  <2> QED BY <2>1, <2>2, <2>3 DEF Core, TimOK, Timed
<1>3. /\ c.snd_nxt = c.snd_max /\ c.snd_una \in Nos /\ c.snd_max \in Nos /\ c.snd_nxt \in Nos
      /\ SeqSub(c.snd_max, k.iss) = 1 /\ SeqSub(c.snd_una, k.iss) = 0
  <2>1. c.snd_una \in Nos /\ c.snd_max \in Nos /\ c.snd_nxt \in Nos
    BY <1>1 DEF Typed
  <2>2. SeqSub(c.snd_nxt, c.iss) = SeqSub(c.snd_max, c.iss)
    BY <1>2 DEF Nxt, Top
  <2>3. c.snd_nxt = c.snd_max
    BY <1>1, <2>1, <2>2, SubInjective
  <2> QED BY <1>1, <1>2, <2>1, <2>3 DEF Una, Top
<1>4. seg \in Segs /\ seg.ack \in Int /\ seg.ack \in Nos
  <2>1. seg \in Segs
    BY DEF Arrives, Belongs
  <2>2. seg.ack \in Nos
    BY <2>1 DEF Segs
  <2>3. seg.ack \in Int
    BY <2>2, HalfIsHalf DEF Nos
  <2> QED BY <2>1, <2>2, <2>3
<1>5. CASE d = EmitReset(c, seg.ack)
  BY <1>2, <1>4, <1>5, ResetFine
<1>6. CASE d = Terminate(c, "ConnRefused")
  BY <1>6, CoreBase, TerminateFine
<1>7. CASE /\ "Ack" \in seg.flags /\ ack_ok /\ seg.flags \cap {"Rst", "Syn"} = {"Syn"}
           /\ d = TrySend(SendAck(x))
  <2>1. "Syn" \in seg.flags /\ "Rst" \notin seg.flags
    BY <1>7
  <2> DEFINE off == FALSE
  <2>2. Starts(c, x, "Established", seg.ack, c.snd_max, off) /\ TakesSyn(x, seg) /\ x.retries = 0
    <3> DEFINE b == opened
               s == "Established"
               una == seg.ack
    <3>1. Same(c, b, SynFields) /\ TakesSyn(b, seg)
      BY <1>1, TakeSynFrame
    <3>2. x = [b EXCEPT !.snd_una = una, !.retries = 0, !.retransmit = off, !.state = s]
      OBVIOUS
    <3> HIDE DEF off, x, opened, b, s, una
    <3>3. DOMAIN b = Fields /\ b.snd_nxt = c.snd_nxt /\ b.snd_max = c.snd_max
      BY <3>1 DEF Same, SynFields, Fields, NewConnection
    <3>4. Numbers(b, x, s, una, c.snd_max, off, 0)
      BY <1>3, <3>2, <3>3, NumbersAnswered
    <3>5. Starts(c, x, s, una, c.snd_max, off) /\ TakesSyn(x, seg) /\ x.retries = 0
      BY <3>1, <3>4, NumbersStart
    <3> QED BY <3>5 DEF s, una
  <2>3. SeqSub(seg.ack, k.iss) \in 1 .. k.heard
    BY <1>7, <2>1 DEF Arrives, Belongs
  <2>4. SeqSub(seg.ack, k.iss) = 1 /\ 1 <= k.heard
    <3> DEFINE A == SeqSub(seg.ack, c.iss)
    <3>1. Core0(k, c)
      BY CoreIsCore0
    <3>2. A \in Nat /\ A >= 1 /\ A <= k.heard /\ (SeqLe(seg.ack, c.snd_max) <=> A <= Top(c))
      BY <1>4, <2>3, <3>1, AckPlace
    <3> HIDE DEF A
    <3>3. A <= 1
      BY <1>2, <1>7, <3>2
    <3>4. k.heard \in Nat
      BY <1>1 DEF IsAround
    <3> QED BY <1>1, <3>2, <3>3, <3>4 DEF A
  <2> HIDE DEF x, d
  <2>5. Core(k, x) /\ Later(k, c, x) /\ Owed(x) /\ x.state = "Established"
    <3>1. /\ x.irs = k.irs /\ x.irs \in Nos /\ x.rcv_nxt \in Nos /\ SeqSub(x.rcv_nxt, k.irs) = 1
          /\ x.cwnd \in Nat /\ x.cwnd > 0 /\ x.snd_wnd \in Nat
      BY <1>1, <2>1, <2>2, SynTaken
    <3>2. x.retransmit \in BOOLEAN
      BY <2>2, Booleans, Zenon DEF Starts
    <3>3. x.retries \in Nat
      BY <2>2
    <3> HIDE DEF off
    <3> QED BY <1>3, <1>4, <2>2, <2>4, <3>1, <3>2, <3>3, StartsCore
  <2> DEFINE y == SendAck(x)
  <2>6. PeerKnown(x) /\ ~Handshake(x)
    BY <2>5 DEF PeerKnown, Handshake
  <2>7. Acked(k, x, y) /\ y.state = x.state /\ Owed(y)
    BY <2>5, <2>6, SendAckMoved
  <2> HIDE DEF y
  <2>8. Core(k, y) /\ Later(k, x, y) /\ PeerKnown(y) /\ ~Handshake(y)
    BY <2>6, <2>7 DEF Acked, PeerKnown, Handshake
  <2>9. Fine(k, y, TrySend(y))
    BY <2>7, <2>8, TrySendFine
  <2>10. Fine(k, x, TrySend(y))
    BY <2>5, <2>8, <2>9, FineTwice
  <2>11. Fine(k, c, TrySend(y))
    BY <2>5, <2>10, FineTwice
  <2> QED BY <1>7, <2>11 DEF y, d
<1>8. CASE BareSyn(seg) /\ d = EmitSegment(z, c.iss, {"Syn", "Ack"}, <<>>)
  <2>1. "Syn" \in seg.flags /\ "Rst" \notin seg.flags
    BY <1>8 DEF BareSyn
  <2>2. /\ Starts(c, z, "SynReceived", c.snd_una, c.snd_max, c.retransmit) /\ TakesSyn(z, seg)
        /\ z.retries = c.retries /\ z.iss = c.iss
    <3> DEFINE b == opened
               s == "SynReceived"
    <3>1. Same(c, b, SynFields) /\ TakesSyn(b, seg)
      BY <1>1, TakeSynFrame
    <3>2. z = [b EXCEPT !.state = s]
      OBVIOUS
    <3> HIDE DEF z, opened, b, s
    <3>3. DOMAIN b = Fields /\ b.snd_nxt = c.snd_nxt /\ b.snd_max = c.snd_max
          /\ b.snd_una = c.snd_una /\ b.retransmit = c.retransmit /\ b.retries = c.retries
      BY <3>1 DEF Same, SynFields, Fields, NewConnection
    <3>4. Numbers(b, z, s, c.snd_una, c.snd_max, c.retransmit, c.retries)
      <4>1. b.snd_nxt = b.snd_max
        BY <1>3, <3>3
      <4>2. Numbers(b, z, s, b.snd_una, b.snd_max, b.retransmit, b.retries)
        BY <3>2, <3>3, <4>1, NumbersState
      <4> QED BY <3>3, <4>2
    <3>5. Starts(c, z, s, c.snd_una, c.snd_max, c.retransmit) /\ TakesSyn(z, seg)
          /\ z.retries = c.retries /\ z.iss = c.iss
      BY <3>1, <3>4, NumbersStart
    <3> QED BY <3>5 DEF s
  <2> HIDE DEF z, d
  <2>3. Core(k, z) /\ Later(k, c, z) /\ Owed(z) /\ z.state = "SynReceived"
    <3>1. /\ z.irs = k.irs /\ z.irs \in Nos /\ z.rcv_nxt \in Nos /\ SeqSub(z.rcv_nxt, k.irs) = 1
          /\ z.cwnd \in Nat /\ z.cwnd > 0 /\ z.snd_wnd \in Nat
      BY <1>1, <2>1, <2>2, SynTaken
    <3>2. z.retransmit \in BOOLEAN /\ z.retransmit
      <4>1. c.retransmit \in BOOLEAN
        BY <1>1, Zenon DEF Typed
      <4> QED BY <1>2, <2>2, <4>1, Zenon DEF Starts
    <3>3. z.retries \in Nat
      BY <1>1, <2>2 DEF Typed
    <3> QED BY <1>2, <1>3, <2>2, <3>1, <3>2, <3>3, StartsCore
  <2> DEFINE y == EmitSegment(z, z.iss, {"Syn", "Ack"}, <<>>)
  <2>4. Handshake(z) /\ PeerKnown(z)
    BY <2>3 DEF Handshake, PeerKnown
  <2>5. Core(k, y) /\ Later(k, z, y) /\ Owed(y) /\ CovOK(k, y)
    BY <2>3, <2>4, SynLeaves
  <2>6. d = y
    BY <1>8, <2>2
  <2> HIDE DEF y
  <2>7. Fine(k, z, y)
    BY <2>5, CoreGood DEF Fine
  <2>8. Fine(k, c, y)
    BY <2>3, <2>7, FineTwice
  <2> QED BY <2>6, <2>8 DEF d
<1>9. CASE d = c
  <2>1. Good(k, c)
    BY CoreGood
  <2>2. Fine(k, c, c)
    BY <1>1, <2>1, FineSelf
  <2> QED BY <1>9, <2>2
<1>10. \/ d = EmitReset(c, seg.ack)
       \/ d = Terminate(c, "ConnRefused")
       \/ /\ "Ack" \in seg.flags /\ ack_ok /\ seg.flags \cap {"Rst", "Syn"} = {"Syn"}
          /\ d = TrySend(SendAck(x))
       \/ BareSyn(seg) /\ d = EmitSegment(z, c.iss, {"Syn", "Ack"}, <<>>)
       \/ d = c
  BY DEF HandleSynSent
<1> QED BY <1>5, <1>6, <1>7, <1>8, <1>9, <1>10

-----------------------------------------------------------------------------
(* OnSegment. *)

\* A segment at rcv_nxt that the closed window refuses was sent beyond what has been received.
LEMMA AckOnlyCovered ==
    ASSUME NEW k, IsAround(k), NEW c, NEW seg, Arrives(k, seg), AckOnly(c, seg),
           NEW d, d.rcv_nxt = c.rcv_nxt
    PROVE  CovOK(k, d)
<1> DEFINE s == SeqSub(seg.seq, k.irs)
           t == SeqSub(k.top, k.irs)
           n == SegmentLength(seg)
<1>1. "Rst" \notin seg.flags /\ seg.seq = c.rcv_nxt /\ ReceiveWindow(c) = 0 /\ ~Acceptable(c, seg)
  BY DEF AckOnly
<1>2. seg \in Segs /\ seg.seq \in Nos /\ k.irs \in Nos /\ k.top \in Nos /\ k.gone \in BOOLEAN
  BY DEF Arrives, Belongs, Segs, IsAround
<1>3. n \in Nat
  BY <1>2, LengthCounted
<1>4. n # 0
  BY <1>1 DEF Acceptable
<1>5. n > 0
  BY <1>3, <1>4
<1>6. ~k.gone => s < t
  BY <1>1, <1>5 DEF Arrives, Belongs
<1>7. ~k.gone => t < Half
  BY DEF IsAround
<1>8. s \in Nat /\ t \in Nat
  <2>1. s \in Nos /\ t \in Nos
    BY <1>2, SubCases
  <2> QED BY <2>1 DEF Nos
<1> HIDE DEF s, t
<1>9. ~k.gone => SeqLt(seg.seq, k.top)
  <2>1. ~k.gone => s < Half /\ t < Half
    BY <1>6, <1>7, <1>8, HalfIsHalf
  <2> QED BY <1>2, <1>6, <2>1, SubOrder DEF s, t
<1> QED BY <1>1, <1>9 DEF CovOK

\* The rest of OnSegment after the acknowledgement of the SYN, ProcessAck, ProcessData and
\* TrySend, is fine.
LEMMA OnAckFine ==
    ASSUME NEW k, NEW c, Core0(k, c), PeerKnown(c), ~Handshake(c), c.state # "TimeWait", Owed(c),
           NEW seg, Arrives(k, seg), "Rst" \notin seg.flags, "Ack" \in seg.flags,
           \/ Core(k, c) /\ CovOK(k, c)
           \/ SeqLt(c.snd_una, seg.ack) /\ ~AcksUnsent(c, seg)
    PROVE  Fine(k, c, OnAck(c, seg))
<1> DEFINE a == ProcessAck(c, seg)
           d == OnAck(c, seg)
<1>1. IsAround(k) /\ Typed(c)
  BY DEF Core0
<1>2. CASE AcksUnsent(c, seg)
  <2>1. d = SendAck(c)
    BY <1>2 DEF OnAck
  <2> QED BY <1>2, <2>1, SendAckFine
<1>3. ASSUME ~AcksUnsent(c, seg)
      PROVE  /\ a.state \notin {"TimeWait", "Closed"} => Went(k, c, a)
             /\ a.state \in {"TimeWait", "Closed"} => Fine(k, c, a)
  <2>1. AcksSent(k, c, seg)
    BY <1>3 DEF AcksSent
  <2> QED BY <2>1, ProcessAckCore DEF Fine
<1>4. CASE ~AcksUnsent(c, seg) /\ a.state \in {"TimeWait", "Closed"}
  <2>1. d = a
    BY <1>4 DEF OnAck
  <2>2. Fine(k, c, a)
    BY <1>3, <1>4
  <2> QED BY <2>1, <2>2
<1>5. CASE ~AcksUnsent(c, seg) /\ a.state \notin {"TimeWait", "Closed"}
  <2>1. Went(k, c, a)
    BY <1>3, <1>5
  <2>2. d = IF AckOnly(c, seg) THEN SendAck(a) ELSE TrySend(ProcessData(a, seg))
    BY <1>5 DEF OnAck
  <2> HIDE DEF a, d
  <2>3. Core(k, a) /\ Later(k, c, a) /\ PeerKnown(a) /\ ~Handshake(a) /\ Owed(a)
        /\ a.rcv_nxt = c.rcv_nxt
    BY <2>1 DEF Went
  <2>4. CASE AckOnly(c, seg)
    <3>1. CovOK(k, a)
      BY <1>1, <2>3, <2>4, AckOnlyCovered
    <3>2. Fine(k, a, SendAck(a))
      BY <2>3, <3>1, SendAckFine
    <3>3. Later(k, c, SendAck(a))
      BY <1>1, <2>3, <3>2, LaterTwice DEF Fine, Core, Good
    <3> QED BY <2>2, <2>4, <3>2, <3>3 DEF Fine, d
  <2>5. CASE ~AckOnly(c, seg)
    <3> DEFINE e == ProcessData(a, seg)
    <3>1. Moved(k, a, e) /\ Owed(e)
      BY <2>3, ProcessDataMoved
    <3> HIDE DEF e
    <3>2. Core(k, e) /\ Later(k, a, e) /\ PeerKnown(e) /\ ~Handshake(e)
      BY <3>1 DEF Moved
    <3>3. Fine(k, e, TrySend(e))
      BY <3>1, <3>2, TrySendFine
    <3>4. Fine(k, a, TrySend(e))
      BY <2>3, <3>2, <3>3, FineTwice
    <3>5. Later(k, c, TrySend(e))
      BY <1>1, <2>3, <3>4, LaterTwice DEF Fine, Core, Good
    <3> QED BY <2>2, <2>5, <3>4, <3>5 DEF Fine, d, e
  <2> QED BY <2>4, <2>5 DEF d
<1> QED BY <1>2, <1>4, <1>5

\* What the acknowledgement of the SYN changes.
LEMMA EstablishesFrame ==
    ASSUME NEW c, DOMAIN c = Fields, NEW seg
    PROVE  Establishes(c, [c EXCEPT !.state = "Established", !.snd_wnd = seg.window,
                                    !.snd_wl1 = seg.seq, !.snd_wl2 = seg.ack], seg)
BY DEF Establishes, Same, Fields, NewConnection

\* What it leaves alone.
LEMMA EstablishesSame ==
    ASSUME NEW c, NEW d, NEW seg, Establishes(c, d, seg)
    PROVE  /\ Same(c, d, SideFields) /\ d.state = "Established" /\ d.snd_wnd = seg.window
           /\ d.cwnd = c.cwnd /\ d.ssthresh = c.ssthresh /\ d.retries = c.retries
           /\ d.in_recovery = c.in_recovery /\ d.recover = c.recover
           /\ d.retransmit = c.retransmit /\ d.persist = c.persist /\ d.time_wait = c.time_wait
           /\ d.unacked_segments = c.unacked_segments /\ d.delayed_ack = c.delayed_ack
BY DEF Establishes, Same, SideFields, Fields, NewConnection

\* The ACK of the SYN-ACK is yet to be taken.
LEMMA EstablishesCore0 ==
    ASSUME NEW k, NEW c, Core(k, c), c.state = "SynReceived", Owed(c),
           NEW seg \in Segs, NEW d, Establishes(c, d, seg)
    PROVE  /\ Core0(k, d) /\ Later(k, c, d) /\ Owed(d) /\ d.state = "Established"
           /\ d.snd_una = c.snd_una /\ d.snd_max = c.snd_max
<1>1. /\ Same(c, d, SideFields) /\ d.state = "Established" /\ d.snd_wnd = seg.window
      /\ d.cwnd = c.cwnd /\ d.ssthresh = c.ssthresh /\ d.retries = c.retries
      /\ d.in_recovery = c.in_recovery /\ d.recover = c.recover
      /\ d.retransmit = c.retransmit /\ d.persist = c.persist /\ d.time_wait = c.time_wait
      /\ d.unacked_segments = c.unacked_segments /\ d.delayed_ack = c.delayed_ack
  BY EstablishesSame
<1>2. /\ d.iss = c.iss /\ d.snd_una = c.snd_una /\ d.snd_max = c.snd_max
      /\ Una(d) = Una(c) /\ Top(d) = Top(c) /\ Buf(d) = Buf(c) /\ d.fin_received = c.fin_received
  BY <1>1, SideSame
<1> HIDE DEF Same
<1>3. SideTyped(d)
  <2>1. /\ c.retransmit \in BOOLEAN /\ c.persist \in BOOLEAN /\ c.time_wait \in BOOLEAN
        /\ c.delayed_ack \in BOOLEAN
    BY Zenon DEF Core, Typed
  <2>2. /\ d.retransmit \in BOOLEAN /\ d.persist \in BOOLEAN /\ d.time_wait \in BOOLEAN
        /\ d.delayed_ack \in BOOLEAN
    BY <1>1, <2>1, Zenon
  <2>3. /\ seg.window \in Nat /\ c.cwnd \in Nat /\ c.unacked_segments \in Nat
        /\ c.ssthresh \in Nat \ {0} /\ c.retries \in Nat
    BY DEF Core, Typed, Segs
  <2>4. d.state \in States
    BY <1>1 DEF States
  <2> QED BY <1>1, <2>2, <2>3, <2>4 DEF SideTyped
<1>4. NumsOK(d)
  <2>1. c.cwnd > 0
    BY DEF Core, StateOK, NumsOK, PeerKnown
  <2>2. c.in_recovery => c.recover \in Nos /\ SeqSub(c.recover, c.iss) <= Top(c)
    BY DEF Core, StateOK, NumsOK
  <2> QED BY <1>1, <1>2, <2>1, <2>2 DEF NumsOK, Handshake
<1>5. TimOK(d)
  BY <1>1, <1>2 DEF Core, TimOK, Timed, Quiet, PeerKnown
<1>6. (PeerKnown(d) <=> PeerKnown(c)) /\ ~d.fin_received /\ d.state # "Closed"
  BY <1>1, <1>2 DEF PeerKnown, Core, RcvOK, Accepting
<1>7. Core0(k, d) /\ Later(k, c, d)
  <2>1. Core0(k, c)
    BY CoreIsCore0
  <2> QED BY <1>1, <1>3, <1>4, <1>5, <1>6, <2>1, Core0Side
<1>8. Owed(d)
  <2>1. c.unacked_segments = 0
    BY DEF Owed, Receiving
  <2> QED BY <1>1, <2>1 DEF Owed
<1> QED BY <1>1, <1>2, <1>7, <1>8

\* The acknowledgement of a passive open, or one that is none, is fine.
LEMMA OnSynReceivedAckFine ==
    ASSUME NEW k, NEW c, Core(k, c), c.state = "SynReceived", Owed(c), CovOK(k, c),
           NEW seg, Arrives(k, seg), "Rst" \notin seg.flags, "Ack" \in seg.flags
    PROVE  Fine(k, c, OnSynReceivedAck(c, seg))
<1> DEFINE x == [c EXCEPT !.state = "Established", !.snd_wnd = seg.window,
                          !.snd_wl1 = seg.seq, !.snd_wl2 = seg.ack]
           d == OnSynReceivedAck(c, seg)
<1>1. IsAround(k) /\ Typed(c) /\ DOMAIN c = Fields
  BY DEF Core, Typed
<1>2. seg \in Segs /\ seg.ack \in Nos
  <2>1. seg \in Segs
    BY DEF Arrives, Belongs
  <2> QED BY <2>1 DEF Segs
<1>3. CASE SeqLt(c.snd_una, seg.ack) /\ SeqLe(seg.ack, c.snd_max)
  <2>1. d = OnAck(x, seg)
    BY <1>3 DEF OnSynReceivedAck
  <2>2. Establishes(c, x, seg)
    BY <1>1, EstablishesFrame
  <2> HIDE DEF x, d
  <2>3. /\ Core0(k, x) /\ Later(k, c, x) /\ Owed(x) /\ x.state = "Established"
        /\ x.snd_una = c.snd_una /\ x.snd_max = c.snd_max
    BY <1>2, <2>2, EstablishesCore0
  <2>4. PeerKnown(x) /\ ~Handshake(x)
    BY <2>3 DEF PeerKnown, Handshake
  <2>5. SeqLt(x.snd_una, seg.ack) /\ ~AcksUnsent(x, seg)
    <3>1. SeqSub(seg.ack, k.iss) \in 1 .. k.heard
      BY DEF Arrives, Belongs
    <3>2. /\ SeqLt(x.snd_max, seg.ack) <=> Top(x) < SeqSub(seg.ack, x.iss)
          /\ SeqLe(seg.ack, x.snd_max) <=> SeqSub(seg.ack, x.iss) <= Top(x)
          /\ SeqSub(seg.ack, x.iss) \in Nat
      BY <1>2, <2>3, <3>1, AckPlace
    <3>3. Top(x) \in Nat
      BY <2>3, Core0Places
    <3>4. SeqLe(seg.ack, x.snd_max)
      BY <1>3, <2>3
    <3> DEFINE A == SeqSub(seg.ack, x.iss)
               T == Top(x)
    <3> HIDE DEF A, T
    <3>5. ~(T < A)
      <4>1. A \in Nat /\ T \in Nat /\ A <= T
        BY <3>2, <3>3, <3>4 DEF A, T
      <4> QED BY <4>1
    <3> QED BY <1>3, <2>3, <3>2, <3>5 DEF AcksUnsent, A, T
  <2>6. x.state # "TimeWait"
    BY <2>3
  <2>7. Fine(k, x, OnAck(x, seg))
    BY <2>3, <2>4, <2>5, <2>6, OnAckFine
  <2>8. Later(k, c, OnAck(x, seg))
    BY <1>1, <2>3, <2>7, LaterTwice DEF Fine, Core0, Good
  <2> QED BY <2>1, <2>7, <2>8 DEF Fine, d
<1>4. CASE ~(SeqLt(c.snd_una, seg.ack) /\ SeqLe(seg.ack, c.snd_max))
  <2>1. d = EmitReset(c, seg.ack)
    BY <1>4 DEF OnSynReceivedAck
  <2>2. seg.ack \in Int
    BY <1>2, HalfIsHalf DEF Nos
  <2>3. Handshake(c)
    BY DEF Handshake
  <2> QED BY <2>1, <2>2, <2>3, ResetFine
<1> QED BY <1>3, <1>4

\* OnSegment is fine for every segment that may arrive.
LEMMA OnSegmentFine ==
    ASSUME NEW k, IsAround(k), NEW c, Good(k, c), c.state \notin {"None", "Listen", "Closed"},
           NEW seg, Arrives(k, seg)
    PROVE  Fine(k, c, OnSegment(c, seg))
<1> DEFINE d == OnSegment(c, seg)
<1>1. Core(k, c) /\ Owed(c) /\ CovOK(k, c) /\ Base(k, c)
  BY GoodCore
<1>2. Fine(k, c, c)
  BY FineSelf
<1>3. c.state # "SynSent" => PeerKnown(c)
  BY DEF PeerKnown
<1>4. c.state # "SynSent" => Fine(k, c, SendAck(c))
  BY <1>1, <1>3, SendAckFine
<1>5. CASE c.state = "SynSent"
  <2>1. d = HandleSynSent(c, seg)
    BY <1>5 DEF OnSegment
  <2> QED BY <1>1, <1>5, <2>1, HandleSynSentFine
<1>6. CASE c.state # "SynSent" /\ d = c
  BY <1>2, <1>6
<1>7. CASE c.state # "SynSent" /\ d = SendAck(c)
  BY <1>4, <1>7
<1>8. CASE c.state = "SynReceived" /\ d = EmitSegment(c, c.iss, {"Syn", "Ack"}, <<>>)
  <2> DEFINE y == EmitSegment(c, c.iss, {"Syn", "Ack"}, <<>>)
  <2>1. Handshake(c) /\ PeerKnown(c)
    BY <1>8 DEF Handshake, PeerKnown
  <2>2. Core(k, y) /\ Later(k, c, y) /\ Owed(y) /\ CovOK(k, y)
    BY <1>1, <2>1, SynLeaves
  <2> HIDE DEF y
  <2>3. Fine(k, c, y)
    BY <2>2, CoreGood DEF Fine
  <2> QED BY <1>8, <2>3 DEF y
<1>9. CASE \E e : d = Terminate(c, e)
  BY <1>1, <1>9, TerminateFine
<1>10. CASE /\ c.state = "SynReceived" /\ "Rst" \notin seg.flags /\ "Ack" \in seg.flags
            /\ d = OnSynReceivedAck(c, seg)
  BY <1>1, <1>10, OnSynReceivedAckFine
<1>11. CASE /\ c.state \notin {"SynSent", "SynReceived", "TimeWait"}
            /\ "Rst" \notin seg.flags /\ "Ack" \in seg.flags /\ d = OnAck(c, seg)
  <2>1. PeerKnown(c) /\ ~Handshake(c) /\ Core0(k, c)
    BY <1>1, <1>3, <1>11, CoreIsCore0 DEF Handshake
  <2> HIDE DEF d
  <2>2. Fine(k, c, OnAck(c, seg))
    BY <1>1, <1>11, <2>1, OnAckFine
  <2> QED BY <1>11, <2>2 DEF d
<1>12. \/ c.state = "SynSent"
       \/ c.state # "SynSent" /\ d = c
       \/ c.state # "SynSent" /\ d = SendAck(c)
       \/ c.state = "SynReceived" /\ d = EmitSegment(c, c.iss, {"Syn", "Ack"}, <<>>)
       \/ \E e : d = Terminate(c, e)
       \/ /\ c.state = "SynReceived" /\ "Rst" \notin seg.flags /\ "Ack" \in seg.flags
          /\ d = OnSynReceivedAck(c, seg)
       \/ /\ c.state \notin {"SynSent", "SynReceived", "TimeWait"}
          /\ "Rst" \notin seg.flags /\ "Ack" \in seg.flags /\ d = OnAck(c, seg)
  <2>1. SynAgain(c, seg) => c.state = "SynReceived"
    BY DEF SynAgain
  <2>2. Refuse(c, seg) = c \/ Refuse(c, seg) = SendAck(c)
    BY DEF Refuse
  <2>3. OnReset(c, seg) = SendAck(c) \/ \E e : OnReset(c, seg) = Terminate(c, e)
    BY DEF OnReset
  <2> QED BY <2>1, <2>2, <2>3 DEF OnSegment
<1> QED BY <1>5, <1>6, <1>7, <1>8, <1>9, <1>10, <1>11, <1>12

-----------------------------------------------------------------------------
(* OnTimer. *)

\* What a timeout changes of the congestion state.
LEMMA BacksFrame ==
    ASSUME NEW c, DOMAIN c = Fields, NEW s
    PROVE  Backs(c, [c EXCEPT !.retries = @ + 1, !.ssthresh = s, !.cwnd = Mss,
                              !.in_recovery = FALSE, !.dupacks = 0], s)
BY DEF Backs, Same, CongestionFields, Fields, NewConnection

\* What going back to the first unacknowledged byte changes.
LEMMA RewindFrame ==
    ASSUME NEW c, DOMAIN c = Fields, NEW s
    PROVE  Rewound(Backed(c, s), Back(c, s), c.snd_una)
BY DEF Rewound, Backed, Back, Same, Fields, NewConnection

\* What it leaves alone.
LEMMA NxtSame ==
    ASSUME NEW c, NEW d, Same(c, d, {"snd_nxt"})
    PROVE  /\ DOMAIN d = Fields
           /\ d.state = c.state /\ d.iss = c.iss /\ d.snd_una = c.snd_una /\ d.snd_max = c.snd_max
           /\ d.buf_seq = c.buf_seq /\ d.send_buf = c.send_buf /\ d.fin_queued = c.fin_queued
           /\ d.snd_wnd = c.snd_wnd /\ d.cwnd = c.cwnd /\ d.ssthresh = c.ssthresh
           /\ d.retries = c.retries /\ d.unacked_segments = c.unacked_segments
           /\ d.irs = c.irs /\ d.rcv_nxt = c.rcv_nxt /\ d.rcv_offset = c.rcv_offset
           /\ d.recv_buf = c.recv_buf /\ d.out_of_order = c.out_of_order
           /\ d.peer_fin_seq = c.peer_fin_seq /\ d.fin_received = c.fin_received /\ d.out = c.out
           /\ d.in_recovery = c.in_recovery /\ d.recover = c.recover
           /\ d.retransmit = c.retransmit /\ d.persist = c.persist
           /\ d.delayed_ack = c.delayed_ack /\ d.time_wait = c.time_wait
           /\ Una(d) = Una(c) /\ Top(d) = Top(c) /\ Buf(d) = Buf(c) /\ End(d) = End(c)
           /\ \A k : Pos(k, d) = Pos(k, c)
BY DEF Same, Fields, NewConnection, Una, Top, Buf, End, Pos

\* Going back to the first number that is not acknowledged.
LEMMA RewindCore ==
    ASSUME NEW k, NEW c, Core(k, c), PeerKnown(c), ~Handshake(c),
           NEW d, Same(c, d, {"snd_nxt"}), d.snd_nxt = c.snd_una
    PROVE  Core(k, d) /\ Later(k, c, d) /\ d.state = c.state /\ (Owed(c) => Owed(d))
<1>1. /\ DOMAIN d = Fields
      /\ d.state = c.state /\ d.iss = c.iss /\ d.snd_una = c.snd_una /\ d.snd_max = c.snd_max
      /\ d.buf_seq = c.buf_seq /\ d.send_buf = c.send_buf /\ d.fin_queued = c.fin_queued
      /\ d.snd_wnd = c.snd_wnd /\ d.cwnd = c.cwnd /\ d.ssthresh = c.ssthresh
      /\ d.retries = c.retries /\ d.unacked_segments = c.unacked_segments
      /\ d.irs = c.irs /\ d.rcv_nxt = c.rcv_nxt /\ d.rcv_offset = c.rcv_offset
      /\ d.recv_buf = c.recv_buf /\ d.out_of_order = c.out_of_order
      /\ d.peer_fin_seq = c.peer_fin_seq /\ d.fin_received = c.fin_received /\ d.out = c.out
      /\ d.in_recovery = c.in_recovery /\ d.recover = c.recover
      /\ d.retransmit = c.retransmit /\ d.persist = c.persist
      /\ d.delayed_ack = c.delayed_ack /\ d.time_wait = c.time_wait
      /\ Una(d) = Una(c) /\ Top(d) = Top(c) /\ Buf(d) = Buf(c) /\ End(d) = End(c)
      /\ Pos(k, d) = Pos(k, c)
  BY NxtSame
<1>2. Typed(c) /\ IsAround(k) /\ c.state # "Closed"
  BY DEF Core
<1> HIDE DEF Same
<1>3. Typed(d)
  <2>1. /\ c.fin_queued \in BOOLEAN /\ c.retransmit \in BOOLEAN /\ c.persist \in BOOLEAN
        /\ c.delayed_ack \in BOOLEAN /\ c.time_wait \in BOOLEAN /\ c.fin_received \in BOOLEAN
    BY <1>2, Zenon DEF Typed
  <2>2. /\ d.fin_queued \in BOOLEAN /\ d.retransmit \in BOOLEAN /\ d.persist \in BOOLEAN
        /\ d.delayed_ack \in BOOLEAN /\ d.time_wait \in BOOLEAN /\ d.fin_received \in BOOLEAN
    BY <1>1, <2>1, Zenon
  <2> QED BY <1>1, <1>2, <2>2 DEF Typed
<1>4. Nxt(d) = Una(d)
  BY <1>1 DEF Nxt, Una
<1>5. Later(k, c, d)
  <2>1. /\ Pos(k, c) \in Nat /\ Len(c.recv_buf) \in Nat /\ Horizon(c) \in Int /\ Buf(c) \in Nos
        /\ Buf(c) \in Int
    BY <1>2, PosType, OffsetType, HalfIsHalf DEF Nos
  <2>2. Horizon(d) = Horizon(c)
    BY <1>1 DEF Horizon
  <2> QED BY <1>1, <2>1, <2>2 DEF Later
<1>6. OutOK(k, d)
  BY <1>1, <1>2, <1>3, <1>5, LaterGrows, OutKept DEF Core
<1>7. AckOK(k, d) /\ ArrOK(k, d)
  BY <1>1 DEF Core, AckOK, ArrOK
<1>8. SndOK(k, d)
  <2>1. End(d) = Len(k.sent) + 1 /\ d.send_buf = SubSeq(k.sent, Buf(d), Len(k.sent))
    BY <1>1 DEF Core, SndOK
  <2>2. Una(d) <= Nxt(d) /\ Nxt(d) <= Top(d) /\ Top(d) <= End(d) + One(d.fin_queued)
    BY <1>1, <1>4, CorePlaces
  <2>3. Una(d) = Buf(d) \/ Una(d) = Buf(d) + 1
    <3>1. (Buf(c) <= Una(c) /\ Una(c) <= Buf(c) + 1) \/ Una(c) = Buf(c) \/ Una(c) = Buf(c) + 1
      BY CoreReady DEF Core, SndOK, AckOK
    <3> QED BY <1>1, <3>1, CorePlaces
  <2> QED BY <2>1, <2>2, <2>3 DEF SndOK
<1>9. RcvOK(k, d)
  BY <1>1 DEF Core, RcvOK, PeerKnown, Accepting, Receiving
<1>10. StateOK(d) /\ TimOK(d)
  BY <1>1 DEF Core, StateOK, NumsOK, TimOK, Timed, Quiet, PeerKnown, Handshake
<1>11. Core(k, d)
  BY <1>1, <1>2, <1>3, <1>6, <1>7, <1>8, <1>9, <1>10 DEF Core
<1> QED BY <1>1, <1>5, <1>11 DEF Owed, Receiving

\* What a change of the retransmission timer changes.
LEMMA RunningFrame ==
    ASSUME NEW c, DOMAIN c = Fields, NEW b
    PROVE  LET d == [c EXCEPT !.retransmit = b]
           IN  Same(c, d, {"retransmit"}) /\ d.retransmit = b
BY DEF Same, Fields, NewConnection

\* What it leaves alone.
LEMMA RunningSame ==
    ASSUME NEW c, NEW d, Same(c, d, {"retransmit"})
    PROVE  /\ Same(c, d, SideFields) /\ d.state = c.state /\ d.snd_wnd = c.snd_wnd
           /\ d.cwnd = c.cwnd /\ d.ssthresh = c.ssthresh /\ d.retries = c.retries
           /\ d.in_recovery = c.in_recovery /\ d.recover = c.recover
           /\ d.unacked_segments = c.unacked_segments /\ d.persist = c.persist
           /\ d.delayed_ack = c.delayed_ack /\ d.time_wait = c.time_wait
BY DEF Same, SideFields, Fields, NewConnection

\* One timer more does no harm.
LEMMA RunningFine ==
    ASSUME NEW k, NEW c, Core(k, c), PeerKnown(c), Owed(c),
           NEW d, d = [c EXCEPT !.retransmit = TRUE]
    PROVE  Fine(k, c, d)
<1> DEFINE on == TRUE
<1>1. DOMAIN c = Fields
  BY DEF Core, Typed
<1>2. Same(c, d, {"retransmit"}) /\ d.retransmit
  <2>1. d = [c EXCEPT !.retransmit = on] /\ on
    OBVIOUS
  <2> HIDE DEF on
  <2>2. Same(c, [c EXCEPT !.retransmit = on], {"retransmit"})
        /\ [c EXCEPT !.retransmit = on].retransmit = on
    BY <1>1, RunningFrame
  <2> QED BY ONLY <2>1, <2>2, Zenon
<1>3. /\ Same(c, d, SideFields) /\ d.state = c.state /\ d.snd_wnd = c.snd_wnd
      /\ d.cwnd = c.cwnd /\ d.ssthresh = c.ssthresh /\ d.retries = c.retries
      /\ d.in_recovery = c.in_recovery /\ d.recover = c.recover
      /\ d.unacked_segments = c.unacked_segments /\ d.persist = c.persist
      /\ d.delayed_ack = c.delayed_ack /\ d.time_wait = c.time_wait
  BY <1>2, RunningSame
<1>4. /\ d.iss = c.iss /\ d.rcv_nxt = c.rcv_nxt /\ d.snd_una = c.snd_una /\ d.snd_max = c.snd_max
      /\ Una(d) = Una(c) /\ Top(d) = Top(c) /\ Buf(d) = Buf(c) /\ d.fin_received = c.fin_received
  BY <1>3, SideSame
<1> HIDE DEF Same
<1>5. d.retransmit \in BOOLEAN
  <2>1. d.retransmit = TRUE
    BY <1>1, Zenon DEF Fields, NewConnection
  <2> QED BY <2>1, Booleans, Zenon
<1>6. SideTyped(d)
  <2>1. c.persist \in BOOLEAN /\ c.delayed_ack \in BOOLEAN /\ c.time_wait \in BOOLEAN
    BY Zenon DEF Core, Typed
  <2>2. d.persist \in BOOLEAN /\ d.delayed_ack \in BOOLEAN /\ d.time_wait \in BOOLEAN
    BY <1>3, <2>1, Zenon
  <2>3. c.snd_wnd \in Nat /\ c.unacked_segments \in Nat /\ c.state \in States
        /\ c.cwnd \in Nat /\ c.ssthresh \in Nat \ {0} /\ c.retries \in Nat
    BY DEF Core, Typed
  <2> QED BY ONLY <1>3, <1>5, <2>2, <2>3 DEF SideTyped
<1>7. StateOK(d)
  BY <1>3, <1>4 DEF Core, StateOK, NumsOK, PeerKnown, Handshake
<1>8. TimOK(d)
  BY <1>2, <1>3 DEF Core, TimOK, Timed, Quiet, PeerKnown
<1>9. (PeerKnown(d) <=> PeerKnown(c)) /\ (d.fin_received => ~Accepting(d)) /\ d.state # "Closed"
  BY <1>3, <1>4 DEF Core, RcvOK, PeerKnown, Accepting, Receiving
<1>10. Core(k, d) /\ Later(k, c, d)
  BY <1>3, <1>6, <1>7, <1>8, <1>9, CoreSide
<1>11. Owed(d) /\ CovOK(k, d)
  BY <1>2, <1>3 DEF Owed, CovOK, Receiving
<1> QED BY <1>10, <1>11, CoreGood DEF Fine

\* The slow start threshold stays positive.
LEMMA ThresholdType ==
    ASSUME NEW c, Typed(c)
    PROVE  Least(Threshold(c), CwndCap) \in Nat \ {0}
<1> DEFINE flight == SeqSub(c.snd_max, c.snd_una)
           half == flight \div 2
           t == Greatest(half, 2 * Mss)
<1>1. flight \in Nos
  BY SubCases DEF Typed
<1>2. flight \in Nat
  <2> HIDE DEF flight
  <2> QED BY <1>1 DEF Nos
<1>3. half \in Int
  <2> HIDE DEF flight
  <2> QED BY <1>2
<1>4. 2 * Mss \in Int /\ 2 * Mss > 0 /\ CwndCap \in Int /\ CwndCap > 0
  BY Sizes
<1>5. t \in Int /\ t > 0
  <2> HIDE DEF half
  <2> QED BY <1>3, <1>4 DEF Greatest
<1>6. Threshold(c) = t
  BY DEF Threshold
<1> HIDE DEF t
<1> QED BY <1>4, <1>5, <1>6 DEF Least

\* What counting a retry changes.
LEMMA AgainFrame ==
    ASSUME NEW c, DOMAIN c = Fields
    PROVE  LET d == [c EXCEPT !.retries = @ + 1]
           IN  /\ Same(c, d, CongestionFields) /\ d.cwnd = c.cwnd /\ d.ssthresh = c.ssthresh
               /\ d.retries = c.retries + 1 /\ d.in_recovery = c.in_recovery
               /\ d.recover = c.recover
BY DEF Same, CongestionFields, Fields, NewConnection

\* In the handshake a timeout sends the SYN or the SYN-ACK again.
LEMMA SynTimeoutFine ==
    ASSUME NEW k, NEW c, Core(k, c), Handshake(c), Owed(c), NEW flags,
           \/ flags = {"Syn"} /\ c.state = "SynSent"
           \/ flags = {"Syn", "Ack"} /\ c.state = "SynReceived"
    PROVE  Fine(k, c, EmitSegment([c EXCEPT !.retries = @ + 1], c.iss, flags, <<>>))
<1> DEFINE a == [c EXCEPT !.retries = @ + 1]
           d == EmitSegment(a, c.iss, flags, <<>>)
<1>1. DOMAIN c = Fields /\ c.retries \in Nat /\ c.ssthresh \in Nat \ {0} /\ c.cwnd \in Nat
  BY DEF Core, Typed
<1>2. /\ Same(c, a, CongestionFields) /\ a.cwnd = c.cwnd /\ a.ssthresh = c.ssthresh
      /\ a.retries = c.retries + 1 /\ a.in_recovery = c.in_recovery /\ a.recover = c.recover
  BY <1>1, AgainFrame
<1>3. c.in_recovery => c.recover \in Nos /\ SeqSub(c.recover, c.iss) <= Top(c)
  BY DEF Core, StateOK, NumsOK
<1> HIDE DEF a
<1>4. Core(k, a) /\ Later(k, c, a) /\ Owed(a) /\ a.state = c.state /\ a.iss = c.iss
  <2>1. Same(c, a, SideFields) /\ a.state = c.state
    BY <1>2, CongestionSame
  <2>2. a.iss = c.iss
    BY <2>1, SideSame
  <2>3. Core(k, a) /\ Later(k, c, a)
    <3>1. /\ a.fin_received = c.fin_received /\ Una(a) = Una(c) /\ Top(a) = Top(c)
          /\ Buf(a) = Buf(c) /\ a.snd_una = c.snd_una /\ a.snd_max = c.snd_max
      BY <2>1, SideSame
    <3>2. /\ a.snd_wnd = c.snd_wnd /\ a.retransmit = c.retransmit
          /\ a.persist = c.persist /\ a.delayed_ack = c.delayed_ack /\ a.time_wait = c.time_wait
          /\ a.unacked_segments = c.unacked_segments
      BY <1>2, CongestionSame
    <3>3. SideTyped(a)
      <4>1. /\ c.retransmit \in BOOLEAN /\ c.persist \in BOOLEAN
            /\ c.delayed_ack \in BOOLEAN /\ c.time_wait \in BOOLEAN
        BY Zenon DEF Core, Typed
      <4>2. /\ a.retransmit \in BOOLEAN /\ a.persist \in BOOLEAN
            /\ a.delayed_ack \in BOOLEAN /\ a.time_wait \in BOOLEAN
        BY <3>2, <4>1, Zenon
      <4>3. c.snd_wnd \in Nat /\ c.unacked_segments \in Nat /\ c.state \in States
        BY DEF Core, Typed
      <4>4. a.retries \in Nat
        BY <1>1, <1>2
      <4> QED BY ONLY <1>1, <1>2, <2>1, <3>2, <4>2, <4>3, <4>4 DEF SideTyped
    <3> HIDE DEF Same
    <3>4. StateOK(a) /\ TimOK(a)
      BY <1>2, <2>1, <2>2, <3>1, <3>2
         DEF Core, StateOK, NumsOK, TimOK, Timed, Quiet, PeerKnown, Handshake
    <3>5. (PeerKnown(a) <=> PeerKnown(c)) /\ (a.fin_received => ~Accepting(a))
          /\ a.state # "Closed"
      BY <2>1, <3>1 DEF Core, RcvOK, PeerKnown, Accepting, Receiving
    <3> QED BY <2>1, <3>3, <3>4, <3>5, CoreSide
  <2>4. Owed(a)
    <3>1. a.delayed_ack = c.delayed_ack /\ a.unacked_segments = c.unacked_segments
      BY <1>2, CongestionSame
    <3> QED BY <2>1, <3>1 DEF Owed, Receiving
  <2> QED BY <2>1, <2>2, <2>3, <2>4
<1>5. Handshake(a) /\ (flags = {"Syn"} \/ (flags = {"Syn", "Ack"} /\ PeerKnown(a)))
  BY <1>4 DEF Handshake, PeerKnown
<1> DEFINE y == EmitSegment(a, a.iss, flags, <<>>)
<1>6. Core(k, y) /\ Later(k, a, y) /\ (Owed(a) => Owed(y)) /\ CovOK(k, y)
  BY <1>4, <1>5, SynLeaves
<1> HIDE DEF y
<1>7. Fine(k, a, y)
  BY <1>4, <1>6, CoreGood DEF Fine
<1>8. Fine(k, c, y)
  BY <1>4, <1>7, FineTwice
<1>9. d = y
  BY <1>4 DEF y
<1> QED BY <1>8, <1>9 DEF a

\* A connection that ends has no timer left.
LEMMA TerminateStill ==
    ASSUME NEW k, NEW c, Base(k, c), NEW error
    PROVE  ~Terminate(c, error).persist
<1>1. DOMAIN c = Fields
  BY DEF Base, Typed
<1>2. Ends(c, Terminate(c, error))
  BY <1>1, TerminateFrame
<1> QED BY <1>2, Zenon DEF Ends

\* The retransmission timeout of a connection past the handshake: back to the first number unanswered.
LEMMA BackFine ==
    ASSUME NEW k, NEW c, Core(k, c), PeerKnown(c), ~Handshake(c), Owed(c)
    PROVE  LET d == [TrySend(Back(c, Least(Threshold(c), CwndCap))) EXCEPT !.retransmit = TRUE]
           IN  Fine(k, c, d) /\ d.state = c.state
<1> DEFINE s == Least(Threshold(c), CwndCap)
           b == Backed(c, s)
           back == Back(c, s)
           e == TrySend(back)
           d == [e EXCEPT !.retransmit = TRUE]
<1>1. DOMAIN c = Fields /\ Typed(c) /\ c.retries \in Nat
  BY DEF Core, Typed
<1>2. s \in Nat \ {0}
  BY <1>1, ThresholdType
<1> HIDE DEF s
<1>3. Backs(c, b, s)
  BY <1>1, BacksFrame DEF Backed
<1>4. Same(b, back, {"snd_nxt"}) /\ back.snd_nxt = c.snd_una
  BY <1>1, RewindFrame DEF Rewound
<1> HIDE DEF b, back
<1>5. Acked(k, c, b) /\ b.snd_una = c.snd_una
  <2>1. /\ Same(c, b, CongestionFields) /\ b.cwnd = Mss /\ b.ssthresh = s
        /\ b.retries = c.retries + 1 /\ b.snd_una = c.snd_una
    BY <1>3, Zenon DEF Backs
  <2>2. ~b.in_recovery
    BY <1>3, Zenon DEF Backs
  <2>3. b.cwnd \in Nat \ {0} /\ b.ssthresh \in Nat \ {0} /\ b.retries \in Nat
    BY <1>1, <1>2, <2>1, Sizes
  <2> HIDE DEF Same
  <2> QED BY <2>1, <2>2, <2>3, CongestionCore
<1>6. Core(k, b) /\ Later(k, c, b) /\ PeerKnown(b) /\ ~Handshake(b) /\ Owed(b) /\ b.state = c.state
  BY <1>5 DEF Acked, PeerKnown, Handshake
<1>7. Core(k, back) /\ Later(k, b, back) /\ back.state = b.state /\ Owed(back)
  BY <1>4, <1>5, <1>6, RewindCore
<1>8. PeerKnown(back) /\ ~Handshake(back)
  BY <1>6, <1>7 DEF PeerKnown, Handshake
<1>9. Fine(k, back, e) /\ e.state = back.state
  BY <1>7, <1>8, TrySendFine
<1> HIDE DEF e
<1>10. Core(k, e) /\ Owed(e) /\ CovOK(k, e) /\ PeerKnown(e)
  <2>1. IsAround(k) /\ Good(k, e) /\ e.state # "Closed"
    BY <1>7, <1>9 DEF Fine, Core
  <2>2. PeerKnown(e)
    BY <1>8, <1>9 DEF PeerKnown
  <2> QED BY <2>1, <2>2, GoodCore
<1>11. Fine(k, e, d)
  BY <1>10, RunningFine
<1>12. d.state = e.state
  <2>1. DOMAIN e = Fields
    BY <1>10 DEF Core, Typed
  <2> QED BY <2>1 DEF Fields, NewConnection
<1> HIDE DEF d
<1>13. Fine(k, c, d)
  <2>1. Fine(k, b, d)
    <3>1. Later(k, back, e)
      BY <1>9 DEF Fine
    <3>2. Fine(k, back, d)
      BY <1>7, <1>10, <1>11, <3>1, FineTwice
    <3> QED BY <1>6, <1>7, <3>2, FineTwice
  <2> QED BY <1>6, <2>1, FineTwice
<1> QED BY <1>6, <1>7, <1>9, <1>12, <1>13 DEF d, e, back, s

\* OnRetransmitTimeout is fine, giving up included.
LEMMA OnRetransmitTimeoutFine ==
    ASSUME NEW k, NEW c, Core(k, c), c.state \notin {"None", "Listen"}, Owed(c), CovOK(k, c)
    PROVE  LET d == OnRetransmitTimeout(c)
           IN  Fine(k, c, d) /\ (d.state # "Closed" \/ ~d.persist)
<1> DEFINE limit == IF Handshake(c) THEN SynRetries ELSE DataRetries
           again == [c EXCEPT !.retries = @ + 1]
           back == Back(c, Least(Threshold(c), CwndCap))
           last == IF Synchronized(c) THEN EmitReset(c, c.snd_max) ELSE c
           d == OnRetransmitTimeout(c)
<1>1. /\ (c.retries >= limit => d = Terminate(last, "TimedOut"))
      /\ (~(c.retries >= limit) /\ c.state = "SynSent" =>
              d = EmitSegment(again, c.iss, {"Syn"}, <<>>))
      /\ (~(c.retries >= limit) /\ c.state = "SynReceived" =>
              d = EmitSegment(again, c.iss, {"Syn", "Ack"}, <<>>))
      /\ (~(c.retries >= limit) /\ ~Handshake(c) =>
              d = [TrySend(back) EXCEPT !.retransmit = TRUE])
  <2> HIDE DEF back
  <2>1. c.retries \in Int /\ limit \in Int
    BY Sizes DEF Core, Typed
  <2>2. ~(c.retries >= limit) <=> c.retries < limit
    BY <2>1
  <2>3. d = CASE c.retries >= limit -> Terminate(last, "TimedOut")
              [] c.retries < limit /\ c.state = "SynSent" ->
                      EmitSegment(again, c.iss, {"Syn"}, <<>>)
              [] c.retries < limit /\ c.state = "SynReceived" ->
                      EmitSegment(again, c.iss, {"Syn", "Ack"}, <<>>)
              [] OTHER -> [TrySend(back) EXCEPT !.retransmit = TRUE]
    BY DEF OnRetransmitTimeout, Threshold, back, Back
  <2> DEFINE syn == EmitSegment(again, c.iss, {"Syn"}, <<>>)
             synack == EmitSegment(again, c.iss, {"Syn", "Ack"}, <<>>)
             resent == [TrySend(back) EXCEPT !.retransmit = TRUE]
             ended == Terminate(last, "TimedOut")
  <2> HIDE DEF limit, syn, synack, resent, ended, d
  <2>4. d = CASE c.retries >= limit -> ended
              [] c.retries < limit /\ c.state = "SynSent" -> syn
              [] c.retries < limit /\ c.state = "SynReceived" -> synack
              [] OTHER -> resent
    BY <2>3 DEF syn, synack, resent, ended
  <2>5. /\ (c.retries >= limit => d = ended)
        /\ (~(c.retries >= limit) /\ c.state = "SynSent" => d = syn)
        /\ (~(c.retries >= limit) /\ c.state = "SynReceived" => d = synack)
        /\ (~(c.retries >= limit) /\ ~Handshake(c) => d = resent)
    BY <2>2, <2>4 DEF Handshake
  <2> QED BY <2>5 DEF syn, synack, resent, ended
<1>2. CASE c.retries >= limit
  <2>1. Base(k, last) /\ Fine(k, c, last)
    <3>1. CASE Synchronized(c)
      <4>1. PeerKnown(c)
        BY <3>1 DEF PeerKnown, Synchronized
      <4>2. c.snd_max \in Int
        BY HalfIsHalf DEF Core, Typed, Nos
      <4>3. Fine(k, c, last)
        BY <3>1, <4>1, <4>2, ResetFine
      <4>4. Base(k, last)
        BY <4>3, GoodCore DEF Fine, Core
      <4> QED BY <4>3, <4>4
    <3>2. CASE ~Synchronized(c)
      <4>1. Good(k, c) /\ IsAround(k)
        BY CoreGood DEF Core
      <4> QED BY <3>2, <4>1, CoreBase, FineSelf
    <3> QED BY <3>1, <3>2
  <2>2. Fine(k, last, d) /\ ~d.persist
    <3> DEFINE e == "TimedOut"
    <3> HIDE DEF e
    <3>1. Fine(k, last, Terminate(last, e)) /\ ~Terminate(last, e).persist
      BY <2>1, TerminateFine, TerminateStill
    <3>2. d = Terminate(last, e)
      BY <1>1, <1>2 DEF e
    <3> QED BY ONLY <3>1, <3>2
  <2>3. Fine(k, c, d)
    <3>1. IsAround(k) /\ Typed(c) /\ Typed(last) /\ Typed(d)
      BY <2>1, <2>2 DEF Core, Base, Fine, Good
    <3>2. Later(k, c, d)
      BY <2>1, <2>2, <3>1, LaterTwice DEF Fine
    <3> QED BY <2>2, <3>2 DEF Fine
  <2> QED BY <2>2, <2>3
<1>3. CASE ~(c.retries >= limit) /\ Handshake(c)
  <2>1. CASE c.state = "SynSent"
    <3>1. Fine(k, c, EmitSegment(again, c.iss, {"Syn"}, <<>>))
      BY <1>3, <2>1, SynTimeoutFine
    <3>2. d = EmitSegment(again, c.iss, {"Syn"}, <<>>)
      BY <1>1, <1>3, <2>1
    <3>3. d.state = c.state
      <4>1. DOMAIN c = Fields
        BY DEF Core, Typed
      <4> QED BY <3>2, <4>1 DEF EmitSegment, Fields, NewConnection
    <3> QED BY <3>1, <3>2, <3>3 DEF Core
  <2>2. CASE c.state = "SynReceived"
    <3>1. Fine(k, c, EmitSegment(again, c.iss, {"Syn", "Ack"}, <<>>))
      BY <1>3, <2>2, SynTimeoutFine
    <3>2. d = EmitSegment(again, c.iss, {"Syn", "Ack"}, <<>>)
      BY <1>1, <1>3, <2>2
    <3>3. d.state = c.state
      <4>1. DOMAIN c = Fields
        BY DEF Core, Typed
      <4> QED BY <3>2, <4>1 DEF EmitSegment, Fields, NewConnection
    <3> QED BY <3>1, <3>2, <3>3 DEF Core
  <2> QED BY <1>3, <2>1, <2>2 DEF Handshake
<1>4. CASE ~(c.retries >= limit) /\ ~Handshake(c)
  <2>1. PeerKnown(c)
    BY <1>4 DEF PeerKnown, Handshake, Core
  <2>2. d = [TrySend(back) EXCEPT !.retransmit = TRUE]
    BY <1>1, <1>4
  <2>3. Fine(k, c, [TrySend(back) EXCEPT !.retransmit = TRUE])
        /\ [TrySend(back) EXCEPT !.retransmit = TRUE].state = c.state
    BY <1>4, <2>1, BackFine
  <2> HIDE DEF back, d
  <2>4. c.state # "Closed"
    BY DEF Core
  <2>5. Fine(k, c, d) /\ d.state # "Closed"
    BY ONLY <2>2, <2>3, <2>4
  <2> QED BY <2>5 DEF d
<1> QED BY <1>2, <1>3, <1>4

\* The window probe: an ACK with the number before the first that is not acknowledged.
LEMMA ProbeFine ==
    ASSUME NEW k, NEW c, Core(k, c), PeerKnown(c), Owed(c), CovOK(k, c)
    PROVE  Fine(k, c, EmitSegment(c, c.snd_una - 1, {"Ack"}, <<>>))
<1> DEFINE n == c.snd_una - 1
           flags == {"Ack"}
           data == <<>>
           h == Top(c)
           d == EmitSegment(c, n, flags, data)
<1>1. Acks(k, c)
  BY CoreAcks
<1>2. n \in Int
  BY HalfIsHalf DEF Core, Typed, Nos
<1>3. h \in Nat
  BY CorePlaces
<1> HIDE DEF h, n
<1>4. Belongs(k.iss, k.irs, k.sent, c.fin_queued, Pos(k, c), h, Emitted(c, n, flags, data))
  BY <1>1, <1>2, <1>3, AckBelongs
<1> HIDE DEF flags, data
<1>5. Resends(k, c, d)
  BY <1>1, <1>3, <1>4, Resent DEF h
<1> HIDE DEF d
<1>6. Sent(k, c, d) /\ d.persist = c.persist
  BY <1>5 DEF Resends
<1>7. Core(k, d) /\ Later(k, c, d) /\ Owed(d) /\ CovOK(k, d)
  BY <1>6, CoreSent
<1>8. Fine(k, c, d)
  BY <1>7, CoreGood DEF Fine
<1> QED BY <1>8 DEF d, n, flags, data

\* OnTimer by the timers that are due.
LEMMA OnTimerCases ==
    ASSUME NEW c, NEW due
    PROVE  LET answered == IF "delayed_ack" \in due THEN SendAck(c) ELSE c
               retried == IF "retransmit" \in due THEN OnRetransmitTimeout(answered) ELSE answered
           IN  \/ "time_wait" \in due /\ OnTimer(c, due) = [ClearTimers(c) EXCEPT !.state = "Closed"]
               \/ /\ "time_wait" \notin due /\ retried.persist
                  /\ OnTimer(c, due) = EmitSegment(retried, retried.snd_una - 1, {"Ack"}, <<>>)
               \/ "time_wait" \notin due /\ OnTimer(c, due) = retried
<1> DEFINE answered == IF "delayed_ack" \in due THEN SendAck(c) ELSE c
           retried == IF "retransmit" \in due THEN OnRetransmitTimeout(answered) ELSE answered
           ended == [ClearTimers(c) EXCEPT !.state = "Closed"]
           probe == EmitSegment(retried, retried.snd_una - 1, {"Ack"}, <<>>)
<1>1. OnTimer(c, due) = CASE "time_wait" \in due -> ended
                          [] "time_wait" \notin due /\ "persist" \in due /\ retried.persist -> probe
                          [] OTHER -> retried
  BY DEF OnTimer
<1> HIDE DEF retried, ended, probe
<1>2. \/ "time_wait" \in due /\ OnTimer(c, due) = ended
      \/ "time_wait" \notin due /\ retried.persist /\ OnTimer(c, due) = probe
      \/ "time_wait" \notin due /\ OnTimer(c, due) = retried
  BY <1>1
<1> QED BY <1>2 DEF retried, ended, probe

\* Whatever timers go off together, the connection stays whole.
LEMMA OnTimerFine ==
    ASSUME NEW k, NEW c, Core(k, c), Owed(c), CovOK(k, c), NEW due, due \subseteq Armed(c)
    PROVE  Fine(k, c, OnTimer(c, due))
<1> DEFINE answered == IF "delayed_ack" \in due THEN SendAck(c) ELSE c
           retried == IF "retransmit" \in due THEN OnRetransmitTimeout(answered) ELSE answered
           d == OnTimer(c, due)
<1>1. /\ "delayed_ack" \in due => c.delayed_ack
      /\ "retransmit" \in due => c.retransmit
      /\ "time_wait" \in due => c.time_wait
  <2>1. /\ "delayed_ack" \in due => c["delayed_ack"]
        /\ "retransmit" \in due => c["retransmit"]
        /\ "time_wait" \in due => c["time_wait"]
    BY Zenon DEF Armed
  <2> QED BY <2>1, Zenon
<1>2. Good(k, c) /\ IsAround(k) /\ Fine(k, c, c) /\ c.state # "Closed" /\ Quiet(c)
  BY CoreGood, FineSelf DEF Core, TimOK
<1>3. Fine(k, c, answered) /\ answered.state = c.state
  <2>1. CASE "delayed_ack" \in due
    <3>1. PeerKnown(c)
      BY <1>1, <1>2, <2>1 DEF Quiet
    <3>2. Fine(k, c, SendAck(c)) /\ SendAck(c).state = c.state
      BY <3>1, SendAckFine, SendAckMoved
    <3> QED BY <2>1, <3>2
  <2>2. CASE "delayed_ack" \notin due
    BY <1>2, <2>2
  <2> QED BY <2>1, <2>2
<1> HIDE DEF answered
<1>4. Core(k, answered) /\ Owed(answered) /\ CovOK(k, answered)
  BY <1>2, <1>3, GoodCore DEF Fine
<1>5. Fine(k, c, retried) /\ (retried.state # "Closed" \/ ~retried.persist)
  <2>1. CASE "retransmit" \in due
    <3>1. answered.state \notin {"None", "Listen"}
      BY <1>1, <1>2, <1>3, <2>1 DEF Quiet
    <3>2. Fine(k, answered, OnRetransmitTimeout(answered))
          /\ (OnRetransmitTimeout(answered).state # "Closed"
                  \/ ~OnRetransmitTimeout(answered).persist)
      BY <1>4, <3>1, OnRetransmitTimeoutFine
    <3>3. retried = OnRetransmitTimeout(answered)
      BY <2>1
    <3> HIDE DEF retried
    <3>4. Fine(k, answered, retried) /\ (retried.state # "Closed" \/ ~retried.persist)
      BY <3>2, <3>3
    <3> QED BY <1>3, <1>4, <3>4, FineTwice DEF Fine
  <2>2. CASE "retransmit" \notin due
    BY <1>2, <1>3, <2>2
  <2> QED BY <2>1, <2>2
<1>6. \/ "time_wait" \in due /\ d = [ClearTimers(c) EXCEPT !.state = "Closed"]
      \/ /\ "time_wait" \notin due /\ retried.persist
         /\ d = EmitSegment(retried, retried.snd_una - 1, {"Ack"}, <<>>)
      \/ "time_wait" \notin due /\ d = retried
  BY OnTimerCases DEF answered
<1> HIDE DEF retried, d
<1>7. CASE "time_wait" \in due /\ d = [ClearTimers(c) EXCEPT !.state = "Closed"]
  <2>1. c.state = "TimeWait"
    BY <1>1, <1>7 DEF Core, TimOK
  <2>2. Una(c) = Buf(c) + 1
    BY <2>1 DEF Core, StateOK, NumsOK
  <2>3. Fine(k, c, d)
    BY <1>7, <2>2, LastAckGood DEF Fine
  <2> QED BY <2>3 DEF d
<1>8. CASE retried.persist /\ d = EmitSegment(retried, retried.snd_una - 1, {"Ack"}, <<>>)
  <2>1. retried.state # "Closed" /\ IsAround(k) /\ Good(k, retried)
    BY <1>2, <1>5, <1>8 DEF Fine
  <2>2. Core(k, retried) /\ Owed(retried) /\ CovOK(k, retried)
    BY <2>1, GoodCore
  <2>3. PeerKnown(retried)
    BY <1>8, <2>2 DEF Core, TimOK, Quiet
  <2>4. Fine(k, retried, d)
    BY <1>8, <2>2, <2>3, ProbeFine
  <2>5. Fine(k, c, d)
    BY <1>5, <2>2, <2>4, FineTwice DEF Fine
  <2> QED BY <2>5 DEF d
<1>9. CASE d = retried
  BY <1>5, <1>9 DEF d
<1> QED BY <1>6, <1>7, <1>8, <1>9

-----------------------------------------------------------------------------
(* The calls of the application. *)

\* Whatever is left of a connection may be aborted.
LEMMA AbortFine ==
    ASSUME NEW k, IsAround(k), NEW c, Good(k, c), c.state \notin {"None", "Listen"}
    PROVE  Fine(k, c, Abort(c))
<1> DEFINE last == IF c.state \in {"Closed", "SynSent", "TimeWait"} THEN c
                   ELSE EmitReset(c, c.snd_max)
           e == "Ok"
           d == Terminate(last, e)
<1>1. Base(k, last) /\ Fine(k, c, last)
  <2>1. CASE c.state \in {"Closed", "SynSent", "TimeWait"}
    BY <2>1, GoodCore, FineSelf
  <2>2. CASE c.state \notin {"Closed", "SynSent", "TimeWait"}
    <3>1. Core(k, c) /\ Owed(c) /\ CovOK(k, c) /\ PeerKnown(c)
      BY <2>2, GoodCore DEF PeerKnown
    <3>2. c.snd_max \in Int
      BY <3>1, HalfIsHalf DEF Core, Typed, Nos
    <3>3. Fine(k, c, last)
      BY <2>2, <3>1, <3>2, ResetFine
    <3> QED BY <3>3, GoodCore DEF Fine
  <2> QED BY <2>1, <2>2
<1> HIDE DEF last, e
<1>2. Fine(k, last, d)
  BY <1>1, TerminateFine
<1>3. Fine(k, c, d)
  <2>1. Typed(c) /\ Typed(last) /\ Typed(d)
    BY <1>1, <1>2 DEF Base, Fine, Good
  <2>2. Later(k, c, d)
    BY <1>1, <1>2, <2>1, LaterTwice DEF Fine
  <2> QED BY <1>2, <2>2 DEF Fine
<1>4. Abort(c) = d
  BY DEF Abort, last, e
<1> QED BY <1>3, <1>4

\* What queueing the FIN changes.
LEMMA QueueFrame ==
    ASSUME NEW c, DOMAIN c = Fields, NEW s
    PROVE  /\ DOMAIN [c EXCEPT !.state = s, !.fin_queued = TRUE] = Fields
           /\ Same([c EXCEPT !.state = s], [c EXCEPT !.state = s, !.fin_queued = TRUE],
                   {"fin_queued"})
           /\ [c EXCEPT !.state = s, !.fin_queued = TRUE].fin_queued
<1>1. [c EXCEPT !.state = s, !.fin_queued = TRUE].fin_queued
  BY Zenon DEF Fields, NewConnection
<1> DEFINE on == TRUE
<1> HIDE DEF on
<1>2. /\ DOMAIN [c EXCEPT !.state = s, !.fin_queued = on] = Fields
      /\ Same([c EXCEPT !.state = s], [c EXCEPT !.state = s, !.fin_queued = on],
              {"fin_queued"})
  BY DEF Same, Fields, NewConnection
<1> QED BY <1>1, <1>2 DEF on

\* What it leaves alone.
LEMMA QueueSame ==
    ASSUME NEW c, NEW d, Same(c, d, {"fin_queued"})
    PROVE  /\ DOMAIN d = Fields
           /\ d.state = c.state /\ d.iss = c.iss /\ d.snd_una = c.snd_una /\ d.snd_nxt = c.snd_nxt
           /\ d.snd_max = c.snd_max
           /\ d.buf_seq = c.buf_seq /\ d.send_buf = c.send_buf
           /\ d.snd_wnd = c.snd_wnd /\ d.cwnd = c.cwnd /\ d.ssthresh = c.ssthresh
           /\ d.retries = c.retries /\ d.unacked_segments = c.unacked_segments
           /\ d.irs = c.irs /\ d.rcv_nxt = c.rcv_nxt /\ d.rcv_offset = c.rcv_offset
           /\ d.recv_buf = c.recv_buf /\ d.out_of_order = c.out_of_order
           /\ d.peer_fin_seq = c.peer_fin_seq /\ d.fin_received = c.fin_received /\ d.out = c.out
           /\ d.in_recovery = c.in_recovery /\ d.recover = c.recover
           /\ d.retransmit = c.retransmit /\ d.persist = c.persist
           /\ d.delayed_ack = c.delayed_ack /\ d.time_wait = c.time_wait
           /\ Una(d) = Una(c) /\ Nxt(d) = Nxt(c) /\ Top(d) = Top(c) /\ Buf(d) = Buf(c)
           /\ End(d) = End(c) /\ \A k : Pos(k, d) = Pos(k, c)
BY DEF Same, Fields, NewConnection, Una, Nxt, Top, Buf, End, Pos

\* The application ends its stream: the FIN is still to be sent.
LEMMA QueueCore ==
    ASSUME NEW k, NEW c, Core(k, c), PeerKnown(c), ~Handshake(c), NEW d, Queues(c, d)
    PROVE  Core(k, d) /\ d.state = c.state /\ (Owed(c) => Owed(d))
<1>1. /\ DOMAIN d = Fields
      /\ d.state = c.state /\ d.iss = c.iss /\ d.snd_una = c.snd_una /\ d.snd_nxt = c.snd_nxt
      /\ d.snd_max = c.snd_max
      /\ d.buf_seq = c.buf_seq /\ d.send_buf = c.send_buf
      /\ d.snd_wnd = c.snd_wnd /\ d.cwnd = c.cwnd /\ d.ssthresh = c.ssthresh
      /\ d.retries = c.retries /\ d.unacked_segments = c.unacked_segments
      /\ d.irs = c.irs /\ d.rcv_nxt = c.rcv_nxt /\ d.rcv_offset = c.rcv_offset
      /\ d.recv_buf = c.recv_buf /\ d.out_of_order = c.out_of_order
      /\ d.peer_fin_seq = c.peer_fin_seq /\ d.fin_received = c.fin_received /\ d.out = c.out
      /\ d.in_recovery = c.in_recovery /\ d.recover = c.recover
      /\ d.retransmit = c.retransmit /\ d.persist = c.persist
      /\ d.delayed_ack = c.delayed_ack /\ d.time_wait = c.time_wait
      /\ Una(d) = Una(c) /\ Nxt(d) = Nxt(c) /\ Top(d) = Top(c) /\ Buf(d) = Buf(c)
      /\ End(d) = End(c) /\ Pos(k, d) = Pos(k, c)
  BY QueueSame DEF Queues
<1>2. Typed(c) /\ IsAround(k) /\ c.state # "Closed" /\ d.fin_queued
  BY DEF Core, Queues
<1>3. Typed(d)
  <2>1. /\ c.fin_received \in BOOLEAN /\ c.retransmit \in BOOLEAN /\ c.persist \in BOOLEAN
        /\ c.delayed_ack \in BOOLEAN /\ c.time_wait \in BOOLEAN
    BY <1>2, Zenon DEF Typed
  <2>2. /\ d.fin_received \in BOOLEAN /\ d.retransmit \in BOOLEAN /\ d.persist \in BOOLEAN
        /\ d.delayed_ack \in BOOLEAN /\ d.time_wait \in BOOLEAN
    BY <1>1, <2>1, Zenon
  <2>3. d.fin_queued \in BOOLEAN
    BY <1>2, Booleans, Zenon
  <2> QED BY <1>1, <1>2, <2>2, <2>3 DEF Typed
<1>4. Grows(k, c, d)
  <2>1. /\ Pos(k, c) \in Nat /\ Len(c.recv_buf) \in Nat /\ Horizon(c) \in Int /\ Buf(c) \in Nos
        /\ Buf(c) \in Int
    BY <1>2, PosType, OffsetType, HalfIsHalf DEF Nos
  <2>2. Horizon(d) = Horizon(c)
    BY <1>1 DEF Horizon
  <2> QED BY <1>1, <1>2, <2>1, <2>2 DEF Grows
<1>5. OutOK(k, d)
  BY <1>1, <1>2, <1>3, <1>4, OutKept DEF Core
<1>6. AckOK(k, d) /\ ArrOK(k, d)
  BY <1>1, <1>2 DEF Core, AckOK, ArrOK
<1>7. SndOK(k, d)
  <2>1. End(d) = Len(k.sent) + 1 /\ d.send_buf = SubSeq(k.sent, Buf(d), Len(k.sent))
    BY <1>1 DEF Core, SndOK
  <2>2. Una(d) <= Nxt(d) /\ Nxt(d) <= Top(d)
    BY <1>1, CorePlaces
  <2>3. Top(d) <= End(d) + One(d.fin_queued)
    <3>1. One(d.fin_queued) = 1
      BY <1>2 DEF One
    <3>2. Top(c) <= End(c) + One(c.fin_queued) /\ One(c.fin_queued) \in 0 .. 1
          /\ Top(c) \in Nat /\ End(c) \in Nat
      BY CorePlaces
    <3> DEFINE one == One(c.fin_queued)
    <3> HIDE DEF one
    <3>3. Top(c) <= End(c) + 1
      BY <3>2 DEF one
    <3> QED BY <1>1, <3>1, <3>3
  <2>4. Una(d) = Buf(d) \/ Una(d) = Buf(d) + 1
    <3>1. Una(c) = Buf(c) \/ Una(c) = Buf(c) + 1
      <4>1. Buf(c) <= Una(c) /\ Una(c) <= Buf(c) + 1
        BY CoreReady DEF Core, AckOK
      <4> QED BY <4>1, CorePlaces
    <3> QED BY <1>1, <3>1
  <2> QED BY <2>1, <2>2, <2>3, <2>4 DEF SndOK
<1>8. RcvOK(k, d)
  BY <1>1 DEF Core, RcvOK, PeerKnown, Accepting, Receiving
<1>9. StateOK(d) /\ TimOK(d)
  BY <1>1 DEF Core, StateOK, NumsOK, TimOK, Timed, Quiet, PeerKnown, Handshake
<1>10. Core(k, d)
  BY <1>1, <1>2, <1>3, <1>5, <1>6, <1>7, <1>8, <1>9 DEF Core
<1> QED BY <1>1, <1>10 DEF Owed, Receiving

\* The end of the stream is queued, and sent as soon as the windows allow.
LEMMA FinishFine ==
    ASSUME NEW k, NEW c, Core(k, c), Owed(c), ~c.fin_queued, NEW s,
           \/ c.state = "Established" /\ s = "FinWait1"
           \/ c.state = "CloseWait" /\ s = "LastAck"
    PROVE  LET e == TrySend([c EXCEPT !.state = s, !.fin_queued = TRUE])
           IN  Good(k, e) /\ Ended(c, e)
<1> DEFINE b == [c EXCEPT !.state = s]
           d == [c EXCEPT !.state = s, !.fin_queued = TRUE]
           e == TrySend(d)
<1>1. DOMAIN c = Fields /\ PeerKnown(c) /\ ~Handshake(c) /\ s \in States /\ c.state # "TimeWait"
      /\ s \notin {"None", "Listen", "SynSent", "SynReceived", "Closed", "FinWait2", "TimeWait"}
  BY DEF Core, Typed, PeerKnown, Handshake, States
<1>2. c.fin_received => s \notin {"Established", "FinWait1", "FinWait2"}
  BY DEF Core, RcvOK, Accepting, Receiving
<1>3. Queues(b, d) /\ Same(c, b, {"state"})
  BY <1>1, QueueFrame, StateFrame DEF Queues
<1>4. /\ Core(k, b) /\ Later(k, c, b) /\ b.state = s
      /\ b.unacked_segments = c.unacked_segments /\ b.delayed_ack = c.delayed_ack
  BY <1>1, <1>2, StateCore
<1> HIDE DEF b, d
<1>5. Owed(b)
  BY <1>4 DEF Owed, Receiving
<1>6. PeerKnown(b) /\ ~Handshake(b)
  BY <1>1, <1>4 DEF PeerKnown, Handshake
<1>7. Core(k, d) /\ d.state = b.state /\ Owed(d)
  BY <1>3, <1>4, <1>5, <1>6, QueueCore
<1>8. PeerKnown(d) /\ ~Handshake(d)
  BY <1>6, <1>7 DEF PeerKnown, Handshake
<1>9. Good(k, e)
  BY <1>7, <1>8, TrySendFine DEF Fine
<1>10. Sent(k, d, e)
  BY <1>7, <1>8, CoreReady, TrySendSent
<1> HIDE DEF e
<1>11. /\ b.iss = c.iss /\ b.snd_una = c.snd_una /\ b.buf_seq = c.buf_seq /\ Top(b) = Top(c)
       /\ b.recv_buf = c.recv_buf /\ b.fin_received = c.fin_received
  BY <1>3, StateSame, SideSame
<1>12. /\ d.iss = b.iss /\ d.snd_una = b.snd_una /\ d.buf_seq = b.buf_seq /\ Top(d) = Top(b)
       /\ d.recv_buf = b.recv_buf /\ d.fin_received = b.fin_received
  BY <1>3, QueueSame DEF Queues
<1>13. /\ e.iss = d.iss /\ e.snd_una = d.snd_una /\ e.buf_seq = d.buf_seq /\ Top(d) <= Top(e)
       /\ e.recv_buf = d.recv_buf /\ e.fin_received = d.fin_received /\ e.state = d.state
       /\ e.fin_queued = d.fin_queued
  BY <1>10, SameFields DEF Sent
<1>14. d.fin_queued /\ c.state # "Closed" /\ s # "Closed"
  BY <1>1, <1>3 DEF Queues, Core
<1>15. e.state # "Closed"
  BY <1>4, <1>7, <1>13, <1>14
<1>16. Ended(c, e)
  BY <1>11, <1>12, <1>13, <1>14, <1>15 DEF Ended
<1> QED BY <1>9, <1>16 DEF e, d

\* Shutdown is fine or ends the stream.
LEMMA ShutdownFine ==
    ASSUME NEW k, IsAround(k), NEW c, Good(k, c), c.state \notin {"None", "Listen"}
    PROVE  Fine(k, c, Shutdown(c)) \/ (Good(k, Shutdown(c)) /\ Ended(c, Shutdown(c)))
<1> DEFINE fin(state) == TrySend([c EXCEPT !.state = state, !.fin_queued = TRUE])
<1>1. Fine(k, c, c)
  BY FineSelf
<1>2. CASE c.fin_queued
  BY <1>1, <1>2 DEF Shutdown
<1>3. CASE ~c.fin_queued /\ c.state = "SynSent"
  <2>1. Shutdown(c) = Terminate(c, "Ok")
    BY <1>3 DEF Shutdown
  <2> DEFINE e == "Ok"
  <2> HIDE DEF e
  <2>2. Fine(k, c, Terminate(c, e))
    BY GoodCore, TerminateFine
  <2> QED BY <2>1, <2>2 DEF e
<1>4. CASE ~c.fin_queued /\ c.state = "SynReceived"
  <2>1. Shutdown(c) = Abort(c)
    BY <1>4 DEF Shutdown
  <2> QED BY <2>1, AbortFine
<1>5. CASE ~c.fin_queued /\ c.state = "Established"
  <2>1. Shutdown(c) = fin("FinWait1")
    BY <1>5 DEF Shutdown
  <2>2. Core(k, c) /\ Owed(c) /\ ~c.fin_queued
    BY <1>5, GoodCore
  <2> DEFINE s == "FinWait1"
  <2>3. c.state = "Established" /\ s = "FinWait1"
    BY <1>5
  <2> HIDE DEF s
  <2>4. Good(k, fin(s)) /\ Ended(c, fin(s))
    BY <2>2, <2>3, FinishFine
  <2> QED BY <2>1, <2>4 DEF s
<1>6. CASE ~c.fin_queued /\ c.state = "CloseWait"
  <2>1. Shutdown(c) = fin("LastAck")
    BY <1>6 DEF Shutdown
  <2>2. Core(k, c) /\ Owed(c) /\ ~c.fin_queued
    BY <1>6, GoodCore
  <2> DEFINE s == "LastAck"
  <2>3. c.state = "CloseWait" /\ s = "LastAck"
    BY <1>6
  <2> HIDE DEF s
  <2>4. Good(k, fin(s)) /\ Ended(c, fin(s))
    BY <2>2, <2>3, FinishFine
  <2> QED BY <2>1, <2>4 DEF s
<1>7. CASE ~c.fin_queued /\ c.state \notin {"SynSent", "SynReceived", "Established", "CloseWait"}
  <2>1. Shutdown(c) = c
    BY <1>7 DEF Shutdown
  <2> QED BY <1>1, <2>1
<1> QED BY <1>2, <1>3, <1>4, <1>5, <1>6, <1>7

\* Close is fine or ends the stream.
LEMMA CloseFine ==
    ASSUME NEW k, IsAround(k), NEW c, Good(k, c), c.state \notin {"None", "Listen"}
    PROVE  Fine(k, c, Close(c)) \/ (Good(k, Close(c)) /\ Ended(c, Close(c)))
<1>1. Close(c) = Abort(c) \/ Close(c) = Shutdown(c)
  BY DEF Close
<1> QED BY <1>1, AbortFine, ShutdownFine

-----------------------------------------------------------------------------
(* Send: the stream of the application grows with the buffer. *)

\* What leaves before a byte is written still belongs to the stream.
LEMMA BelongsWritten ==
    ASSUME NEW iss \in Nos, NEW irs \in Nos, NEW s \in Seq(Nat), NEW byte \in Nat,
           NEW pos, NEW horizon, NEW seg, Belongs(iss, irs, s, FALSE, pos, horizon, seg)
    PROVE  Belongs(iss, irs, Append(s, byte), FALSE, pos, horizon, seg)
<1> DEFINE p == SeqSub(seg.seq, iss)
           n == Len(seg.data)
           w == Append(s, byte)
           m == Len(s)
<1>1. seg \in Segs
  BY DEF Belongs
<1>2. SUFFICES ASSUME "Rst" \notin seg.flags
      PROVE  /\ SegmentLength(seg) > 0 => p < horizon
             /\ "Syn" \in seg.flags => p = 0
             /\ seg.data # <<>> => /\ p >= 1 /\ p + n <= Len(w) + 1
                                   /\ seg.data = SubSeq(w, p, p + n - 1)
             /\ "Fin" \notin seg.flags
             /\ "Ack" \in seg.flags => SeqSub(seg.ack, irs) \in 1 .. pos
             /\ "Ack" \notin seg.flags => "Syn" \in seg.flags
  BY <1>1 DEF Belongs
<1>3. /\ SegmentLength(seg) > 0 => p < horizon
      /\ "Syn" \in seg.flags => p = 0
      /\ seg.data # <<>> => p >= 1 /\ p + n <= m + 1 /\ seg.data = SubSeq(s, p, p + n - 1)
      /\ "Fin" \notin seg.flags
      /\ "Ack" \in seg.flags => SeqSub(seg.ack, irs) \in 1 .. pos
      /\ "Ack" \notin seg.flags => "Syn" \in seg.flags
  BY <1>2 DEF Belongs
<1>4. p \in Nat /\ n \in Nat /\ m \in Nat
  <2>1. seg.seq \in Nos /\ seg.data \in Seq(Nat)
    BY <1>1 DEF Segs
  <2>2. p \in Nos
    BY <2>1, SubCases
  <2> HIDE DEF p
  <2> QED BY <2>1, <2>2, LenProperties DEF Nos
<1>5. ASSUME seg.data # <<>>
      PROVE  p + n <= Len(w) + 1 /\ seg.data = SubSeq(w, p, p + n - 1)
  <2>1. p >= 1 /\ p + n <= m + 1 /\ seg.data = SubSeq(s, p, p + n - 1)
    BY <1>3, <1>5
  <2> HIDE DEF p, n
  <2>2. p \in Nat \ {0} /\ p <= m + 1 /\ p + n - 1 \in Nat /\ p + n - 1 <= m /\ p <= p + n - 1 + 1
    BY <1>4, <2>1
  <2> DEFINE b == p + n - 1
  <2>3. SubSeq(w, p, b) = SubSeq(s, p, b) /\ Len(w) = m + 1
    <3>1. b \in Nat /\ b <= m /\ p <= b + 1
      BY <2>2
    <3> HIDE DEF b
    <3> QED BY <2>2, <3>1, PieceGrown
  <2> QED BY <1>4, <2>1, <2>3
<1> QED BY <1>3, <1>5

\* What a change of the send buffer changes.
LEMMA BufferFrame ==
    ASSUME NEW c, DOMAIN c = Fields, NEW b
    PROVE  LET d == [c EXCEPT !.send_buf = b] IN Same(c, d, {"send_buf"}) /\ d.send_buf = b
BY DEF Same, Fields, NewConnection

\* What it leaves alone.
LEMMA BufferSame ==
    ASSUME NEW c, NEW d, Same(c, d, {"send_buf"})
    PROVE  /\ DOMAIN d = Fields
           /\ d.state = c.state /\ d.iss = c.iss /\ d.snd_una = c.snd_una /\ d.snd_nxt = c.snd_nxt
           /\ d.snd_max = c.snd_max
           /\ d.buf_seq = c.buf_seq /\ d.fin_queued = c.fin_queued
           /\ d.snd_wnd = c.snd_wnd /\ d.cwnd = c.cwnd /\ d.ssthresh = c.ssthresh
           /\ d.retries = c.retries /\ d.unacked_segments = c.unacked_segments
           /\ d.irs = c.irs /\ d.rcv_nxt = c.rcv_nxt /\ d.rcv_offset = c.rcv_offset
           /\ d.recv_buf = c.recv_buf /\ d.out_of_order = c.out_of_order
           /\ d.peer_fin_seq = c.peer_fin_seq /\ d.fin_received = c.fin_received /\ d.out = c.out
           /\ d.in_recovery = c.in_recovery /\ d.recover = c.recover
           /\ d.retransmit = c.retransmit /\ d.persist = c.persist
           /\ d.delayed_ack = c.delayed_ack /\ d.time_wait = c.time_wait
           /\ Una(d) = Una(c) /\ Nxt(d) = Nxt(c) /\ Top(d) = Top(c) /\ Buf(d) = Buf(c)
           /\ \A k : Pos(k, d) = Pos(k, c)
BY DEF Same, Fields, NewConnection, Una, Nxt, Top, Buf, Pos

\* The application writes a byte: it waits in the buffer.
LEMMA WriteCore ==
    ASSUME NEW k, NEW c, Core(k, c), PeerKnown(c), ~Handshake(c), ~c.fin_queued,
           NEW byte \in Nat, NEW w, IsAround(w), Writes(k, w, byte),
           NEW d, Same(c, d, {"send_buf"}), d.send_buf = c.send_buf \o <<byte>>
    PROVE  Core(w, d) /\ Later(w, c, d) /\ d.state = c.state /\ (Owed(c) => Owed(d))
<1>1. /\ DOMAIN d = Fields
      /\ d.state = c.state /\ d.iss = c.iss /\ d.snd_una = c.snd_una /\ d.snd_nxt = c.snd_nxt
      /\ d.snd_max = c.snd_max
      /\ d.buf_seq = c.buf_seq /\ d.fin_queued = c.fin_queued
      /\ d.snd_wnd = c.snd_wnd /\ d.cwnd = c.cwnd /\ d.ssthresh = c.ssthresh
      /\ d.retries = c.retries /\ d.unacked_segments = c.unacked_segments
      /\ d.irs = c.irs /\ d.rcv_nxt = c.rcv_nxt /\ d.rcv_offset = c.rcv_offset
      /\ d.recv_buf = c.recv_buf /\ d.out_of_order = c.out_of_order
      /\ d.peer_fin_seq = c.peer_fin_seq /\ d.fin_received = c.fin_received /\ d.out = c.out
      /\ d.in_recovery = c.in_recovery /\ d.recover = c.recover
      /\ d.retransmit = c.retransmit /\ d.persist = c.persist
      /\ d.delayed_ack = c.delayed_ack /\ d.time_wait = c.time_wait
      /\ Una(d) = Una(c) /\ Nxt(d) = Nxt(c) /\ Top(d) = Top(c) /\ Buf(d) = Buf(c)
      /\ Pos(w, d) = Pos(w, c)
  BY BufferSame
<1>2. Typed(c) /\ IsAround(k) /\ c.state # "Closed"
  BY DEF Core
<1> HIDE DEF Same
<1>3. /\ w.iss = k.iss /\ w.irs = k.irs /\ w.read = k.read /\ w.heard = k.heard /\ w.top = k.top
      /\ w.sent = Append(k.sent, byte) /\ w.peer = k.peer /\ w.ended = k.ended /\ w.gone = k.gone
  BY DEF Writes
<1>4. Pos(w, c) = Pos(k, c)
  BY <1>3 DEF Pos
<1>5. k.sent \in Seq(Nat) /\ Len(k.sent) \in Nat /\ w.sent \in Seq(Nat)
      /\ Len(w.sent) = Len(k.sent) + 1
  <2>1. k.sent \in Seq(Nat) /\ w.sent \in Seq(Nat)
    BY <1>2 DEF IsAround
  <2> QED BY <1>3, <2>1, AppendProperties, LenProperties
<1>6. c.send_buf \in Seq(Nat) /\ d.send_buf \in Seq(Nat) /\ Len(d.send_buf) = Len(c.send_buf) + 1
      /\ Len(c.send_buf) \in Nat
  <2>1. c.send_buf \in Seq(Nat)
    BY <1>2 DEF Typed
  <2>2. <<byte>> \in Seq(Nat) /\ Len(<<byte>>) = 1
    OBVIOUS
  <2> QED BY <2>1, <2>2, ConcatProperties, LenProperties
<1>7. Typed(d)
  <2>1. /\ c.fin_received \in BOOLEAN /\ c.retransmit \in BOOLEAN /\ c.persist \in BOOLEAN
        /\ c.delayed_ack \in BOOLEAN /\ c.time_wait \in BOOLEAN /\ c.fin_queued \in BOOLEAN
    BY <1>2, Zenon DEF Typed
  <2>2. /\ d.fin_received \in BOOLEAN /\ d.retransmit \in BOOLEAN /\ d.persist \in BOOLEAN
        /\ d.delayed_ack \in BOOLEAN /\ d.time_wait \in BOOLEAN /\ d.fin_queued \in BOOLEAN
    BY <1>1, <2>1, Zenon
  <2> QED BY <1>1, <1>2, <1>6, <2>2 DEF Typed
<1>8. Later(w, c, d)
  <2>1. /\ Pos(w, c) \in Nat /\ Len(c.recv_buf) \in Nat /\ Horizon(c) \in Int /\ Buf(c) \in Nos
        /\ Buf(c) \in Int
    BY <1>2, PosType, OffsetType, HalfIsHalf DEF Nos
  <2>2. Horizon(d) = Horizon(c)
    BY <1>1 DEF Horizon
  <2> QED BY <1>1, <2>1, <2>2 DEF Later
<1>9. OutOK(w, d)
  <2>1. c.out \in Seq(Segs) /\ \A i \in 1 .. Len(c.out) : Leaves(k, c, c.out[i])
    BY DEF Core, OutOK
  <2>2. Horizon(d) = Horizon(c)
    BY <1>1 DEF Horizon
  <2>3. ASSUME NEW i \in 1 .. Len(c.out) PROVE Leaves(w, d, c.out[i])
    <3>1. Belongs(k.iss, k.irs, k.sent, FALSE, Pos(k, c), Horizon(c), c.out[i])
      <4>1. Belongs(k.iss, k.irs, k.sent, c.fin_queued, Pos(k, c), Horizon(c), c.out[i])
        BY <2>1 DEF Leaves
      <4> QED BY <4>1 DEF Belongs
    <3>2. k.iss \in Nos /\ k.irs \in Nos
      BY <1>2 DEF IsAround
    <3> DEFINE off == FALSE
    <3>3. Belongs(k.iss, k.irs, Append(k.sent, byte), off, Pos(k, c), Horizon(c), c.out[i])
      BY <1>5, <3>1, <3>2, BelongsWritten
    <3>4. Belongs(k.iss, k.irs, Append(k.sent, byte), c.fin_queued, Pos(k, c), Horizon(c), c.out[i])
      BY <3>3 DEF Belongs
    <3> QED BY <1>1, <1>3, <1>4, <2>2, <3>4 DEF Leaves
  <2> QED BY <1>1, <2>1, <2>3 DEF OutOK
<1>10. Una(c) = Buf(c)
  <2>1. Buf(c) <= Una(c) /\ Una(c) <= Buf(c) + 1 /\ (Una(c) = Buf(c) + 1 => c.fin_queued)
    BY CoreReady DEF Core, AckOK
  <2> QED BY <2>1, CorePlaces, SMTT(30)
<1>11. AckOK(w, d)
  <2>1. c.iss = k.iss /\ Una(c) <= k.heard
    BY DEF Core, AckOK
  <2>2. Buf(d) = Buf(c) /\ Una(d) = Una(c) /\ Buf(c) \in Nat
    BY <1>1, CorePlaces
  <2>3. Buf(d) <= Una(d)
    BY <1>10, <2>2
  <2>4. Buf(c) \in 1 .. Len(k.sent) + 1 /\ (Una(c) = Buf(c) + 1 => c.fin_queued)
    BY DEF Core, AckOK
  <2>5. Una(d) <= w.heard /\ d.iss = w.iss
    BY <1>1, <1>3, <2>1
  <2>6. Buf(d) \in 1 .. Len(w.sent) + 1
    BY <1>3, <1>5, <2>2, <2>4, CorePlaces
  <2> QED BY <1>10, <2>2, <2>3, <2>5, <2>6 DEF AckOK
<1>12. ArrOK(w, d)
  BY <1>1, <1>3 DEF Core, ArrOK
<1>13. SndOK(w, d)
  <2>1. End(d) = Len(w.sent) + 1
    <3>1. End(d) = Buf(c) + Len(d.send_buf) /\ End(c) = Buf(c) + Len(c.send_buf)
      BY <1>1 DEF End
    <3> QED BY <1>5, <1>6, <3>1, CorePlaces
  <2>2. d.send_buf = SubSeq(w.sent, Buf(d), Len(w.sent))
    <3>1. c.send_buf = SubSeq(k.sent, Buf(c), Len(k.sent))
      BY DEF Core, SndOK
    <3>2. Buf(c) \in Nat \ {0} /\ Buf(c) <= Len(k.sent) + 1
      BY CorePlaces
    <3> DEFINE b == Buf(c)
    <3> HIDE DEF b
    <3>3. SubSeq(Append(k.sent, byte), b, Len(k.sent) + 1) = SubSeq(k.sent, b, Len(k.sent)) \o <<byte>>
      BY <1>5, <3>2, PieceGrown DEF b
    <3> QED BY <1>1, <1>3, <1>5, <3>1, <3>3 DEF b
  <2>3. Una(d) <= Nxt(d) /\ Nxt(d) <= Top(d)
    BY <1>1, CorePlaces
  <2>4. Top(d) <= End(d) + One(d.fin_queued)
    <3>1. One(d.fin_queued) = 0 /\ One(c.fin_queued) = 0
      BY <1>1 DEF One
    <3>2. Top(c) <= End(c) /\ End(c) = Len(k.sent) + 1
      BY <3>1, CorePlaces
    <3> QED BY <1>1, <1>5, <2>1, <3>1, <3>2, CorePlaces
  <2> QED BY <1>1, <1>10, <2>1, <2>2, <2>3, <2>4 DEF SndOK
<1>14. RcvOK(w, d)
  BY <1>1, <1>3, <1>4 DEF Core, RcvOK, PeerKnown, Accepting, Receiving
<1>15. StateOK(d) /\ TimOK(d)
  BY <1>1 DEF Core, StateOK, NumsOK, TimOK, Timed, Quiet, PeerKnown, Handshake
<1>16. Core(w, d)
  BY <1>1, <1>2, <1>7, <1>9, <1>11, <1>12, <1>13, <1>14, <1>15 DEF Core
<1> QED BY <1>1, <1>8, <1>16 DEF Owed, Receiving

\* Send adds the bytes to the buffer and sends what the windows allow; it hears nothing.
LEMMA SendFine ==
    ASSUME NEW k, NEW c, Core(k, c), Owed(c), CanSend(c),
           NEW byte \in Nat, NEW w, IsAround(w), Writes(k, w, byte)
    PROVE  LET e == Send(c, <<byte>>)
           IN  Fine(w, c, e) /\ Standing(c, e) /\ e.recv_buf = c.recv_buf
<1> DEFINE d == [c EXCEPT !.send_buf = @ \o <<byte>>]
<1>1. PeerKnown(c) /\ ~Handshake(c) /\ ~c.fin_queued /\ DOMAIN c = Fields
  BY DEF CanSend, PeerKnown, Handshake, Core, Typed
<1>2. Same(c, d, {"send_buf"}) /\ d.send_buf = c.send_buf \o <<byte>>
  BY <1>1, BufferFrame
<1> HIDE DEF d
<1>3. Core(w, d) /\ Later(w, c, d) /\ d.state = c.state /\ Owed(d)
  BY <1>1, <1>2, WriteCore, SMTT(30)
<1>4. PeerKnown(d) /\ ~Handshake(d)
  BY <1>1, <1>3 DEF PeerKnown, Handshake
<1>5. Fine(w, d, TrySend(d))
  BY <1>3, <1>4, TrySendFine
<1>6. Later(w, c, TrySend(d))
  <2>1. Typed(c) /\ Typed(d) /\ Typed(TrySend(d))
    BY <1>3, <1>5 DEF Core, Fine, Good
  <2> QED BY <1>3, <1>5, <2>1, LaterTwice DEF Fine
<1>7. Sent(w, d, TrySend(d))
  BY <1>3, <1>4, CoreReady, TrySendSent
<1>8. Standing(c, TrySend(d)) /\ TrySend(d).recv_buf = c.recv_buf
  <2> DEFINE e == TrySend(d)
  <2>1. Same(d, e, SendFields)
    BY <1>7 DEF Sent
  <2> HIDE DEF e
  <2>2. Standing(d, e) /\ e.recv_buf = d.recv_buf
    BY <2>1, SameFields DEF Standing
  <2>3. Standing(c, d) /\ d.recv_buf = c.recv_buf
    BY <1>2, BufferSame DEF Standing
  <2>4. Standing(c, e) /\ e.recv_buf = c.recv_buf
    BY <2>2, <2>3 DEF Standing
  <2> QED BY <2>4 DEF e
<1> QED BY <1>5, <1>6, <1>8 DEF Fine, Send, d

-----------------------------------------------------------------------------
(* Recv: what is read leaves the buffer. *)

\* What a change of the receive buffer changes.
LEMMA ReadFrame ==
    ASSUME NEW c, DOMAIN c = Fields, NEW b
    PROVE  LET d == [c EXCEPT !.recv_buf = b] IN Same(c, d, {"recv_buf"}) /\ d.recv_buf = b
BY DEF Same, Fields, NewConnection

\* What it leaves alone.
LEMMA ReadSame ==
    ASSUME NEW c, NEW d, Same(c, d, {"recv_buf"})
    PROVE  /\ DOMAIN d = Fields
           /\ d.state = c.state /\ d.iss = c.iss /\ d.snd_una = c.snd_una /\ d.snd_nxt = c.snd_nxt
           /\ d.snd_max = c.snd_max /\ d.send_buf = c.send_buf
           /\ d.buf_seq = c.buf_seq /\ d.fin_queued = c.fin_queued
           /\ d.snd_wnd = c.snd_wnd /\ d.cwnd = c.cwnd /\ d.ssthresh = c.ssthresh
           /\ d.retries = c.retries /\ d.unacked_segments = c.unacked_segments
           /\ d.irs = c.irs /\ d.rcv_nxt = c.rcv_nxt /\ d.rcv_offset = c.rcv_offset
           /\ d.out_of_order = c.out_of_order
           /\ d.peer_fin_seq = c.peer_fin_seq /\ d.fin_received = c.fin_received /\ d.out = c.out
           /\ d.in_recovery = c.in_recovery /\ d.recover = c.recover
           /\ d.retransmit = c.retransmit /\ d.persist = c.persist
           /\ d.delayed_ack = c.delayed_ack /\ d.time_wait = c.time_wait
           /\ Una(d) = Una(c) /\ Nxt(d) = Nxt(c) /\ Top(d) = Top(c) /\ Buf(d) = Buf(c)
           /\ End(d) = End(c)
BY DEF Same, Fields, NewConnection, Una, Nxt, Top, Buf, End

\* Where the rest of the receive buffer stands in the peer's stream once n bytes are read.
LEMMA ReadPlaces ==
    ASSUME NEW x \in Nat, NEW l \in Nat, NEW n \in Nat, NEW y \in Nat, 1 <= n, n <= l, x + l <= y
    PROVE  /\ x + 1 \in Nat \ {0} /\ x + l \in Nat /\ x + l <= y /\ x + 1 <= x + l + 1
           /\ n + 1 \in Nat \ {0} /\ l \in Nat /\ n + 1 <= l + 1 /\ l <= (x + l) - (x + 1) + 1
           /\ (x + 1) + (n + 1) - 1 = x + n + 1 /\ (x + 1) + l - 1 = x + l
OBVIOUS

\* The connection and the stream it receives, once n bytes were read.
LEMMA ReadGood ==
    ASSUME NEW k, IsAround(k), NEW c, Good(k, c), NEW n \in 1 .. Len(c.recv_buf),
           NEW w, IsAround(w), Reads(k, w, n),
           NEW d, Same(c, d, {"recv_buf"}), d.recv_buf = SubSeq(c.recv_buf, n + 1, Len(c.recv_buf))
    PROVE  Good(w, d) /\ Pos(w, d) = Pos(k, c) /\ k.read + Len(c.recv_buf) = w.read + Len(d.recv_buf)
           /\ (c.state # "Closed" => PeerKnown(d))
<1>1. /\ DOMAIN d = Fields
      /\ d.state = c.state /\ d.iss = c.iss /\ d.snd_una = c.snd_una /\ d.snd_nxt = c.snd_nxt
      /\ d.snd_max = c.snd_max /\ d.send_buf = c.send_buf
      /\ d.buf_seq = c.buf_seq /\ d.fin_queued = c.fin_queued
      /\ d.snd_wnd = c.snd_wnd /\ d.cwnd = c.cwnd /\ d.ssthresh = c.ssthresh
      /\ d.retries = c.retries /\ d.unacked_segments = c.unacked_segments
      /\ d.irs = c.irs /\ d.rcv_nxt = c.rcv_nxt /\ d.rcv_offset = c.rcv_offset
      /\ d.out_of_order = c.out_of_order
      /\ d.peer_fin_seq = c.peer_fin_seq /\ d.fin_received = c.fin_received /\ d.out = c.out
      /\ d.in_recovery = c.in_recovery /\ d.recover = c.recover
      /\ d.retransmit = c.retransmit /\ d.persist = c.persist
      /\ d.delayed_ack = c.delayed_ack /\ d.time_wait = c.time_wait
      /\ Una(d) = Una(c) /\ Nxt(d) = Nxt(c) /\ Top(d) = Top(c) /\ Buf(d) = Buf(c)
      /\ End(d) = End(c)
  BY ReadSame
<1>2. Typed(c) /\ AckOK(k, c) /\ ArrOK(k, c) /\ OutOK(k, c)
  BY DEF Good
<1> HIDE DEF Same
<1>3. /\ w.iss = k.iss /\ w.irs = k.irs /\ w.read = k.read + n /\ w.heard = k.heard
      /\ w.top = k.top /\ w.sent = k.sent /\ w.peer = k.peer /\ w.ended = k.ended /\ w.gone = k.gone
  BY DEF Reads
<1>4. k.read \in Nat /\ k.peer \in Seq(Nat) /\ Len(k.peer) \in Nat /\ n \in Nat /\ n >= 1
      /\ c.recv_buf \in Seq(Nat) /\ Len(c.recv_buf) \in Nat /\ n <= Len(c.recv_buf)
  <2>1. k.read \in Nat /\ k.peer \in Seq(Nat) /\ c.recv_buf \in Seq(Nat)
    BY <1>2 DEF IsAround, Typed
  <2> QED BY <2>1, LenProperties
<1> DEFINE l == Len(c.recv_buf)
<1>5. d.recv_buf \in Seq(Nat) /\ Len(d.recv_buf) = l - n
  <2> HIDE DEF l
  <2>1. SubSeq(c.recv_buf, n + 1, l) \in Seq(Nat) /\ Len(SubSeq(c.recv_buf, n + 1, l)) = l - (n + 1) + 1
    BY <1>4, Piece, SMTT(30) DEF l
  <2> QED BY <1>4, <2>1 DEF l
<1>6. w.read + Len(d.recv_buf) = k.read + l
  BY <1>3, <1>4, <1>5
<1>7. Pos(w, d) = Pos(k, c)
  <2>1. One(d.fin_received) = One(c.fin_received) /\ One(c.fin_received) \in Int
    BY <1>1, <1>2, PosType
  <2> DEFINE one == One(c.fin_received)
             x == w.read
             y == Len(d.recv_buf)
  <2>2. Pos(w, d) = 1 + x + y + one /\ Pos(k, c) = 1 + k.read + l + one
    BY <2>1 DEF Pos
  <2>3. x \in Int /\ y \in Int /\ one \in Int /\ k.read \in Int /\ l \in Int /\ x + y = k.read + l
    BY <1>3, <1>4, <1>5, <1>6, <2>1
  <2> HIDE DEF x, y, one, l
  <2> QED BY <2>2, <2>3, SMTT(30)
<1>8. Typed(d)
  <2>1. /\ c.fin_received \in BOOLEAN /\ c.retransmit \in BOOLEAN /\ c.persist \in BOOLEAN
        /\ c.delayed_ack \in BOOLEAN /\ c.time_wait \in BOOLEAN /\ c.fin_queued \in BOOLEAN
    BY <1>2, Zenon DEF Typed
  <2>2. /\ d.fin_received \in BOOLEAN /\ d.retransmit \in BOOLEAN /\ d.persist \in BOOLEAN
        /\ d.delayed_ack \in BOOLEAN /\ d.time_wait \in BOOLEAN /\ d.fin_queued \in BOOLEAN
    BY <1>1, <2>1, Zenon
  <2> QED BY <1>1, <1>2, <1>5, <2>2 DEF Typed
<1>9. AckOK(w, d)
  BY <1>1, <1>2, <1>3 DEF AckOK
<1>10. ArrOK(w, d)
  <2>1. k.read + l <= Len(k.peer) /\ c.recv_buf = SubSeq(k.peer, k.read + 1, k.read + l)
    BY <1>2 DEF ArrOK
  <2>2. d.recv_buf = SubSeq(k.peer, k.read + n + 1, k.read + l)
    <3> DEFINE a == k.read + 1
               b == k.read + l
               i == n + 1
    <3>1. /\ a \in Nat \ {0} /\ b \in Nat /\ b <= Len(k.peer) /\ a <= b + 1
          /\ i \in Nat \ {0} /\ l \in Nat /\ i <= l + 1 /\ l <= b - a + 1
          /\ a + i - 1 = k.read + n + 1 /\ a + l - 1 = k.read + l
      <4> DEFINE x == k.read
                 y == Len(k.peer)
      <4>1. x \in Nat /\ l \in Nat /\ n \in Nat /\ 1 <= n /\ n <= l /\ x + l <= y /\ y \in Nat
        BY <1>4, <2>1
      <4> HIDE DEF x, y, l
      <4>2. /\ x + 1 \in Nat \ {0} /\ x + l \in Nat /\ x + l <= y /\ x + 1 <= x + l + 1
            /\ n + 1 \in Nat \ {0} /\ l \in Nat /\ n + 1 <= l + 1 /\ l <= (x + l) - (x + 1) + 1
            /\ (x + 1) + (n + 1) - 1 = x + n + 1 /\ (x + 1) + l - 1 = x + l
        BY <4>1, ReadPlaces
      <4> QED BY ONLY <4>2 DEF x, y
    <3>2. SubSeq(SubSeq(k.peer, a, b), i, l) = SubSeq(k.peer, a + i - 1, a + l - 1)
      <4> HIDE DEF a, b, i, l
      <4> QED BY <1>4, <3>1, PieceOfPiece
    <3> QED BY <2>1, <3>1, <3>2
  <2>3. c.fin_received => k.ended /\ k.read + l = Len(k.peer)
    BY <1>2 DEF ArrOK
  <2> HIDE DEF l
  <2>4. w.read + 1 = k.read + n + 1
    BY <1>3, <1>4
  <2> QED BY <1>1, <1>3, <1>6, <2>1, <2>2, <2>3, <2>4 DEF ArrOK
<1>11. OutOK(w, d)
  <2>1. c.out \in Seq(Segs) /\ \A i \in 1 .. Len(c.out) : Leaves(k, c, c.out[i])
    BY <1>2 DEF OutOK
  <2>2. Horizon(d) = Horizon(c)
    BY <1>1 DEF Horizon
  <2>3. ASSUME NEW i \in 1 .. Len(c.out) PROVE Leaves(w, d, c.out[i])
    <3>1. Leaves(k, c, c.out[i])
      BY <2>1
    <3> QED BY <1>1, <1>3, <1>7, <2>2, <3>1 DEF Leaves
  <2> QED BY <1>1, <2>1, <2>3 DEF OutOK
<1>12. CASE c.state = "Closed"
  BY <1>1, <1>6, <1>7, <1>8, <1>9, <1>10, <1>11, <1>12 DEF Good
<1>13. CASE c.state # "Closed"
  <2>1. SndOK(k, c) /\ RcvOK(k, c) /\ StateOK(c) /\ TimOK(c) /\ Owed(c) /\ CovOK(k, c)
    BY <1>13 DEF Good
  <2>2. SndOK(w, d)
    BY <1>1, <1>3, <2>1 DEF SndOK
  <2>3. PeerKnown(c)
    <3>1. ~PeerKnown(c) => c.rcv_offset = 0 /\ c.rcv_offset = k.read + Len(c.recv_buf)
      BY <2>1 DEF RcvOK
    <3> QED BY <1>4, <3>1
  <2>4. PeerKnown(d)
    BY <1>1, <2>3 DEF PeerKnown
  <2>5. RcvOK(w, d)
    <3>1. d.rcv_offset = w.read + Len(d.recv_buf)
      BY <1>1, <1>6, <2>1 DEF RcvOK
    <3> QED BY <1>1, <1>3, <1>7, <2>1, <2>3, <2>4, <3>1 DEF RcvOK, Accepting, Receiving
  <2>6. StateOK(d) /\ TimOK(d)
    BY <1>1, <2>1 DEF StateOK, NumsOK, TimOK, Timed, Quiet, PeerKnown, Handshake
  <2>7. Owed(d)
    BY <1>1, <2>1 DEF Owed, Receiving
  <2>8. CovOK(w, d)
    BY <1>1, <1>3, <2>1 DEF CovOK, Unsent, Sending, FinSent, FinSeq
  <2>9. d.state # "Closed"
    BY <1>1, <1>13
  <2> QED BY <1>6, <1>7, <1>8, <1>9, <1>10, <1>11, <2>2, <2>4, <2>5, <2>6, <2>7, <2>8, <2>9 DEF Good
<1> QED BY <1>12, <1>13

\* Taking nothing back is going onward.
LEMMA LaterOnward ==
    ASSUME NEW k, IsAround(k), NEW c, Typed(c), NEW d, Typed(d), Later(k, c, d)
    PROVE  Onward(k, c, k, d)
<1>1. k.read \in Nat /\ Len(c.recv_buf) \in Nat /\ Len(d.recv_buf) \in Nat
  BY PosType DEF IsAround
<1>2. k.read + Len(c.recv_buf) <= k.read + Len(d.recv_buf)
  BY <1>1 DEF Later
<1> QED BY <1>2 DEF Later, Onward

\* So is ending one's own stream.
LEMMA EndedOnward ==
    ASSUME NEW k, IsAround(k), NEW c, Typed(c), NEW d, Typed(d), Ended(c, d)
    PROVE  Onward(k, c, k, d)
<1>1. /\ Pos(k, c) \in Nat /\ k.read \in Nat /\ Len(c.recv_buf) \in Nat /\ Buf(c) \in Nos
      /\ Top(c) \in Nos /\ Top(d) \in Nos /\ Buf(c) \in Nat
  <2>1. Pos(k, c) \in Nat /\ k.read \in Nat /\ Len(c.recv_buf) \in Nat
    BY PosType DEF IsAround
  <2>2. Buf(c) \in Nos /\ Top(c) \in Nos /\ Top(d) \in Nos
    BY OffsetType
  <2> QED BY <2>1, <2>2, HalfIsHalf DEF Nos
<1>2. Pos(k, d) = Pos(k, c) /\ Buf(d) = Buf(c) /\ Una(d) = Una(c)
  BY DEF Ended, Pos, Buf, Una
<1>3. Horizon(c) <= Horizon(d)
  BY DEF Ended, Horizon
<1>4. k.read + Len(c.recv_buf) <= k.read + Len(d.recv_buf)
  BY <1>1 DEF Ended
<1> QED BY <1>1, <1>2, <1>3, <1>4 DEF Onward, Ended

\* Recv leaves a good connection that knows what it knew.
LEMMA RecvFine ==
    ASSUME NEW k, IsAround(k), NEW c, Good(k, c), NEW n \in 1 .. Len(c.recv_buf),
           NEW w, IsAround(w), Reads(k, w, n)
    PROVE  LET e == Recv(c, n)
           IN  /\ Good(w, e) /\ Onward(k, c, w, e)
               /\ Standing(c, e) /\ k.read + Len(c.recv_buf) = w.read + Len(e.recv_buf)
<1> DEFINE d == [c EXCEPT !.recv_buf = SubSeq(@, n + 1, Len(@))]
           e == Recv(c, n)
<1>1. DOMAIN c = Fields /\ Typed(c)
  BY DEF Good, Typed
<1>2. Same(c, d, {"recv_buf"}) /\ d.recv_buf = SubSeq(c.recv_buf, n + 1, Len(c.recv_buf))
  BY <1>1, ReadFrame
<1>3. (e = SendAck(d) /\ Synchronized(d)) \/ e = d
  BY DEF Recv
<1> HIDE DEF d, e
<1>4. Good(w, d) /\ Pos(w, d) = Pos(k, c) /\ k.read + Len(c.recv_buf) = w.read + Len(d.recv_buf)
      /\ (c.state # "Closed" => PeerKnown(d))
  BY <1>2, ReadGood
<1>5. /\ d.state = c.state /\ d.iss = c.iss /\ d.fin_queued = c.fin_queued
      /\ d.fin_received = c.fin_received /\ Una(d) = Una(c) /\ Top(d) = Top(c) /\ Buf(d) = Buf(c)
  BY <1>2, ReadSame
<1>6. Fine(w, d, e)
  <2>1. CASE e = d
    BY <1>4, <2>1, FineSelf
  <2>2. CASE e = SendAck(d) /\ Synchronized(d)
    <3>1. d.state # "Closed"
      BY <2>2 DEF Synchronized
    <3>2. Core(w, d) /\ CovOK(w, d) /\ PeerKnown(d)
      BY <1>4, <1>5, <3>1, GoodCore
    <3> QED BY <2>2, <3>2, SendAckFine
  <2> QED BY <1>3, <2>1, <2>2
<1>7. Onward(w, d, w, e)
  BY <1>4, <1>6, LaterOnward DEF Fine, Good
<1>8. Horizon(d) = Horizon(c)
  BY <1>5 DEF Horizon
<1>9. Onward(k, c, w, e)
  <2>1. /\ e.iss = d.iss /\ (d.fin_queued => e.fin_queued) /\ Horizon(d) <= Horizon(e)
        /\ Pos(w, d) <= Pos(w, e) /\ w.read + Len(d.recv_buf) <= w.read + Len(e.recv_buf)
        /\ (d.fin_received => e.fin_received) /\ Buf(d) <= Buf(e)
        /\ (Una(d) = Buf(d) + 1 => Una(e) = Buf(e) + 1)
    BY <1>7 DEF Onward
  <2> QED BY <1>4, <1>5, <1>8, <2>1 DEF Onward
<1>10. Standing(d, e) /\ e.recv_buf = d.recv_buf
  <2>1. CASE e = d
    BY <2>1 DEF Standing
  <2>2. CASE e = SendAck(d)
    <3> DEFINE seq == d.snd_max
               flags == {"Ack"}
               data == <<>>
    <3>1. Emits(d, EmitSegment(d, seq, flags, data), Emitted(d, seq, flags, data), flags)
      BY <1>2, EmitFrame DEF Same
    <3>2. e = EmitSegment(d, seq, flags, data)
      BY <2>2 DEF SendAck
    <3> HIDE DEF seq, flags, data
    <3>3. Same(d, e, EmitFields)
      BY <3>1, <3>2 DEF Emits
    <3> QED BY <3>3 DEF Same, Fields, NewConnection, EmitFields, Standing
  <2> QED BY <1>3, <2>1, <2>2
<1>11. Standing(c, d)
  BY <1>2, ReadSame DEF Standing
<1>12. Standing(c, e) /\ k.read + Len(c.recv_buf) = w.read + Len(e.recv_buf)
  BY <1>4, <1>10, <1>11 DEF Standing
<1> QED BY <1>6, <1>9, <1>12 DEF Fine, e

-----------------------------------------------------------------------------
(* The two sides. *)

\* There are two sides, each the other's peer.
LEMMA Peers ==
    ASSUME NEW p \in Sides
    PROVE  /\ Peer(p) \in Sides /\ Peer(p) # p /\ Peer(Peer(p)) = p
           /\ \A s \in Sides : s = p \/ s = Peer(p)
<1>1. IsFiniteSet(Sides) /\ Cardinality(Sides) = 2
  BY SidesAssumption
<1>2. IsFiniteSet(Sides \ {p}) /\ Cardinality(Sides \ {p}) = 1
  BY <1>1, FS_RemoveElement
<1>3. PICK q : Sides \ {p} = {q}
  BY <1>2, FS_Singleton
<1>4. q \in Sides /\ q # p /\ Sides = {p, q}
  BY <1>3
<1>5. \A x : x \in Sides /\ x # p <=> x = q
  BY <1>4
<1>6. Peer(p) = q
  BY <1>5 DEF Peer
<1>7. \A x : x \in Sides /\ x # q <=> x = p
  BY <1>4
<1>8. Peer(q) = p
  BY <1>7 DEF Peer
<1> QED BY <1>4, <1>6, <1>8

\* The number of a Boolean.
LEMMA OneType ==
    ASSUME NEW b \in BOOLEAN
    PROVE  One(b) \in 0 .. 1 /\ (b => One(b) = 1) /\ (~b => One(b) = 0)
BY DEF One

\* No stream gets to half of the sequence numbers in its lifetime (LifetimeAssumption).
LEMMA Lifetimes ==
    ASSUME NEW p \in Sides, NEW n \in Nat, n <= MaxBytes[p]
    PROVE  n + 2 < Half
<1>1. MaxBytes[p] \in Nat /\ 2 * (MaxBytes[p] + 3) <= M
  BY LifetimeAssumption
<1>2. M = 2 * Half /\ Half \in Nat
  BY HalfIsHalf
<1> QED BY <1>1, <1>2

\* What surrounds a connection is what it is said to be.
LEMMA AroundIs ==
    ASSUME Inv, NEW p \in Sides
    PROVE  IsAround(Around(p))
<1> DEFINE q == Peer(p)
           k == Around(p)
           d == conn[q]
<1>1. q \in Sides /\ Peer(q) = p
  BY Peers
<1>2. Good(Around(q), d)
  BY <1>1 DEF Inv
<1>3. /\ Iss[p] \in Nos /\ Iss[q] \in Nos
  BY <1>1, IssAssumption DEF Nos
<1>4. sent[p] \in Seq(Nat) /\ read[p] \in Seq(Nat) /\ sent[q] \in Seq(Nat) /\ read[q] \in Seq(Nat)
  BY <1>1 DEF Inv
<1>5. Len(sent[p]) \in Nat /\ Len(read[p]) \in Nat /\ Len(sent[q]) \in Nat /\ Len(read[q]) \in Nat
  BY <1>4, LenProperties
<1>6. Len(sent[p]) + 2 < Half /\ Len(sent[q]) + 2 < Half
  BY <1>1, <1>5, Lifetimes DEF Inv
<1>7. /\ d.fin_queued \in BOOLEAN /\ d.fin_received \in BOOLEAN /\ d.snd_max \in Nos
      /\ d.recv_buf \in Seq(Nat)
  BY <1>2, Zenon DEF Good, Typed
<1>8. Len(d.recv_buf) \in Nat
  BY <1>7, LenProperties
<1>9. One(d.fin_received) \in 0 .. 1
  BY <1>7, OneType
<1>10. Len(read[q]) + Len(d.recv_buf) <= Len(sent[p])
  <2>1. Around(q).read = Len(read[q]) /\ Around(q).peer = sent[p]
    BY <1>1 DEF Around
  <2> QED BY <1>2, <2>1 DEF Good, ArrOK
<1>11. k.heard \in Nat /\ k.heard <= Len(sent[p]) + 2
  <2>1. k.heard = 1 + Len(read[q]) + Len(d.recv_buf) + One(d.fin_received)
    BY DEF Around
  <2> DEFINE x == Len(read[q])
             y == Len(d.recv_buf)
             z == One(d.fin_received)
             l == Len(sent[p])
  <2>2. x \in Nat /\ y \in Nat /\ z \in 0 .. 1 /\ l \in Nat /\ x + y <= l
    BY <1>5, <1>8, <1>9, <1>10
  <2>3. k.heard = 1 + x + y + z
    BY <2>1
  <2> HIDE DEF x, y, z, l, k
  <2>4. k.heard \in Nat /\ k.heard <= l + 2
    BY <2>2, <2>3
  <2> QED BY <2>4 DEF l
<1>12. d.state # "Closed" => SeqSub(d.snd_max, Iss[q]) < Half
  <2>1. SUFFICES ASSUME d.state # "Closed" PROVE SeqSub(d.snd_max, Iss[q]) < Half
    OBVIOUS
  <2>2. SndOK(Around(q), d) /\ AckOK(Around(q), d) /\ Typed(d)
    BY <1>2, <2>1 DEF Good
  <2>3. Around(q).iss = Iss[q] /\ Around(q).sent = sent[q]
    BY DEF Around
  <2>4. d.iss = Iss[q] /\ Top(d) <= End(d) + One(d.fin_queued) /\ End(d) = Len(sent[q]) + 1
    BY <2>2, <2>3 DEF SndOK, AckOK
  <2>5. Top(d) = SeqSub(d.snd_max, Iss[q])
    BY <2>4 DEF Top
  <2>6. One(d.fin_queued) \in 0 .. 1
    BY <1>7, OneType
  <2>7. Half \in Nat /\ Top(d) \in Nos /\ Nos \subseteq Nat
    BY <2>2, OffsetType, HalfIsHalf DEF Nos
  <2>8. Top(d) < Half
    <3> DEFINE t == Top(d)
               e == End(d)
               o == One(d.fin_queued)
               l == Len(sent[q])
    <3>1. /\ t \in Nat /\ t <= e + o /\ e = l + 1 /\ o \in 0 .. 1 /\ l \in Nat /\ l + 2 < Half
          /\ Half \in Nat
      BY <1>5, <1>6, <2>4, <2>6, <2>7
    <3> HIDE DEF t, e, o, l
    <3>2. t < Half
      BY <3>1
    <3> QED BY <3>2 DEF t
  <2> QED BY <2>5, <2>8
<1>13. /\ k.iss = Iss[p] /\ k.irs = Iss[q] /\ k.sent = sent[p] /\ k.read = Len(read[p])
       /\ k.peer = sent[q] /\ k.ended = d.fin_queued /\ k.top = d.snd_max
       /\ k.gone = (d.state = "Closed")
  BY DEF Around
<1> HIDE DEF k, d, q
<1>14. k.gone \in BOOLEAN
  BY <1>13
<1>15. IsAround(k)
  BY <1>3, <1>4, <1>5, <1>6, <1>7, <1>11, <1>12, <1>13, <1>14 DEF IsAround
<1> QED BY <1>15 DEF k

-----------------------------------------------------------------------------
(* Settled: the segments are gone, and of a closed connection what nobody reads. *)

\* Of a connection that goes on only the segments to send are gone.
LEMMA SettledOpen ==
    ASSUME NEW c, DOMAIN c = Fields, c.state # "Closed"
    PROVE  Same(c, Settled(c), {"out"}) /\ Settled(c).out = <<>>
BY DEF Settled, Same, Fields, NewConnection

\* What is left of a closed connection.
LEMMA SettledClosed ==
    ASSUME NEW c, DOMAIN c = Fields, c.state = "Closed"
    PROVE  Leftover(c, Settled(c))
BY DEF Settled, Leftover, Fields, NewConnection

\* A closed connection has no timer.
LEMMA SettledStill ==
    ASSUME NEW c, c.state = "Closed"
    PROVE  LET d == Settled(c)
           IN  ~d.retransmit /\ ~d.persist /\ ~d.delayed_ack /\ ~d.time_wait
BY DEF Settled, NewConnection

\* No timer is armed when none is set.
LEMMA ArmedNone ==
    ASSUME NEW d, ~d.retransmit, ~d.persist, ~d.delayed_ack, ~d.time_wait
    PROVE  Armed(d) = {}
BY DEF Armed

\* What a connection leaves behind when it is settled is what the peer and the application see.
LEMMA SettledKeeps ==
    ASSUME NEW c, Typed(c)
    PROVE  LET d == Settled(c)
           IN  /\ d.iss = c.iss /\ d.state = c.state /\ d.snd_una = c.snd_una
               /\ d.buf_seq = c.buf_seq /\ d.send_buf = c.send_buf /\ d.recv_buf = c.recv_buf
               /\ d.fin_queued = c.fin_queued /\ d.fin_received = c.fin_received /\ d.out = <<>>
               /\ c.state # "Closed" => d.snd_max = c.snd_max
<1>1. DOMAIN c = Fields
  BY DEF Typed
<1>2. CASE c.state # "Closed"
  BY <1>1, <1>2, SettledOpen DEF Same, Fields, NewConnection
<1>3. CASE c.state = "Closed"
  BY <1>1, <1>3, SettledClosed DEF Leftover
<1> QED BY <1>2, <1>3

\* A good connection is good once its segments are gone.
LEMMA SettledGood ==
    ASSUME NEW k, IsAround(k), NEW c, Good(k, c)
    PROVE  Good(k, Settled(c)) /\ (c.state = "Closed" => Armed(Settled(c)) = {})
<1> DEFINE d == Settled(c)
<1>1. Typed(c) /\ AckOK(k, c) /\ ArrOK(k, c) /\ OutOK(k, c) /\ DOMAIN c = Fields
  BY DEF Good, Typed
<1>2. CASE c.state # "Closed"
  <2>1. Core(k, c) /\ Owed(c) /\ CovOK(k, c)
    BY <1>2, GoodCore
  <2>2. Same(c, d, {"out"}) /\ d.out = <<>>
    BY <1>1, <1>2, SettledOpen
  <2> HIDE DEF d
  <2>3. /\ DOMAIN d = Fields
        /\ d.state = c.state /\ d.iss = c.iss /\ d.snd_una = c.snd_una /\ d.snd_nxt = c.snd_nxt
        /\ d.snd_max = c.snd_max /\ d.send_buf = c.send_buf
        /\ d.buf_seq = c.buf_seq /\ d.fin_queued = c.fin_queued
        /\ d.snd_wnd = c.snd_wnd /\ d.cwnd = c.cwnd /\ d.ssthresh = c.ssthresh
        /\ d.retries = c.retries /\ d.unacked_segments = c.unacked_segments
        /\ d.irs = c.irs /\ d.rcv_nxt = c.rcv_nxt /\ d.rcv_offset = c.rcv_offset
        /\ d.out_of_order = c.out_of_order /\ d.recv_buf = c.recv_buf
        /\ d.peer_fin_seq = c.peer_fin_seq /\ d.fin_received = c.fin_received
        /\ d.in_recovery = c.in_recovery /\ d.recover = c.recover
        /\ d.retransmit = c.retransmit /\ d.persist = c.persist
        /\ d.delayed_ack = c.delayed_ack /\ d.time_wait = c.time_wait
    BY <2>2 DEF Same, Fields, NewConnection
  <2>4. Una(d) = Una(c) /\ Nxt(d) = Nxt(c) /\ Top(d) = Top(c) /\ Buf(d) = Buf(c)
        /\ End(d) = End(c) /\ Pos(k, d) = Pos(k, c)
    BY <2>3 DEF Una, Nxt, Top, Buf, End, Pos
  <2>5. Typed(d)
    <3>1. /\ c.fin_received \in BOOLEAN /\ c.retransmit \in BOOLEAN /\ c.persist \in BOOLEAN
          /\ c.delayed_ack \in BOOLEAN /\ c.time_wait \in BOOLEAN /\ c.fin_queued \in BOOLEAN
      BY <1>1, Zenon DEF Typed
    <3>2. /\ d.fin_received \in BOOLEAN /\ d.retransmit \in BOOLEAN /\ d.persist \in BOOLEAN
          /\ d.delayed_ack \in BOOLEAN /\ d.time_wait \in BOOLEAN /\ d.fin_queued \in BOOLEAN
      BY <2>3, <3>1, Zenon
    <3> QED BY <1>1, <2>3, <3>2 DEF Typed
  <2>6. AckOK(k, d) /\ ArrOK(k, d)
    BY <1>1, <2>3, <2>4 DEF AckOK, ArrOK
  <2>7. OutOK(k, d)
    BY <2>2 DEF OutOK
  <2>8. SndOK(k, d)
    BY <2>1, <2>3, <2>4 DEF Core, SndOK
  <2>9. RcvOK(k, d)
    BY <2>1, <2>3, <2>4 DEF Core, RcvOK, PeerKnown, Accepting, Receiving
  <2>10. StateOK(d) /\ TimOK(d)
    BY <2>1, <2>3, <2>4 DEF Core, StateOK, NumsOK, TimOK, Timed, Quiet, PeerKnown, Handshake
  <2>11. Owed(d)
    BY <2>1, <2>3 DEF Owed, Receiving
  <2>12. CovOK(k, d)
    BY <2>1, <2>3 DEF CovOK, Unsent, Sending, FinSent, FinSeq
  <2>13. Good(k, d)
    BY <1>2, <2>3, <2>5, <2>6, <2>7, <2>8, <2>9, <2>10, <2>11, <2>12 DEF Good
  <2> QED BY <1>2, <2>13 DEF d
<1>3. CASE c.state = "Closed"
  <2>1. Leftover(c, d)
    BY <1>1, <1>3, SettledClosed
  <2>2. ~d.retransmit /\ ~d.persist /\ ~d.delayed_ack /\ ~d.time_wait
    BY <1>3, SettledStill
  <2>3. Armed(d) = {}
    BY <2>2, ArmedNone
  <2> HIDE DEF d
  <2>4. Una(d) = Una(c) /\ Buf(d) = Buf(c) /\ Pos(k, d) = Pos(k, c)
    BY <2>1 DEF Leftover, Una, Buf, Pos
  <2>5. Typed(d)
    <3>1. c.fin_received \in BOOLEAN /\ c.fin_queued \in BOOLEAN
      BY <1>1, Zenon DEF Typed
    <3>2. d.fin_received \in BOOLEAN /\ d.fin_queued \in BOOLEAN
      BY <2>1, <3>1, Zenon DEF Leftover
    <3>3. /\ d.retransmit \in BOOLEAN /\ d.persist \in BOOLEAN
          /\ d.delayed_ack \in BOOLEAN /\ d.time_wait \in BOOLEAN
      <4>1. /\ DOMAIN d = Fields
        BY <2>1 DEF Leftover
      <4> QED BY <1>3 DEF d, Settled, NewConnection
    <3>4. 0 \in Nos /\ CwndCap \in Nat \ {0}
      BY HalfIsHalf, Sizes DEF Nos
    <3> QED BY <1>1, <2>1, <3>2, <3>3, <3>4 DEF Typed, Leftover, States
  <2>6. AckOK(k, d) /\ ArrOK(k, d)
    BY <1>1, <2>1, <2>4 DEF AckOK, ArrOK, Leftover
  <2>7. OutOK(k, d)
    BY <2>1 DEF OutOK, Leftover
  <2>8. d.send_buf = <<>> /\ d.state = "Closed"
    BY <1>3, <2>1 DEF Good, Leftover
  <2>9. Good(k, d)
    BY <2>5, <2>6, <2>7, <2>8 DEF Good
  <2> QED BY <2>3, <2>9 DEF d
<1> QED BY <1>2, <1>3

-----------------------------------------------------------------------------
(* The other side: its streams have grown by a step of the peer. *)

\* How far the peer has sent is a number, below half of them while the peer is there.
LEMMA ReachType ==
    ASSUME NEW k, IsAround(k)
    PROVE  /\ Reach(k) \in Nat /\ (k.gone => Reach(k) = M) /\ (~k.gone => Reach(k) < Half)
           /\ k.irs \in Nos /\ k.iss \in Nos /\ k.top \in Nos
<1>1. k.irs \in Nos /\ k.iss \in Nos /\ k.top \in Nos
  BY DEF IsAround
<1>2. SeqSub(k.top, k.irs) \in Nos /\ M \in Nat
  BY <1>1, SubCases, HalfIsHalf
<1>3. ~k.gone => SeqSub(k.top, k.irs) < Half
  BY DEF IsAround
<1>4. Nos \subseteq Nat
  BY HalfIsHalf DEF Nos
<1> QED BY <1>1, <1>2, <1>3, <1>4 DEF Reach

\* A stream that was written on is the same as far as it went.
LEMMA GrownPeer ==
    ASSUME NEW k, IsAround(k), NEW w, Grown(k, w)
    PROVE  /\ k.peer \in Seq(Nat) /\ Len(k.peer) <= Len(w.peer)
           /\ Len(k.peer) \in Nat /\ Len(w.peer) \in Nat
           /\ k.ended => w.peer = k.peer
           /\ \A a \in Nat \ {0} : \A b \in Nat :
                b <= Len(k.peer) /\ a <= b + 1 => SubSeq(w.peer, a, b) = SubSeq(k.peer, a, b)
<1>1. k.peer \in Seq(Nat) /\ Len(k.peer) \in Nat
  BY LenProperties DEF IsAround
<1>2. CASE w.peer = k.peer
  BY <1>1, <1>2
<1>3. CASE ~k.ended /\ \E byte \in Nat : w.peer = Append(k.peer, byte)
  <2>1. PICK byte \in Nat : w.peer = Append(k.peer, byte)
    BY <1>3
  <2> DEFINE s == k.peer
  <2>2. s \in Seq(Nat) /\ Len(s) \in Nat /\ w.peer = Append(s, byte)
    BY <1>1, <2>1
  <2> HIDE DEF s
  <2>3. Len(w.peer) = Len(s) + 1
    BY <2>2, AppendProperties
  <2>4. ASSUME NEW a \in Nat \ {0}, NEW b \in Nat, b <= Len(s), a <= b + 1
        PROVE  SubSeq(w.peer, a, b) = SubSeq(s, a, b)
    <3>1. a <= Len(s) + 1
      BY <2>2, <2>4
    <3> QED BY <2>2, <2>4, <3>1, PieceGrown
  <2>5. Len(s) <= Len(w.peer) /\ Len(w.peer) \in Nat
    BY <2>2, <2>3
  <2> QED BY <1>1, <1>3, <2>4, <2>5 DEF s
<1> QED BY <1>2, <1>3 DEF Grown

\* A piece of the peer's stream stays when the stream grows.
LEMMA GrownPiece ==
    ASSUME NEW k, IsAround(k), NEW w, Grown(k, w),
           NEW a \in Nat \ {0}, NEW b \in Nat, b <= Len(k.peer), a <= b + 1
    PROVE  SubSeq(w.peer, a, b) = SubSeq(k.peer, a, b)
BY GrownPeer

\* Arrives in terms of Reach.
LEMMA ArrivesReach ==
    ASSUME NEW k, NEW seg
    PROVE  Arrives(k, seg) <=> Belongs(k.irs, k.iss, k.peer, k.ended, k.heard, Reach(k), seg)
BY DEF Arrives, Reach

\* A segment of an unfinished stream is a segment of the stream with one more byte.
LEMMA WrittenOn ==
    ASSUME NEW iss \in Nos, NEW irs \in Nos, NEW s \in Seq(Nat), NEW byte \in Nat,
           NEW ended, ~ended,
           NEW pos, NEW horizon, NEW seg, Belongs(iss, irs, s, ended, pos, horizon, seg)
    PROVE  Belongs(iss, irs, Append(s, byte), ended, pos, horizon, seg)
<1> DEFINE w == Append(s, byte)
           p == SeqSub(seg.seq, iss)
           n == Len(seg.data)
           m == Len(s)
<1>1. seg \in Segs
  BY DEF Belongs
<1>2. SUFFICES ASSUME "Rst" \notin seg.flags
      PROVE  /\ SegmentLength(seg) > 0 => p < horizon
             /\ "Syn" \in seg.flags => p = 0
             /\ seg.data # <<>> => /\ p >= 1 /\ p + n <= Len(w) + 1
                                   /\ seg.data = SubSeq(w, p, p + n - 1)
             /\ "Fin" \notin seg.flags
             /\ "Ack" \in seg.flags => SeqSub(seg.ack, irs) \in 1 .. pos
             /\ "Ack" \notin seg.flags => "Syn" \in seg.flags
  BY <1>1 DEF Belongs
<1>3. /\ SegmentLength(seg) > 0 => p < horizon
      /\ "Syn" \in seg.flags => p = 0
      /\ seg.data # <<>> => p >= 1 /\ p + n <= m + 1 /\ seg.data = SubSeq(s, p, p + n - 1)
      /\ "Fin" \notin seg.flags
      /\ "Ack" \in seg.flags => SeqSub(seg.ack, irs) \in 1 .. pos
      /\ "Ack" \notin seg.flags => "Syn" \in seg.flags
  BY <1>2 DEF Belongs
<1>4. p \in Nat /\ n \in Nat /\ m \in Nat
  <2>1. seg.seq \in Nos /\ seg.data \in Seq(Nat)
    BY <1>1 DEF Segs
  <2>2. p \in Nos
    BY <2>1, SubCases
  <2> HIDE DEF p
  <2> QED BY <2>1, <2>2, LenProperties DEF Nos
<1>5. ASSUME seg.data # <<>>
      PROVE  p + n <= Len(w) + 1 /\ seg.data = SubSeq(w, p, p + n - 1)
  <2>1. p >= 1 /\ p + n <= m + 1 /\ seg.data = SubSeq(s, p, p + n - 1)
    BY <1>3, <1>5
  <2> HIDE DEF p, n
  <2>2. p \in Nat \ {0} /\ p <= m + 1 /\ p + n - 1 \in Nat /\ p + n - 1 <= m /\ p <= p + n - 1 + 1
    BY <1>4, <2>1
  <2> DEFINE b == p + n - 1
  <2>3. SubSeq(w, p, b) = SubSeq(s, p, b) /\ Len(w) = m + 1
    <3>1. b \in Nat /\ b <= m /\ p <= b + 1
      BY <2>2
    <3> HIDE DEF b
    <3> QED BY <2>2, <3>1, PieceGrown
  <2> QED BY <1>4, <2>1, <2>3
<1> QED BY <1>3, <1>5

\* A segment under way stays one of the sender's stream.
LEMMA ArrivesGrown ==
    ASSUME NEW k, IsAround(k), NEW w, IsAround(w), Grown(k, w), NEW seg, Arrives(k, seg)
    PROVE  Arrives(w, seg)
<1>1. k.irs \in Nos /\ k.iss \in Nos /\ k.peer \in Seq(Nat) /\ k.heard \in Nat /\ w.heard \in Nat
  BY DEF IsAround
<1>2. Reach(k) \in Nat /\ Reach(w) \in Nat
  BY ReachType
<1>3. Belongs(k.irs, k.iss, k.peer, k.ended, k.heard, Reach(k), seg)
  BY ArrivesReach
<1>4. Belongs(k.irs, k.iss, w.peer, k.ended, k.heard, Reach(k), seg) /\ w.peer \in Seq(Nat)
  <2>1. CASE w.peer = k.peer
    BY <1>1, <1>3, <2>1
  <2>2. CASE ~k.ended /\ \E byte \in Nat : w.peer = Append(k.peer, byte)
    <3>1. PICK byte \in Nat : w.peer = Append(k.peer, byte)
      BY <2>2
    <3>2. Belongs(k.irs, k.iss, Append(k.peer, byte), k.ended, k.heard, Reach(k), seg)
      BY <1>1, <1>3, <2>2, WrittenOn
    <3> QED BY <1>1, <3>1, <3>2 DEF IsAround
  <2> QED BY <2>1, <2>2 DEF Grown
<1>5. (k.ended => w.ended) /\ k.heard <= w.heard /\ Reach(k) <= Reach(w)
      /\ w.irs = k.irs /\ w.iss = k.iss
  BY DEF Grown
<1>6. Belongs(k.irs, k.iss, w.peer, w.ended, w.heard, Reach(w), seg)
  <2> DEFINE e == k.ended
             e2 == w.ended
             h == k.heard
             h2 == w.heard
             r == Reach(k)
             r2 == Reach(w)
             s == w.peer
  <2>1. /\ (e => e2) /\ h \in Nat /\ h2 \in Nat /\ h <= h2 /\ r \in Nat /\ r2 \in Nat /\ r <= r2
        /\ s \in Seq(Nat) /\ Belongs(k.irs, k.iss, s, e, h, r, seg)
    BY <1>1, <1>2, <1>4, <1>5
  <2> HIDE DEF e, e2, h, h2, r, r2, s
  <2>2. Belongs(k.irs, k.iss, s, e2, h2, r2, seg)
    BY ONLY <1>1, <2>1, BelongsGrows
  <2> QED BY <2>2 DEF e2, h2, r2, s
<1> QED BY <1>5, <1>6, ArrivesReach

\* What is unsent stays covered when the peer goes on.
LEMMA CoveredGrown ==
    ASSUME NEW k, IsAround(k), NEW w, IsAround(w), Grown(k, w), NEW c, Core(k, c), CovOK(k, c)
    PROVE  CovOK(w, c)
<1>1. SUFFICES ASSUME Unsent(c), ~k.gone, ~w.gone, SeqLt(c.rcv_nxt, k.top)
               PROVE  SeqLt(c.rcv_nxt, w.top)
  <2>1. k.gone => w.gone
    <3>1. Reach(k) <= Reach(w) /\ M \in Nat /\ Half \in Nat /\ M = 2 * Half /\ Half > 2
      BY HalfIsHalf DEF Grown
    <3>2. k.gone => Reach(k) = M
      BY ReachType
    <3>3. ~w.gone => Reach(w) < Half /\ Reach(w) \in Nat
      BY ReachType
    <3> QED BY <3>1, <3>2, <3>3
  <2> QED BY <2>1 DEF CovOK
<1>2. PeerKnown(c)
  BY <1>1 DEF Unsent, Sending, PeerKnown
<1>3. RcvOK(k, c) /\ ArrOK(k, c) /\ Typed(c)
  BY DEF Core
<1>4. SeqSub(c.rcv_nxt, k.irs) = Pos(k, c) /\ c.rcv_nxt \in Nos
  BY <1>2, <1>3 DEF RcvOK, Typed
<1>5. Pos(k, c) < Half
  <2> DEFINE x == k.read
             y == Len(c.recv_buf)
             o == One(c.fin_received)
             l == Len(k.peer)
  <2>1. x \in Nat /\ l + 2 < Half /\ k.peer \in Seq(Nat)
    BY DEF IsAround
  <2>2. y \in Nat /\ o \in 0 .. 1 /\ l \in Nat /\ Half \in Nat
    BY <1>3, <2>1, PosType, LenProperties, HalfIsHalf
  <2>3. x + y <= l
    BY <1>3 DEF ArrOK
  <2>4. Pos(k, c) = 1 + x + y + o
    BY DEF Pos
  <2> HIDE DEF x, y, o, l
  <2> QED BY <2>1, <2>2, <2>3, <2>4
<1>6. /\ k.top \in Nos /\ w.top \in Nos /\ k.irs \in Nos /\ w.irs = k.irs
      /\ SeqSub(k.top, k.irs) < Half /\ SeqSub(w.top, k.irs) < Half
      /\ SeqSub(k.top, k.irs) <= SeqSub(w.top, k.irs)
  BY <1>1 DEF IsAround, Grown, Reach
<1>7. Pos(k, c) < SeqSub(k.top, k.irs)
  BY <1>1, <1>4, <1>5, <1>6, SubOrder
<1>8. Pos(k, c) < SeqSub(w.top, k.irs)
  <2>1. SeqSub(k.top, k.irs) \in Nos /\ SeqSub(w.top, k.irs) \in Nos /\ Nos \subseteq Nat
    <3>1. k.top \in Nos /\ w.top \in Nos /\ k.irs \in Nos
      BY <1>6
    <3>2. SeqSub(k.top, k.irs) \in Nos /\ SeqSub(w.top, k.irs) \in Nos
      BY ONLY <3>1, SubCases
    <3> QED BY <3>2, HalfIsHalf DEF Nos
  <2>2. Pos(k, c) \in Nat
    BY <1>3, PosType
  <2> DEFINE x == Pos(k, c)
             y == SeqSub(k.top, k.irs)
             z == SeqSub(w.top, k.irs)
  <2>3. x \in Nat /\ y \in Nat /\ z \in Nat /\ x < y /\ y <= z
    BY <1>6, <1>7, <2>1, <2>2
  <2> HIDE DEF x, y, z
  <2>4. x < z
    BY <2>3
  <2> QED BY <2>4 DEF x, z
<1> QED BY <1>4, <1>5, <1>6, <1>8, SubOrder

\* What is good for a connection stays so when the peer's stream has grown.
LEMMA GoodGrown ==
    ASSUME NEW k, IsAround(k), NEW w, IsAround(w), Grown(k, w), NEW c, Good(k, c)
    PROVE  Good(w, c)
<1>1. Typed(c) /\ AckOK(k, c) /\ ArrOK(k, c) /\ OutOK(k, c)
  BY DEF Good
<1>2. /\ w.iss = k.iss /\ w.irs = k.irs /\ w.sent = k.sent /\ w.read = k.read
      /\ k.heard <= w.heard /\ (k.ended => w.ended)
  BY DEF Grown
<1>3. Pos(w, c) = Pos(k, c)
  BY <1>2 DEF Pos
<1>4. /\ k.peer \in Seq(Nat) /\ Len(k.peer) <= Len(w.peer)
      /\ Len(k.peer) \in Nat /\ Len(w.peer) \in Nat
      /\ k.ended => w.peer = k.peer
      /\ \A a \in Nat \ {0} : \A b \in Nat :
              b <= Len(k.peer) /\ a <= b + 1 => SubSeq(w.peer, a, b) = SubSeq(k.peer, a, b)
  BY GrownPeer
<1>5. AckOK(w, c)
  <2>1. k.heard \in Nat /\ w.heard \in Nat
    BY DEF IsAround
  <2>2. Una(c) \in Nos /\ Nos \subseteq Nat
    BY <1>1, OffsetType, HalfIsHalf DEF Nos
  <2>3. Una(c) <= k.heard
    BY <1>1 DEF AckOK
  <2>4. Una(c) <= w.heard
    <3> DEFINE x == Una(c)
    <3>1. x \in Nat /\ x <= k.heard
      BY <2>2, <2>3
    <3> HIDE DEF x
    <3>2. x <= w.heard
      BY <1>2, <2>1, <3>1
    <3> QED BY <3>2 DEF x
  <2> QED BY <1>1, <1>2, <2>4 DEF AckOK
<1>6. ArrOK(w, c)
  <2> DEFINE x == k.read
             e == k.read + Len(c.recv_buf)
  <2>1. x \in Nat /\ e \in Nat /\ x <= e /\ e <= Len(k.peer) /\ c.recv_buf = SubSeq(k.peer, x + 1, e)
    <3>1. Len(c.recv_buf) \in Nat /\ k.read \in Nat
      BY <1>1, PosType DEF IsAround
    <3> QED BY <1>1, <3>1 DEF ArrOK
  <2>2. w.read = x /\ w.read + Len(c.recv_buf) = e
    BY <1>2
  <2>3. c.fin_received => k.ended /\ e = Len(k.peer)
    BY <1>1 DEF ArrOK
  <2> HIDE DEF x, e
  <2>4. SubSeq(w.peer, x + 1, e) = SubSeq(k.peer, x + 1, e) /\ e <= Len(w.peer)
    <3> DEFINE a == x + 1
    <3>1. a \in Nat \ {0} /\ a <= e + 1
      BY <2>1
    <3> HIDE DEF a
    <3>2. SubSeq(w.peer, a, e) = SubSeq(k.peer, a, e)
      BY <2>1, <3>1, GrownPiece
    <3> QED BY <1>4, <2>1, <3>2 DEF a
  <2> QED BY <1>2, <1>4, <2>1, <2>2, <2>3, <2>4 DEF ArrOK
<1>7. OutOK(w, c)
  BY <1>1, <1>2, <1>3 DEF OutOK, Leaves
<1>8. CASE c.state = "Closed"
  BY <1>1, <1>5, <1>6, <1>7, <1>8 DEF Good
<1>9. CASE c.state # "Closed"
  <2>1. SndOK(k, c) /\ RcvOK(k, c) /\ StateOK(c) /\ TimOK(c) /\ Owed(c) /\ CovOK(k, c) /\ Core(k, c)
    BY <1>9, GoodCore DEF Good
  <2>2. SndOK(w, c)
    BY <1>2, <2>1 DEF SndOK
  <2>3. RcvOK(w, c)
    <3>1. c.peer_fin_seq # NoSeq =>
              w.ended /\ c.peer_fin_seq \in Nos /\ SeqSub(c.peer_fin_seq, w.irs) = Len(w.peer) + 1
      BY <1>2, <1>4, <2>1 DEF RcvOK
    <3>2. ASSUME NEW o \in DOMAIN c.out_of_order
          PROVE  LET piece == c.out_of_order[o] IN
                  /\ piece \in Seq(Nat) /\ o + Len(piece) <= Len(w.peer)
                  /\ piece = SubSeq(w.peer, o + 1, o + Len(piece))
      <4> DEFINE piece == c.out_of_order[o]
                 e == o + Len(piece)
      <4>1. piece \in Seq(Nat) /\ e <= Len(k.peer) /\ piece = SubSeq(k.peer, o + 1, e) /\ o \in Nat
        BY <2>1 DEF RcvOK
      <4>2. Len(piece) \in Nat
        BY <4>1, LenProperties
      <4> DEFINE l == Len(piece)
                 a == o + 1
      <4>3. e \in Nat /\ a \in Nat \ {0} /\ a <= e + 1
        <5>1. o \in Nat /\ l \in Nat
          BY <4>1, <4>2
        <5> HIDE DEF l
        <5>2. o + l \in Nat /\ o + 1 <= o + l + 1 /\ o + 1 \in Nat \ {0}
          BY <5>1
        <5> QED BY <5>2 DEF l
      <4> HIDE DEF piece, e
      <4>4. SubSeq(w.peer, o + 1, e) = SubSeq(k.peer, o + 1, e) /\ e <= Len(w.peer)
        <5> HIDE DEF a
        <5>1. SubSeq(w.peer, a, e) = SubSeq(k.peer, a, e)
          <6>1. IsAround(k) /\ Grown(k, w)
            OBVIOUS
          <6>2. e \in Nat /\ e <= Len(k.peer) /\ a \in Nat \ {0} /\ a <= e + 1
            BY <4>1, <4>3
          <6> QED BY ONLY <6>1, <6>2, GrownPiece
        <5>2. e <= Len(w.peer)
          <6>1. e \in Nat /\ e <= Len(k.peer) /\ Len(k.peer) <= Len(w.peer)
                /\ Len(k.peer) \in Nat /\ Len(w.peer) \in Nat
            BY <1>4, <4>1, <4>3
          <6> QED BY ONLY <6>1
        <5> QED BY <5>1, <5>2 DEF a
      <4> QED BY <4>1, <4>4 DEF piece, e
    <3> QED BY <1>2, <1>3, <2>1, <3>1, <3>2 DEF RcvOK
  <2>4. CovOK(w, c)
    BY <2>1, CoveredGrown
  <2> QED BY <1>1, <1>5, <1>6, <1>7, <1>9, <2>1, <2>2, <2>3, <2>4 DEF Good
<1> QED BY <1>8, <1>9

-----------------------------------------------------------------------------
(* The wire. *)

\* What is taken off the wire leaves the rest in order.
LEMMA RemoveAtFacts ==
    ASSUME NEW S, NEW s \in Seq(S), NEW i \in 1..Len(s)
    PROVE  /\ RemoveAt(s, i) \in Seq(S)
           /\ Len(RemoveAt(s, i)) = Len(s) - 1
           /\ \A j \in 1..(Len(s) - 1) :
                 RemoveAt(s, i)[j] = IF j < i THEN s[j] ELSE s[j + 1]
<1> DEFINE a == SubSeq(s, 1, i - 1)
           b == SubSeq(s, i + 1, Len(s))
<1>1. a \in Seq(S) /\ Len(a) = i - 1 /\ \A j \in 1..(i - 1) : a[j] = s[j]
  OBVIOUS
<1>2. b \in Seq(S) /\ Len(b) = Len(s) - i /\ \A j \in 1..(Len(s) - i) : b[j] = s[j + i]
  OBVIOUS
<1>3. RemoveAt(s, i) = a \o b
  BY DEF RemoveAt
<1> HIDE DEF a, b
<1>4. a \o b \in Seq(S) /\ Len(a \o b) = Len(s) - 1
  <2>1. a \o b \in Seq(S) /\ Len(a \o b) = Len(a) + Len(b)
    BY <1>1, <1>2, ConcatProperties, Zenon
  <2> QED BY <1>1, <1>2, <2>1
<1>5. ASSUME NEW j \in 1..(Len(s) - 1)
      PROVE  (a \o b)[j] = IF j < i THEN s[j] ELSE s[j + 1]
  <2>1. CASE j < i
    BY <1>1, <1>2, <2>1
  <2>2. CASE ~(j < i)
    <3>1. (a \o b)[j] = b[j - (i - 1)]
      BY <1>1, <1>2, <2>2
    <3>2. b[j - (i - 1)] = s[j + 1]
      BY <1>2, <2>2
    <3> QED BY <2>2, <3>1, <3>2
  <2> QED BY <2>1, <2>2
<1> QED BY <1>3, <1>4, <1>5

\* Taking a segment off the wire leaves segments that may arrive.
LEMMA AllTakenOff ==
    ASSUME NEW k, NEW s, AllArrive(k, s), NEW j \in 1 .. Len(s)
    PROVE  AllArrive(k, RemoveAt(s, j))
<1> DEFINE r == RemoveAt(s, j)
<1>1. s \in Seq(Segs) /\ Len(s) \in Nat
  BY LenProperties DEF AllArrive
<1>2. /\ r \in Seq(Segs) /\ Len(r) = Len(s) - 1
      /\ \A i \in 1 .. (Len(s) - 1) : r[i] = IF i < j THEN s[i] ELSE s[i + 1]
  BY <1>1, RemoveAtFacts
<1> HIDE DEF r
<1>3. ASSUME NEW i \in 1 .. Len(r) PROVE Arrives(k, r[i])
  <2> DEFINE a == IF i < j THEN i ELSE i + 1
  <2>1. a \in 1 .. Len(s) /\ r[i] = s[a]
    BY <1>1, <1>2
  <2> HIDE DEF a
  <2> QED BY <2>1 DEF AllArrive
<1> QED BY <1>2, <1>3 DEF AllArrive, r

\* Putting such segments on leaves such segments.
LEMMA AllPutOn ==
    ASSUME NEW k, NEW s, AllArrive(k, s), NEW t, AllArrive(k, t)
    PROVE  AllArrive(k, s \o t)
<1> DEFINE u == s \o t
<1>1. s \in Seq(Segs) /\ t \in Seq(Segs) /\ Len(s) \in Nat /\ Len(t) \in Nat
  BY LenProperties DEF AllArrive
<1>2. /\ u \in Seq(Segs) /\ Len(u) = Len(s) + Len(t)
      /\ \A i \in 1 .. Len(s) + Len(t) : u[i] = IF i <= Len(s) THEN s[i] ELSE t[i - Len(s)]
  BY <1>1, ConcatProperties
<1> HIDE DEF u
<1>3. ASSUME NEW i \in 1 .. Len(u) PROVE Arrives(k, u[i])
  <2>1. CASE i <= Len(s)
    BY <1>1, <1>2, <2>1 DEF AllArrive
  <2>2. CASE ~(i <= Len(s))
    <3> DEFINE a == i - Len(s)
    <3>1. a \in 1 .. Len(t) /\ u[i] = t[a]
      BY <1>1, <1>2, <2>2
    <3> HIDE DEF a
    <3> QED BY <3>1 DEF AllArrive
  <2> QED BY <2>1, <2>2
<1> QED BY <1>2, <1>3 DEF AllArrive, u

\* Segments that may arrive may still arrive when the sender goes on.
LEMMA AllGrown ==
    ASSUME NEW k, IsAround(k), NEW w, IsAround(w), Grown(k, w), NEW s, AllArrive(k, s)
    PROVE  AllArrive(w, s)
BY ArrivesGrown DEF AllArrive

\* They depend on what surrounds the connection as Arrives says.
LEMMA AllSame ==
    ASSUME NEW k, NEW w, NEW s, AllArrive(k, s),
           w.irs = k.irs, w.iss = k.iss, w.peer = k.peer, w.ended = k.ended,
           w.heard = k.heard, w.top = k.top, w.gone = k.gone
    PROVE  AllArrive(w, s)
<1>1. \A seg : Arrives(w, seg) <=> Arrives(k, seg)
  BY DEF Arrives
<1> QED BY <1>1 DEF AllArrive

-----------------------------------------------------------------------------
(* How a connection looks from the other side. *)

\* What surrounds the other side when this side's connection is good.
LEMMA MirrorIs ==
    ASSUME NEW w, IsAround(w), NEW c, Good(w, c), NEW x, Mirror(w, c, x)
    PROVE  IsAround(x) /\ Reach(x) = Horizon(c)
<1>1. Typed(c) /\ AckOK(w, c) /\ ArrOK(w, c)
  BY DEF Good
<1>2. c.state # "Closed" => Core(w, c)
  BY GoodCore
<1>3. c.state # "Closed" => Top(c) < Half /\ Top(c) = SeqSub(x.top, x.irs)
  <2>1. c.iss = w.iss
    BY <1>1 DEF AckOK
  <2> QED BY <1>2, <2>1, CorePlaces DEF Mirror, Top
<1>4. Reach(x) = Horizon(c)
  BY <1>3 DEF Mirror, Reach, Horizon
<1>5. Pos(w, c) \in Nat /\ Pos(w, c) <= Len(w.peer) + 2
  <2> DEFINE a == w.read
             y == Len(c.recv_buf)
             o == One(c.fin_received)
             l == Len(w.peer)
  <2>1. a \in Nat /\ w.peer \in Seq(Nat)
    BY DEF IsAround
  <2>2. y \in Nat /\ o \in 0 .. 1 /\ l \in Nat
    BY <1>1, <2>1, PosType, LenProperties
  <2>3. a + y <= l
    BY <1>1 DEF ArrOK
  <2>4. Pos(w, c) = 1 + a + y + o
    BY DEF Pos
  <2> HIDE DEF a, y, o, l
  <2>5. Pos(w, c) \in Nat /\ Pos(w, c) <= l + 2
    BY <2>1, <2>2, <2>3, <2>4
  <2> QED BY <2>5 DEF l
<1>6. c.fin_queued \in BOOLEAN
  BY <1>1, Zenon DEF Typed
<1>7. x.ended \in BOOLEAN /\ x.gone \in BOOLEAN
  BY <1>6 DEF Mirror
<1>8. ~x.gone => SeqSub(x.top, x.irs) < Half
  BY <1>3 DEF Mirror
<1>9. IsAround(x)
  BY <1>5, <1>7, <1>8 DEF Mirror, IsAround
<1> QED BY <1>4, <1>9

\* What surrounds the other side grows when this side goes onward.
LEMMA MirrorGrown ==
    ASSUME NEW k, IsAround(k), NEW c, Good(k, c), NEW x, Mirror(k, c, x),
           NEW w, IsAround(w), NEW d, Good(w, d), NEW y, Mirror(w, d, y),
           Onward(k, c, w, d), y.read = x.read,
           w.iss = k.iss, w.irs = k.irs, w.peer = k.peer,
           w.sent = k.sent \/ (~c.fin_queued /\ \E byte \in Nat : w.sent = Append(k.sent, byte))
    PROVE  Grown(x, y)
<1>1. Reach(x) = Horizon(c) /\ Reach(y) = Horizon(d)
  BY MirrorIs
<1>2. /\ c.fin_queued => d.fin_queued
      /\ Horizon(c) <= Horizon(d) /\ Pos(k, c) <= Pos(w, d)
  BY DEF Onward
<1> QED BY <1>1, <1>2 DEF Grown, Mirror

\* What a connection has sent arrives at the other side.
LEMMA MirrorOut ==
    ASSUME NEW w, IsAround(w), NEW c, Good(w, c), NEW x, Mirror(w, c, x)
    PROVE  AllArrive(x, c.out)
<1>1. OutOK(w, c)
  BY DEF Good
<1>2. Reach(x) = Horizon(c)
  BY MirrorIs
<1>3. ASSUME NEW i \in 1 .. Len(c.out) PROVE Arrives(x, c.out[i])
  <2>1. Leaves(w, c, c.out[i])
    BY <1>1 DEF OutOK
  <2>2. Belongs(x.irs, x.iss, x.peer, x.ended, x.heard, Reach(x), c.out[i])
    BY <1>2, <2>1 DEF Leaves, Mirror
  <2> QED BY <2>2, ArrivesReach
<1> QED BY <1>1, <1>3 DEF AllArrive, OutOK

-----------------------------------------------------------------------------
(* One step: the handler at p leaves connection c. *)

\* What a handler changes of the two connections and the wires.
LEMMA HandledParts ==
    ASSUME NEW p \in Sides, DOMAIN conn = Sides, DOMAIN wire = Sides,
           NEW c, NEW i, NEW mishaps, Handled(p, c, i, mishaps)
    PROVE  /\ DOMAIN conn' = Sides /\ DOMAIN wire' = Sides
           /\ conn'[p] = Settled(c) /\ conn'[Peer(p)] = conn[Peer(p)]
           /\ wire'[p] = wire[p] \/ (i # 0 /\ wire'[p] = RemoveAt(wire[p], i))
           /\ wire'[Peer(p)] = wire[Peer(p)] \o c.out
<1>1. Peer(p) \in Sides /\ Peer(p) # p
  BY Peers
<1>2. conn' = [conn EXCEPT ![p] = Settled(c)]
  BY DEF Handled
<1>3. PICK arrived \in IF i = 0 THEN {wire[p]} ELSE {wire[p], RemoveAt(wire[p], i)} :
          wire' = [wire EXCEPT ![p] = arrived, ![Peer(p)] = @ \o c.out]
  BY DEF Handled
<1>4. wire'[p] = arrived /\ wire'[Peer(p)] = wire[Peer(p)] \o c.out /\ DOMAIN wire' = Sides
  BY <1>1, <1>3
<1>5. arrived = wire[p] \/ (i # 0 /\ arrived = RemoveAt(wire[p], i))
  BY <1>3
<1> QED BY <1>1, <1>2, <1>4, <1>5

\* The fields of Around.
LEMMA AroundFields ==
    ASSUME NEW p \in Sides
    PROVE  LET k == Around(p)
               q == Peer(p)
           IN  /\ k.iss = Iss[p] /\ k.irs = Iss[q] /\ k.sent = sent[p] /\ k.read = Len(read[p])
               /\ k.peer = sent[q] /\ k.ended = conn[q].fin_queued
               /\ k.heard = 1 + Len(read[q]) + Len(conn[q].recv_buf) + One(conn[q].fin_received)
               /\ k.top = conn[q].snd_max /\ k.gone = (conn[q].state = "Closed")
BY DEF Around

\* The fields of Around after a step.
LEMMA AroundNext ==
    ASSUME NEW p \in Sides
    PROVE  LET k == Around(p)'
               q == Peer(p)
           IN  /\ k.iss = Iss[p] /\ k.irs = Iss[q] /\ k.sent = sent'[p] /\ k.read = Len(read'[p])
               /\ k.peer = sent'[q] /\ k.ended = conn'[q].fin_queued
               /\ k.heard = 1 + Len(read'[q]) + Len(conn'[q].recv_buf) + One(conn'[q].fin_received)
               /\ k.top = conn'[q].snd_max /\ k.gone = (conn'[q].state = "Closed")
BY DEF Around

\* The other side as it was.
LEMMA AroundMirrors ==
    ASSUME Inv, NEW p \in Sides
    PROVE  Mirror(Around(p), conn[p], Around(Peer(p)))
<1> DEFINE q == Peer(p)
           k == Around(p)
           x == Around(q)
           c == conn[p]
<1>1. q \in Sides /\ Peer(q) = p
  BY Peers
<1>2. /\ k.iss = Iss[p] /\ k.irs = Iss[q] /\ k.sent = sent[p] /\ k.read = Len(read[p])
      /\ k.peer = sent[q]
  BY AroundFields
<1>3. /\ x.iss = Iss[q] /\ x.irs = Iss[p] /\ x.sent = sent[q] /\ x.read = Len(read[q])
      /\ x.peer = sent[p] /\ x.ended = c.fin_queued
      /\ x.heard = 1 + Len(read[p]) + Len(c.recv_buf) + One(c.fin_received)
      /\ x.top = c.snd_max /\ x.gone = (c.state = "Closed")
  BY <1>1, AroundFields
<1>4. c.snd_max \in Nos
  BY DEF Inv, Good, Typed
<1>5. read[q] \in Seq(Nat)
  BY <1>1 DEF Inv
<1>6. Len(read[q]) \in Nat
  BY <1>5, LenProperties
<1> HIDE DEF x, k, c
<1>7. Mirror(k, c, x)
  BY <1>2, <1>3, <1>4, <1>6 DEF Mirror, Pos, c
<1> QED BY <1>7 DEF x, k, c

\* The other side as it will be.
LEMMA NextMirrors ==
    ASSUME Inv, NEW p \in Sides, Streamed(p), NEW c, Good(Around(p)', c),
           conn'[p] = Settled(c)
    PROVE  Mirror(Around(p)', c, Around(Peer(p))')
<1> DEFINE q == Peer(p)
           w == Around(p)'
           y == Around(q)'
<1>1. q \in Sides /\ Peer(q) = p
  BY Peers
<1>2. /\ w.iss = Iss[p] /\ w.irs = Iss[q] /\ w.sent = sent'[p] /\ w.read = Len(read'[p])
      /\ w.peer = sent'[q]
  BY AroundNext
<1>3. /\ y.iss = Iss[q] /\ y.irs = Iss[p] /\ y.sent = sent'[q] /\ y.read = Len(read'[q])
      /\ y.peer = sent'[p] /\ y.ended = conn'[p].fin_queued
      /\ y.heard = 1 + Len(read'[p]) + Len(conn'[p].recv_buf) + One(conn'[p].fin_received)
      /\ y.top = conn'[p].snd_max /\ y.gone = (conn'[p].state = "Closed")
  BY <1>1, AroundNext
<1>4. Typed(c) /\ Good(w, c)
  BY DEF Good
<1>5. LET d == conn'[p]
      IN  /\ d.state = c.state /\ d.recv_buf = c.recv_buf
          /\ d.fin_queued = c.fin_queued /\ d.fin_received = c.fin_received
          /\ c.state # "Closed" => d.snd_max = c.snd_max
  BY <1>4, SettledKeeps
<1>6. conn'[p].snd_max \in Nos
  <2>1. CASE c.state # "Closed"
    BY <1>4, <1>5, <2>1 DEF Typed
  <2>2. CASE c.state = "Closed"
    BY <1>4, <2>2, SettledClosed DEF Typed, Leftover
  <2> QED BY <2>1, <2>2
<1>7. read'[q] \in Seq(Nat)
  BY <1>1 DEF Streamed
<1>8. Len(read'[q]) \in Nat
  BY <1>7, LenProperties
<1> HIDE DEF w, y
<1>9. Mirror(w, c, y)
  BY <1>2, <1>3, <1>5, <1>6, <1>8 DEF Mirror, Pos
<1> QED BY <1>9 DEF w, y

\* What surrounds p afterwards.
LEMMA AroundStep ==
    ASSUME Inv, NEW p \in Sides, Streamed(p), conn'[Peer(p)] = conn[Peer(p)]
    PROVE  LET k == Around(p)
               w == Around(p)'
           IN  /\ IsAround(k) /\ IsAround(w)
               /\ w.iss = k.iss /\ w.irs = k.irs /\ w.heard = k.heard
               /\ w.top = k.top /\ w.peer = k.peer /\ w.ended = k.ended /\ w.gone = k.gone
               /\ \/ w.sent = k.sent
                  \/ ~conn[p].fin_queued /\ \E byte \in Nat : w.sent = Append(k.sent, byte)
               /\ w.read = Len(read'[p]) /\ w.sent = sent'[p]
<1> DEFINE q == Peer(p)
           k == Around(p)
           w == Around(p)'
<1>1. q \in Sides
  BY Peers
<1>2. IsAround(k)
  BY AroundIs
<1>3. /\ k.iss = Iss[p] /\ k.irs = Iss[q] /\ k.sent = sent[p] /\ k.read = Len(read[p])
      /\ k.peer = sent[q] /\ k.ended = conn[q].fin_queued
      /\ k.heard = 1 + Len(read[q]) + Len(conn[q].recv_buf) + One(conn[q].fin_received)
      /\ k.top = conn[q].snd_max /\ k.gone = (conn[q].state = "Closed")
  BY AroundFields
<1>4. /\ w.iss = Iss[p] /\ w.irs = Iss[q] /\ w.sent = sent'[p] /\ w.read = Len(read'[p])
      /\ w.peer = sent'[q] /\ w.ended = conn'[q].fin_queued
      /\ w.heard = 1 + Len(read'[q]) + Len(conn'[q].recv_buf) + One(conn'[q].fin_received)
      /\ w.top = conn'[q].snd_max /\ w.gone = (conn'[q].state = "Closed")
  BY AroundNext
<1>5. /\ sent'[q] = sent[q] /\ read'[q] = read[q]
      /\ sent'[p] \in Seq(Nat) /\ read'[p] \in Seq(Nat) /\ sent[p] \in Seq(Nat)
      /\ Len(sent'[p]) <= MaxBytes[p]
      /\ \/ sent'[p] = sent[p]
         \/ ~conn[p].fin_queued /\ \E byte \in Nat : sent'[p] = Append(sent[p], byte)
  BY <1>1 DEF Streamed, Inv
<1>6. Len(sent'[p]) \in Nat /\ Len(read'[p]) \in Nat /\ Len(sent[p]) \in Nat
  BY <1>5, LenProperties
<1>7. Len(sent'[p]) + 2 < Half
  BY <1>5, <1>6, Lifetimes
<1>8. Len(sent[p]) <= Len(sent'[p])
  <2>1. CASE sent'[p] = sent[p]
    BY <1>6, <2>1
  <2>2. CASE \E byte \in Nat : sent'[p] = Append(sent[p], byte)
    <3>1. PICK byte \in Nat : sent'[p] = Append(sent[p], byte)
      BY <2>2
    <3>2. Len(sent'[p]) = Len(sent[p]) + 1
      BY <1>5, <3>1, AppendProperties
    <3> QED BY <1>6, <3>2
  <2> QED BY <1>5, <2>1, <2>2
<1> HIDE DEF k, w
<1>9. /\ w.iss = k.iss /\ w.irs = k.irs /\ w.heard = k.heard
      /\ w.top = k.top /\ w.peer = k.peer /\ w.ended = k.ended /\ w.gone = k.gone
  BY <1>3, <1>4, <1>5
<1>10. k.heard \in Nat /\ k.heard <= Len(sent'[p]) + 2
  <2>1. k.heard \in Nat /\ k.heard <= Len(sent[p]) + 2
    BY <1>2, <1>3 DEF IsAround
  <2> QED BY <1>6, <1>8, <2>1
<1>11. IsAround(w)
  BY <1>2, <1>4, <1>5, <1>6, <1>7, <1>9, <1>10 DEF IsAround
<1>12. \/ w.sent = k.sent
       \/ ~conn[p].fin_queued /\ \E byte \in Nat : w.sent = Append(k.sent, byte)
  BY <1>3, <1>4, <1>5
<1> QED BY <1>2, <1>4, <1>9, <1>11, <1>12 DEF k, w

\* What is put on the wire and what is taken off it.
LEMMA StepInv ==
    ASSUME Inv, NEW p \in Sides, NEW c, NEW i, NEW mishaps, Handled(p, c, i, mishaps),
           i # 0 => i \in 1 .. Len(wire[p]), Streamed(p),
           Good(Around(p)', c), Onward(Around(p), conn[p], Around(p)', c)
    PROVE  Inv'
<1> DEFINE q == Peer(p)
           k == Around(p)
           w == Around(p)'
           x == Around(q)
           y == Around(q)'
<1>1. q \in Sides /\ q # p /\ Peer(q) = p /\ \A s \in Sides : s = p \/ s = q
  BY Peers
<1>2. DOMAIN conn = Sides /\ DOMAIN wire = Sides
  BY DEF Inv
<1>3. /\ DOMAIN conn' = Sides /\ DOMAIN wire' = Sides
      /\ conn'[p] = Settled(c) /\ conn'[q] = conn[q]
      /\ wire'[p] = wire[p] \/ (i # 0 /\ wire'[p] = RemoveAt(wire[p], i))
      /\ wire'[q] = wire[q] \o c.out
  BY <1>2, HandledParts
<1>4. /\ IsAround(k) /\ IsAround(w)
      /\ w.iss = k.iss /\ w.irs = k.irs /\ w.heard = k.heard
      /\ w.top = k.top /\ w.peer = k.peer /\ w.ended = k.ended /\ w.gone = k.gone
      /\ \/ w.sent = k.sent
         \/ ~conn[p].fin_queued /\ \E byte \in Nat : w.sent = Append(k.sent, byte)
      /\ w.read = Len(read'[p]) /\ w.sent = sent'[p]
  BY <1>3, AroundStep
<1>5. Mirror(k, conn[p], x)
  BY AroundMirrors
<1>6. Mirror(w, c, y)
  BY <1>3, NextMirrors
<1>7. Good(k, conn[p]) /\ Good(w, c) /\ Onward(k, conn[p], w, c)
  BY DEF Inv
<1>8. x.read = Len(read[q]) /\ y.read = Len(read'[q])
  BY <1>1, AroundFields, AroundNext
<1>9. y.read = x.read
  BY <1>8 DEF Streamed
<1>10. /\ AllArrive(k, wire[p]) /\ AllArrive(x, wire[q])
       /\ Good(x, conn[q]) /\ conn[q].out = <<>>
       /\ conn[q].state = "Closed" => Armed(conn[q]) = {}
  BY <1>1 DEF Inv, AllArrive
<1> HIDE DEF k, w, x, y, q
<1>11. IsAround(x) /\ IsAround(y)
  BY <1>4, <1>5, <1>6, <1>7, MirrorIs
<1>12. Grown(x, y)
  BY <1>4, <1>5, <1>6, <1>7, <1>9, MirrorGrown
<1>13. Good(y, conn[q])
  BY <1>10, <1>11, <1>12, GoodGrown
<1>14. AllArrive(y, wire'[q])
  <2>1. AllArrive(y, wire[q])
    BY <1>10, <1>11, <1>12, AllGrown
  <2>2. AllArrive(y, c.out)
    BY <1>4, <1>6, <1>7, MirrorOut
  <2>3. AllArrive(y, wire[q] \o c.out)
    BY <2>1, <2>2, AllPutOn
  <2> QED BY <1>3, <2>3
<1>15. AllArrive(w, wire'[p])
  <2>1. AllArrive(k, wire'[p])
    <3>1. CASE wire'[p] = wire[p]
      BY <1>10, <3>1
    <3>2. CASE i # 0 /\ wire'[p] = RemoveAt(wire[p], i)
      <4>1. i \in 1 .. Len(wire[p])
        BY <3>2
      <4>2. AllArrive(k, RemoveAt(wire[p], i))
        BY <1>10, <4>1, AllTakenOff
      <4> QED BY <3>2, <4>2
    <3> QED BY <1>3, <3>1, <3>2
  <2> QED BY <1>4, <2>1, AllSame
<1>16. /\ Good(w, conn'[p]) /\ conn'[p].out = <<>>
       /\ conn'[p].state = "Closed" => Armed(conn'[p]) = {}
  <2>1. Good(w, Settled(c)) /\ (c.state = "Closed" => Armed(Settled(c)) = {})
    BY <1>4, <1>7, SettledGood
  <2>2. Settled(c).state = c.state /\ Settled(c).out = <<>>
    BY <1>7, SettledKeeps DEF Good
  <2> QED BY <1>3, <2>1, <2>2
<1>17. sent' \in [Sides -> Seq(Nat)] /\ read' \in [Sides -> Seq(Nat)]
  BY DEF Streamed
<1>18. /\ Len(sent'[p]) <= MaxBytes[p]
       /\ Len(read'[p]) <= Len(sent'[q]) /\ read'[p] = SubSeq(sent'[q], 1, Len(read'[p]))
  BY DEF Streamed, q
<1>19. /\ Len(sent'[q]) <= MaxBytes[q]
       /\ Len(read'[q]) <= Len(sent'[p]) /\ read'[q] = SubSeq(sent'[p], 1, Len(read'[q]))
  <2>1. sent'[q] = sent[q] /\ read'[q] = read[q]
    BY DEF Streamed, q
  <2>2. /\ Len(sent[q]) <= MaxBytes[q] /\ Len(read[q]) <= Len(sent[p])
        /\ read[q] = SubSeq(sent[p], 1, Len(read[q])) /\ sent[p] \in Seq(Nat) /\ read[q] \in Seq(Nat)
    BY <1>1 DEF Inv
  <2>3. CASE sent'[p] = sent[p]
    BY <2>1, <2>2, <2>3
  <2>4. CASE \E byte \in Nat : sent'[p] = Append(sent[p], byte)
    <3>1. PICK byte \in Nat : sent'[p] = Append(sent[p], byte)
      BY <2>4
    <3> DEFINE s == sent[p]
               b == Len(read[q])
               one == 1
    <3>2. s \in Seq(Nat) /\ b \in Nat /\ b <= Len(s) /\ Len(s) \in Nat
          /\ one \in Nat \ {0} /\ one <= Len(s) + 1 /\ one <= b + 1
      BY <2>2, LenProperties
    <3> HIDE DEF s, b, one
    <3>3. Len(Append(s, byte)) = Len(s) + 1 /\ SubSeq(Append(s, byte), one, b) = SubSeq(s, one, b)
      BY <3>2, PieceGrown
    <3>4. b <= Len(Append(s, byte))
      BY <3>2, <3>3
    <3> QED BY <2>1, <2>2, <3>1, <3>3, <3>4 DEF s, b, one
  <2> QED BY <2>3, <2>4 DEF Streamed
<1>20. ASSUME NEW s \in Sides
       PROVE  /\ Len(sent'[s]) <= MaxBytes[s]
              /\ Good(Around(s)', conn'[s]) /\ conn'[s].out = <<>>
              /\ conn'[s].state = "Closed" => Armed(conn'[s]) = {}
              /\ AllArrive(Around(s)', wire'[s])
              /\ Len(read'[s]) <= Len(sent'[Peer(s)])
              /\ read'[s] = SubSeq(sent'[Peer(s)], 1, Len(read'[s]))
  <2>1. CASE s = p
    BY <1>15, <1>16, <1>18, <2>1 DEF w, q
  <2>2. CASE s = q
    <3>1. Around(s)' = y
      BY <2>2 DEF y, q
    <3>2. conn'[s] = conn[q]
      BY <1>3, <2>2
    <3> QED BY <1>1, <1>10, <1>13, <1>14, <1>19, <2>2, <3>1, <3>2
  <2> QED BY <1>1, <2>1, <2>2
<1> QED BY <1>3, <1>17, <1>20 DEF Inv, AllArrive

-----------------------------------------------------------------------------
(* Every step of the program. *)

\* A step that writes and reads nothing keeps the streams.
LEMMA StreamedSame ==
    ASSUME Inv, NEW p \in Sides, UNCHANGED <<sent, read>>
    PROVE  Streamed(p)
<1>1. Peer(p) \in Sides
  BY Peers
<1> QED BY <1>1 DEF Inv, Streamed

\* It leaves what surrounds the side it runs at.
LEMMA AroundSame ==
    ASSUME NEW p \in Sides, UNCHANGED <<sent, read>>, conn'[Peer(p)] = conn[Peer(p)]
    PROVE  Around(p)' = Around(p)
BY DEF Around

\* A handler that leaves the application's streams alone.
LEMMA FineStep ==
    ASSUME Inv, NEW p \in Sides, NEW c, NEW i, NEW mishaps, Handled(p, c, i, mishaps),
           i # 0 => i \in 1 .. Len(wire[p]), UNCHANGED <<sent, read>>,
           Fine(Around(p), conn[p], c)
    PROVE  Inv' /\ Heard(p)
<1>1. conn'[Peer(p)] = conn[Peer(p)] /\ conn'[p] = Settled(c)
  BY HandledParts DEF Inv
<1>2. Around(p)' = Around(p)
  BY <1>1, AroundSame
<1>3. IsAround(Around(p))
  BY AroundIs
<1>4. Typed(conn[p]) /\ Typed(c) /\ Good(Around(p), c) /\ Later(Around(p), conn[p], c)
  BY DEF Inv, Good, Fine
<1>5. Onward(Around(p), conn[p], Around(p), c)
  BY <1>3, <1>4, LaterOnward
<1>6. Streamed(p)
  BY StreamedSame
<1>7. Later(Around(p), conn[p], Settled(c))
  <2> DEFINE d == Settled(c)
  <2>1. /\ d.iss = c.iss /\ d.state = c.state /\ d.snd_una = c.snd_una /\ d.buf_seq = c.buf_seq
        /\ d.recv_buf = c.recv_buf /\ d.fin_queued = c.fin_queued
        /\ d.fin_received = c.fin_received /\ (c.state # "Closed" => d.snd_max = c.snd_max)
    BY <1>4, SettledKeeps
  <2> HIDE DEF d
  <2>2. /\ Horizon(d) = Horizon(c) /\ Pos(Around(p), d) = Pos(Around(p), c)
        /\ Buf(d) = Buf(c) /\ Una(d) = Una(c)
    BY <2>1 DEF Horizon, Top, Pos, Buf, Una
  <2>3. Later(Around(p), conn[p], d)
    BY <1>4, <2>1, <2>2 DEF Later
  <2> QED BY <2>3 DEF d
<1>8. Heard(p)
  BY <1>1, <1>7 DEF Heard
<1> QED BY <1>2, <1>4, <1>5, <1>6, <1>8, StepInv

\* The application ends its stream.
LEMMA EndedStep ==
    ASSUME Inv, NEW p \in Sides, NEW c, NEW mishaps, Handled(p, c, 0, mishaps),
           UNCHANGED <<sent, read>>, Good(Around(p), c), Ended(conn[p], c)
    PROVE  Inv' /\ Finishes(p)
<1>1. conn'[Peer(p)] = conn[Peer(p)] /\ conn'[p] = Settled(c)
  BY HandledParts DEF Inv
<1>2. Around(p)' = Around(p)
  BY <1>1, AroundSame
<1>3. IsAround(Around(p)) /\ Typed(conn[p]) /\ Typed(c)
  BY AroundIs DEF Inv, Good
<1>4. Onward(Around(p), conn[p], Around(p), c)
  BY <1>3, EndedOnward
<1>5. Streamed(p)
  BY StreamedSame
<1>6. Inv'
  <2> DEFINE i == 0
  <2>1. Handled(p, c, i, mishaps) /\ (i # 0 => i \in 1 .. Len(wire[p]))
    OBVIOUS
  <2> HIDE DEF i
  <2> QED BY <1>2, <1>4, <1>5, <2>1, StepInv
<1>7. Ended(conn[p], Settled(c))
  <2> DEFINE d == Settled(c)
  <2>1. /\ d.iss = c.iss /\ d.state = c.state /\ d.snd_una = c.snd_una /\ d.buf_seq = c.buf_seq
        /\ d.recv_buf = c.recv_buf /\ d.fin_queued = c.fin_queued
        /\ d.fin_received = c.fin_received /\ (c.state # "Closed" => d.snd_max = c.snd_max)
    BY <1>3, SettledKeeps
  <2> HIDE DEF d
  <2>2. Ended(conn[p], d)
    BY <2>1 DEF Ended, Top
  <2> QED BY <2>2 DEF d
<1> QED BY <1>1, <1>6, <1>7 DEF Finishes

\* Of the invariant, what a handler at p relies on.
LEMMA InvAt ==
    ASSUME Inv, NEW p \in Sides
    PROVE  LET k == Around(p)
               c == conn[p]
           IN  /\ IsAround(k) /\ Good(k, c) /\ Typed(c) /\ c.out = <<>>
               /\ c.state = "Closed" => Armed(c) = {}
               /\ c.state # "Closed" => Core(k, c) /\ Owed(c) /\ CovOK(k, c)
               /\ wire[p] \in Seq(Segs)
               /\ \A i \in DOMAIN wire[p] : i \in 1 .. Len(wire[p]) /\ i # 0 /\ Arrives(k, wire[p][i])
<1>1. IsAround(Around(p))
  BY AroundIs
<1>2. Good(Around(p), conn[p]) /\ wire[p] \in Seq(Segs)
      /\ \A i \in 1 .. Len(wire[p]) : Arrives(Around(p), wire[p][i])
  BY DEF Inv
<1>3. DOMAIN wire[p] = 1 .. Len(wire[p]) /\ Len(wire[p]) \in Nat
  BY <1>2, LenProperties
<1>4. \A i \in DOMAIN wire[p] : i \in 1 .. Len(wire[p]) /\ i # 0
  BY <1>3
<1> QED BY <1>1, <1>2, <1>3, <1>4, GoodCore DEF Inv, Good

\* sceNetConnect keeps the invariant, and p may hear.
LEMMA OpenInv ==
    ASSUME Inv, NEW p \in Sides, Open(p)
    PROVE  Inv' /\ Heard(p)
<1>1. conn[p].state = "None" /\ Handled(p, Connect(conn[p]), 0, 0) /\ UNCHANGED <<sent, read>>
  BY DEF Open
<1>2. Core(Around(p), conn[p]) /\ Owed(conn[p])
  BY <1>1, InvAt
<1>3. Fine(Around(p), conn[p], Connect(conn[p]))
  BY <1>1, <1>2, ConnectFine
<1> QED BY <1>1, <1>3, FineStep

\* Shutdown, Close and Abort keep the invariant, and p may end its stream.
LEMMA ClosingInv ==
    ASSUME Inv, NEW p \in Sides, ShutdownSend(p) \/ CloseSocket(p) \/ AbortSocket(p)
    PROVE  Inv' /\ (Heard(p) \/ Finishes(p))
<1>1. IsAround(Around(p)) /\ Good(Around(p), conn[p])
  BY InvAt
<1>2. conn[p].state \notin {"None", "Listen"} /\ UNCHANGED <<sent, read>>
  BY DEF ShutdownSend, CloseSocket, AbortSocket, Opened
<1>3. CASE ShutdownSend(p)
  <2>1. Handled(p, Shutdown(conn[p]), 0, 0)
    BY <1>3 DEF ShutdownSend
  <2>2. \/ Fine(Around(p), conn[p], Shutdown(conn[p]))
        \/ Good(Around(p), Shutdown(conn[p])) /\ Ended(conn[p], Shutdown(conn[p]))
    BY <1>1, <1>2, ShutdownFine
  <2> QED BY <1>2, <2>1, <2>2, FineStep, EndedStep
<1>4. CASE CloseSocket(p)
  <2>1. Handled(p, Close(conn[p]), 0, 0)
    BY <1>4 DEF CloseSocket
  <2>2. \/ Fine(Around(p), conn[p], Close(conn[p]))
        \/ Good(Around(p), Close(conn[p])) /\ Ended(conn[p], Close(conn[p]))
    BY <1>1, <1>2, CloseFine
  <2> QED BY <1>2, <2>1, <2>2, FineStep, EndedStep
<1>5. CASE AbortSocket(p)
  <2>1. Handled(p, Abort(conn[p]), 0, 1)
    BY <1>5 DEF AbortSocket
  <2>2. Fine(Around(p), conn[p], Abort(conn[p]))
    BY <1>1, <1>2, AbortFine
  <2> QED BY <1>2, <2>1, <2>2, FineStep
<1> QED BY <1>3, <1>4, <1>5

\* A segment for a connection keeps the invariant.
LEMMA DeliverInv ==
    ASSUME Inv, NEW p \in Sides, Deliver(p)
    PROVE  Inv' /\ Heard(p)
<1>1. PICK i \in DOMAIN wire[p] :
          /\ conn[p].state \notin {"None", "Listen", "Closed"}
          /\ Handled(p, OnSegment(conn[p], wire[p][i]), i, Overtakes(i))
          /\ UNCHANGED <<sent, read>>
  BY DEF Deliver
<1>2. IsAround(Around(p)) /\ Good(Around(p), conn[p]) /\ Arrives(Around(p), wire[p][i])
      /\ i \in 1 .. Len(wire[p])
  BY InvAt
<1>3. Fine(Around(p), conn[p], OnSegment(conn[p], wire[p][i]))
  BY <1>1, <1>2, OnSegmentFine
<1> QED BY <1>1, <1>2, <1>3, FineStep

\* A SYN for a listener keeps the invariant.
LEMMA AcceptInv ==
    ASSUME Inv, NEW p \in Sides, Accept(p)
    PROVE  Inv' /\ Heard(p)
<1>1. PICK i \in DOMAIN wire[p] :
          /\ conn[p].state = "Listen" /\ BareSyn(wire[p][i])
          /\ Handled(p, AcceptSyn(conn[p], wire[p][i]), i, Overtakes(i))
          /\ UNCHANGED <<sent, read>>
  BY DEF Accept
<1>2. Core(Around(p), conn[p]) /\ Owed(conn[p]) /\ Arrives(Around(p), wire[p][i])
      /\ i \in 1 .. Len(wire[p])
  BY <1>1, InvAt
<1>3. Fine(Around(p), conn[p], AcceptSyn(conn[p], wire[p][i]))
  BY <1>1, <1>2, AcceptSynFine
<1> QED BY <1>1, <1>2, <1>3, FineStep

\* Any set of due timers keeps the invariant.
LEMMA TimersInv ==
    ASSUME Inv, NEW p \in Sides, RunTimers(p)
    PROVE  Inv' /\ Heard(p)
<1>1. PICK due \in (SUBSET Armed(conn[p])) \ {{}} : Expire(p, due)
  BY DEF RunTimers
<1>2. PICK early : Handled(p, OnTimer(conn[p], due), 0, early) /\ UNCHANGED <<sent, read>>
  BY <1>1 DEF Expire
<1>3. due \subseteq Armed(conn[p]) /\ due # {}
  BY <1>1
<1>4. conn[p].state # "Closed"
  BY <1>3, InvAt
<1>5. Core(Around(p), conn[p]) /\ Owed(conn[p]) /\ CovOK(Around(p), conn[p])
  BY <1>4, InvAt
<1>6. Fine(Around(p), conn[p], OnTimer(conn[p], due))
  BY <1>3, <1>5, OnTimerFine
<1> QED BY <1>2, <1>6, FineStep

-----------------------------------------------------------------------------
(* A segment that nobody expects. *)

\* What the answer to a segment that nobody expects changes.
LEMMA ResetForFrame ==
    ASSUME NEW c, DOMAIN c = Fields, NEW o
    PROVE  LET d == [c EXCEPT !.out = o] IN Same(c, d, {"out"}) /\ d.out = o
BY DEF Same, Fields, NewConnection

\* What a change of the out list leaves alone.
LEMMA OutSame ==
    ASSUME NEW c, NEW d, Same(c, d, {"out"})
    PROVE  /\ DOMAIN d = Fields
           /\ d.state = c.state /\ d.iss = c.iss /\ d.snd_una = c.snd_una /\ d.snd_nxt = c.snd_nxt
           /\ d.snd_max = c.snd_max /\ d.send_buf = c.send_buf
           /\ d.buf_seq = c.buf_seq /\ d.fin_queued = c.fin_queued
           /\ d.snd_wnd = c.snd_wnd /\ d.cwnd = c.cwnd /\ d.ssthresh = c.ssthresh
           /\ d.retries = c.retries /\ d.unacked_segments = c.unacked_segments
           /\ d.irs = c.irs /\ d.rcv_nxt = c.rcv_nxt /\ d.rcv_offset = c.rcv_offset
           /\ d.out_of_order = c.out_of_order /\ d.recv_buf = c.recv_buf
           /\ d.peer_fin_seq = c.peer_fin_seq /\ d.fin_received = c.fin_received
           /\ d.in_recovery = c.in_recovery /\ d.recover = c.recover
           /\ d.retransmit = c.retransmit /\ d.persist = c.persist
           /\ d.delayed_ack = c.delayed_ack /\ d.time_wait = c.time_wait
           /\ Una(d) = Una(c) /\ Nxt(d) = Nxt(c) /\ Top(d) = Top(c) /\ Buf(d) = Buf(c)
           /\ End(d) = End(c) /\ Horizon(d) = Horizon(c) /\ \A k : Pos(k, d) = Pos(k, c)
BY DEF Same, Fields, NewConnection, Una, Nxt, Top, Buf, End, Pos, Horizon

\* Other segments in `out`: the rest of the connection is untouched.
LEMMA OutFine ==
    ASSUME NEW k, IsAround(k), NEW c, Good(k, c), NEW d, Same(c, d, {"out"}), OutOK(k, d)
    PROVE  Fine(k, c, d)
<1>1. Typed(c) /\ AckOK(k, c) /\ ArrOK(k, c) /\ OutOK(k, c)
  BY DEF Good
<1>2. /\ DOMAIN d = Fields
      /\ d.state = c.state /\ d.iss = c.iss /\ d.snd_una = c.snd_una /\ d.snd_nxt = c.snd_nxt
      /\ d.snd_max = c.snd_max /\ d.send_buf = c.send_buf
      /\ d.buf_seq = c.buf_seq /\ d.fin_queued = c.fin_queued
      /\ d.snd_wnd = c.snd_wnd /\ d.cwnd = c.cwnd /\ d.ssthresh = c.ssthresh
      /\ d.retries = c.retries /\ d.unacked_segments = c.unacked_segments
      /\ d.irs = c.irs /\ d.rcv_nxt = c.rcv_nxt /\ d.rcv_offset = c.rcv_offset
      /\ d.out_of_order = c.out_of_order /\ d.recv_buf = c.recv_buf
      /\ d.peer_fin_seq = c.peer_fin_seq /\ d.fin_received = c.fin_received
      /\ d.in_recovery = c.in_recovery /\ d.recover = c.recover
      /\ d.retransmit = c.retransmit /\ d.persist = c.persist
      /\ d.delayed_ack = c.delayed_ack /\ d.time_wait = c.time_wait
      /\ Una(d) = Una(c) /\ Nxt(d) = Nxt(c) /\ Top(d) = Top(c) /\ Buf(d) = Buf(c)
      /\ End(d) = End(c) /\ Horizon(d) = Horizon(c) /\ \A kk : Pos(kk, d) = Pos(kk, c)
  BY OutSame
<1> HIDE DEF Same
<1>3. Typed(d)
  <2>1. /\ c.fin_received \in BOOLEAN /\ c.retransmit \in BOOLEAN /\ c.persist \in BOOLEAN
        /\ c.delayed_ack \in BOOLEAN /\ c.time_wait \in BOOLEAN /\ c.fin_queued \in BOOLEAN
    BY <1>1, Zenon DEF Typed
  <2>2. /\ d.fin_received \in BOOLEAN /\ d.retransmit \in BOOLEAN /\ d.persist \in BOOLEAN
        /\ d.delayed_ack \in BOOLEAN /\ d.time_wait \in BOOLEAN /\ d.fin_queued \in BOOLEAN
    BY <1>2, <2>1, Zenon
  <2> QED BY <1>1, <1>2, <2>2 DEF Typed
<1>4. AckOK(k, d) /\ ArrOK(k, d)
  BY <1>1, <1>2 DEF AckOK, ArrOK
<1>5. Later(k, c, d)
  <2>1. Later(k, c, c)
    BY <1>1, LaterSelf
  <2> QED BY <1>2, <2>1 DEF Later
<1>6. CASE c.state = "Closed"
  BY <1>2, <1>3, <1>4, <1>5, <1>6 DEF Good, Fine
<1>7. CASE c.state # "Closed"
  <2>1. SndOK(k, c) /\ RcvOK(k, c) /\ StateOK(c) /\ TimOK(c) /\ Owed(c) /\ CovOK(k, c)
    BY <1>7 DEF Good
  <2>2. SndOK(k, d)
    BY <1>2, <2>1 DEF SndOK
  <2>3. RcvOK(k, d)
    BY <1>2, <2>1 DEF RcvOK, PeerKnown, Accepting, Receiving
  <2>4. StateOK(d) /\ TimOK(d)
    BY <1>2, <2>1 DEF StateOK, NumsOK, TimOK, Timed, Quiet, PeerKnown, Handshake
  <2>5. Owed(d) /\ CovOK(k, d)
    BY <1>2, <2>1 DEF Owed, Receiving, CovOK, Unsent, Sending, FinSent, FinSeq
  <2> QED BY <1>2, <1>3, <1>4, <1>5, <1>7, <2>2, <2>3, <2>4, <2>5 DEF Good, Fine
<1> QED BY <1>6, <1>7

\* The answer is a reset or nothing.
LEMMA ResetForType ==
    ASSUME NEW seg \in Segs
    PROVE  /\ ResetFor(seg) \in Seq(Segs)
           /\ \A i \in 1 .. Len(ResetFor(seg)) : "Rst" \in ResetFor(seg)[i].flags
<1>1. seg.ack \in Nos /\ seg.seq \in Nos /\ SegmentLength(seg) \in Nat
  BY LengthCounted DEF Segs
<1>2. (seg.seq + SegmentLength(seg)) % M \in Nos /\ 0 \in Nos /\ 0 % M = 0 /\ seg.ack % M \in Nos
  BY <1>1, HalfIsHalf DEF Nos
<1> DEFINE a == Segment(seg.ack, 0, {"Rst"}, 0, <<>>)
           b == Segment(0, (seg.seq + SegmentLength(seg)) % M, {"Rst", "Ack"}, 0, <<>>)
<1>3. a \in Segs /\ b \in Segs /\ "Rst" \in a.flags /\ "Rst" \in b.flags
  BY <1>2 DEF Segment, Segs, Flags
<1>4. ResetFor(seg) \in {<<>>, <<a>>, <<b>>}
  BY DEF ResetFor
<1> HIDE DEF a, b
<1>5. CASE ResetFor(seg) = <<>>
  BY <1>5
<1>6. ASSUME NEW x \in {a, b}, ResetFor(seg) = <<x>>
      PROVE  /\ ResetFor(seg) \in Seq(Segs)
             /\ \A i \in 1 .. Len(ResetFor(seg)) : "Rst" \in ResetFor(seg)[i].flags
  <2>1. x \in Segs /\ "Rst" \in x.flags
    BY <1>3
  <2>2. <<x>> \in Seq(Segs) /\ Len(<<x>>) = 1 /\ <<x>>[1] = x
    BY <2>1
  <2> QED BY <1>6, <2>1, <2>2
<1> QED BY <1>4, <1>5, <1>6

\* A segment that nobody expects keeps the invariant.
LEMMA NobodyListensInv ==
    ASSUME Inv, NEW p \in Sides, NobodyListens(p)
    PROVE  Inv' /\ Heard(p)
<1> DEFINE c == conn[p]
<1>1. PICK i \in DOMAIN wire[p] :
          /\ Handled(p, [c EXCEPT !.out = ResetFor(wire[p][i])], i, Overtakes(i))
          /\ UNCHANGED <<sent, read>>
  BY DEF NobodyListens
<1> DEFINE d == [c EXCEPT !.out = ResetFor(wire[p][i])]
<1>2. IsAround(Around(p)) /\ Good(Around(p), c) /\ Typed(c) /\ i \in 1 .. Len(wire[p])
      /\ wire[p] \in Seq(Segs)
  BY InvAt
<1>3. wire[p][i] \in Segs
  BY <1>2
<1>4. Same(c, d, {"out"}) /\ d.out = ResetFor(wire[p][i])
  BY <1>2, ResetForFrame DEF Typed
<1> HIDE DEF d
<1>5. OutOK(Around(p), d)
  BY <1>3, <1>4, ResetForType DEF OutOK, Leaves, Belongs
<1>6. Fine(Around(p), c, d)
  BY <1>2, <1>4, <1>5, OutFine
<1> QED BY <1>1, <1>2, <1>6, FineStep DEF d

-----------------------------------------------------------------------------
(* Writing and reading. *)

\* Writing adds one byte to the stream of p.
LEMMA WriteStreamed ==
    ASSUME Inv, NEW p \in Sides, Write(p)
    PROVE  Streamed(p) /\ Len(sent[p]) + 1 \in Nat /\ sent'[p] = Append(sent[p], Len(sent[p]) + 1)
           /\ read' = read
<1>1. Peer(p) \in Sides /\ Peer(p) # p
  BY Peers
<1> DEFINE byte == Len(sent[p]) + 1
<1>2. /\ sent' = [sent EXCEPT ![p] = Append(@, byte)] /\ UNCHANGED read
      /\ Len(sent[p]) < MaxBytes[p] /\ ~conn[p].fin_queued
  BY DEF Write, CanSend
<1>3. sent \in [Sides -> Seq(Nat)] /\ read \in [Sides -> Seq(Nat)] /\ sent[p] \in Seq(Nat)
      /\ Len(read[p]) <= Len(sent[Peer(p)]) /\ read[p] = SubSeq(sent[Peer(p)], 1, Len(read[p]))
  BY DEF Inv
<1>4. byte \in Nat /\ Len(sent[p]) \in Nat
  BY <1>3, LenProperties
<1> HIDE DEF byte
<1>5. Append(sent[p], byte) \in Seq(Nat) /\ Len(Append(sent[p], byte)) = Len(sent[p]) + 1
  BY <1>3, <1>4, AppendProperties
<1>6. /\ sent'[p] = Append(sent[p], byte) /\ sent'[Peer(p)] = sent[Peer(p)]
      /\ sent' \in [Sides -> Seq(Nat)]
  BY <1>1, <1>2, <1>3, <1>5
<1>7. Len(sent'[p]) <= MaxBytes[p]
  <2>1. MaxBytes[p] \in Nat
    BY LifetimeAssumption
  <2> QED BY <1>2, <1>4, <1>5, <1>6, <2>1
<1>8. read' \in [Sides -> Seq(Nat)] /\ read' = read
  BY <1>2, <1>3
<1>9. Streamed(p)
  BY <1>2, <1>3, <1>4, <1>6, <1>7, <1>8 DEF Streamed
<1> QED BY <1>4, <1>6, <1>8, <1>9 DEF byte

\* Send adds it to a connection that can send, and leaves a good one.
LEMMA WriteFine ==
    ASSUME Inv, NEW p \in Sides, Write(p)
    PROVE  /\ Core(Around(p), conn[p]) /\ Owed(conn[p]) /\ CanSend(conn[p])
           /\ Writes(Around(p), Around(p)', Len(sent[p]) + 1) /\ IsAround(Around(p)')
           /\ Streamed(p)
           /\ Handled(p, Send(conn[p], <<Len(sent[p]) + 1>>), 0, 0)
           /\ LET e == Send(conn[p], <<Len(sent[p]) + 1>>)
              IN  Fine(Around(p)', conn[p], e) /\ Standing(conn[p], e) /\ e.recv_buf = conn[p].recv_buf
<1> DEFINE byte == Len(sent[p]) + 1
           k == Around(p)
           w == Around(p)'
           c == conn[p]
<1>1. CanSend(c) /\ Handled(p, Send(c, <<byte>>), 0, 0)
  BY DEF Write
<1>2. c.state # "Closed"
  BY <1>1 DEF CanSend
<1>3. Core(k, c) /\ Owed(c)
  BY <1>2, InvAt
<1>4. Streamed(p) /\ byte \in Nat /\ sent'[p] = Append(sent[p], byte) /\ read' = read
  BY WriteStreamed
<1>5. conn'[Peer(p)] = conn[Peer(p)]
  BY <1>1, HandledParts DEF Inv
<1>6. /\ IsAround(w) /\ w.iss = k.iss /\ w.irs = k.irs /\ w.heard = k.heard
      /\ w.top = k.top /\ w.peer = k.peer /\ w.ended = k.ended /\ w.gone = k.gone
      /\ w.read = Len(read'[p]) /\ w.sent = sent'[p]
  BY <1>4, <1>5, AroundStep
<1>7. k.read = Len(read[p]) /\ k.sent = sent[p]
  BY AroundFields
<1> HIDE DEF k, w, byte, c
<1>8. Writes(k, w, byte)
  BY <1>4, <1>6, <1>7 DEF Writes
<1>9. /\ Fine(w, c, Send(c, <<byte>>)) /\ Standing(c, Send(c, <<byte>>))
      /\ Send(c, <<byte>>).recv_buf = c.recv_buf
  BY <1>1, <1>3, <1>4, <1>6, <1>8, SendFine
<1> QED BY <1>1, <1>3, <1>4, <1>6, <1>8, <1>9 DEF k, w, byte, c

\* What is left of a closed connection knows what it knew.
LEMMA StandingSettled ==
    ASSUME NEW c, NEW d, Typed(d), Standing(c, d)
    PROVE  Standing(c, Settled(d)) /\ Settled(d).recv_buf = d.recv_buf
BY SettledKeeps DEF Standing

\* Writing keeps the invariant and adds a byte to p's stream.
LEMMA WriteInv ==
    ASSUME Inv, NEW p \in Sides, Write(p)
    PROVE  Inv' /\ Adds(p)
<1> DEFINE byte == Len(sent[p]) + 1
           k == Around(p)
           w == Around(p)'
           c == conn[p]
           d == Send(c, <<byte>>)
<1>1. /\ Core(k, c) /\ Writes(k, w, byte) /\ IsAround(w) /\ Streamed(p)
      /\ Handled(p, d, 0, 0) /\ Fine(w, c, d) /\ Standing(c, d) /\ d.recv_buf = c.recv_buf
  BY WriteFine
<1> HIDE DEF k, w, d, byte
<1>2. Typed(c) /\ Typed(d) /\ Later(w, c, d) /\ Good(w, d)
  BY <1>1 DEF Core, Fine, Good
<1>3. Onward(w, c, w, d)
  BY <1>1, <1>2, LaterOnward
<1>4. Pos(k, c) = Pos(w, c) /\ k.read = w.read
  BY <1>1 DEF Writes, Pos
<1>5. Onward(k, c, w, d)
  BY <1>3, <1>4 DEF Onward
<1>6. Inv'
  <2> DEFINE i == 0
  <2>1. Handled(p, d, i, i) /\ (i # 0 => i \in 1 .. Len(wire[p]))
    BY <1>1
  <2> HIDE DEF i
  <2> QED BY <1>1, <1>2, <1>5, <2>1, StepInv DEF k, w
<1>7. conn'[p] = Settled(d) /\ conn'[Peer(p)] = conn[Peer(p)]
  BY <1>1, HandledParts DEF Inv
<1>8. Standing(c, Settled(d)) /\ Settled(d).recv_buf = c.recv_buf
  BY <1>1, <1>2, StandingSettled
<1>9. Adds(p)
  BY <1>7, <1>8 DEF Write, CanSend, Adds
<1> QED BY <1>6, <1>9

\* Reading n bytes takes the next n of the peer's stream.
LEMMA ReadStep ==
    ASSUME Inv, NEW p \in Sides, NEW n \in 1 .. Len(conn[p].recv_buf),
           read' = [read EXCEPT ![p] = @ \o SubSeq(conn[p].recv_buf, 1, n)], sent' = sent
    PROVE  Streamed(p) /\ Len(read'[p]) = Len(read[p]) + n
<1> DEFINE q == Peer(p)
           c == conn[p]
           r == read[p]
           s == sent[q]
           b == c.recv_buf
           one == 1
<1>1. q \in Sides /\ q # p
  BY Peers
<1>2. /\ sent \in [Sides -> Seq(Nat)] /\ read \in [Sides -> Seq(Nat)]
      /\ Len(r) <= Len(s) /\ r = SubSeq(s, 1, Len(r)) /\ Len(sent[p]) <= MaxBytes[p]
  BY DEF Inv
<1>3. s \in Seq(Nat) /\ r \in Seq(Nat) /\ Len(s) \in Nat /\ Len(r) \in Nat
  BY <1>1, <1>2, LenProperties
<1>4. b \in Seq(Nat) /\ Len(r) + Len(b) <= Len(s) /\ b = SubSeq(s, Len(r) + 1, Len(r) + Len(b))
  <2>1. Good(Around(p), c) /\ Around(p).read = Len(r) /\ Around(p).peer = s
    BY AroundFields DEF Inv
  <2> QED BY <2>1 DEF Good, ArrOK, Typed
<1>5. Len(b) \in Nat
  BY <1>4, LenProperties
<1> DEFINE x == Len(r)
           l == Len(b)
           e == x + n
           a == x + 1
           z == x + l
<1>6. /\ x \in Nat /\ l \in Nat /\ n \in Nat /\ 1 <= n /\ n <= l /\ x + l <= Len(s)
      /\ e \in Nat /\ a \in Nat \ {0} /\ a <= e + 1 /\ e <= Len(s) /\ x <= e /\ x <= Len(s)
      /\ z \in Nat /\ z <= Len(s) /\ a <= z + 1 /\ n <= z - a + 1 /\ a + 1 - 1 = a /\ a + n - 1 = e
      /\ 1 <= x + 1 /\ one \in Nat \ {0} /\ one <= x + 1 /\ one <= n + 1
  <2>1. x \in Nat /\ l \in Nat /\ n \in Nat /\ 1 <= n /\ n <= l /\ x + l <= Len(s) /\ Len(s) \in Nat
    <3>1. x \in Nat /\ l \in Nat /\ x + l <= Len(s) /\ Len(s) \in Nat
      BY <1>3, <1>4, <1>5
    <3>2. n \in 1 .. l
      OBVIOUS
    <3> HIDE DEF x, l, s
    <3> QED BY <3>1, <3>2
  <2> HIDE DEF x, l, s
  <2> QED BY <2>1
<1>7. b = SubSeq(s, a, z) /\ r = SubSeq(s, one, x)
  BY <1>2, <1>4
<1> HIDE DEF x, l, e, a, z, one, s, r, b
<1>8. SubSeq(b, one, n) = SubSeq(s, a, e)
  <2>1. SubSeq(SubSeq(s, a, z), one, n) = SubSeq(s, a + one - 1, a + n - 1)
    BY <1>3, <1>6, PieceOfPiece
  <2>2. a + one - 1 = a
    BY <1>6 DEF one
  <2> QED BY <1>6, <1>7, <2>1, <2>2
<1>9. SubSeq(s, one, x) \o SubSeq(s, a, e) = SubSeq(s, one, e)
  <2>1. SubSeq(s, one, x) \o SubSeq(s, x + 1, e) = SubSeq(s, one, e)
    <3>1. s \in Seq(Nat) /\ one \in Nat \ {0} /\ x \in Nat /\ e \in Nat
          /\ one <= x + 1 /\ x <= e /\ e <= Len(s)
      BY <1>3, <1>6
    <3> QED BY ONLY <3>1, PieceJoined
  <2> QED BY <2>1 DEF a
<1>10. read'[p] = SubSeq(s, one, e)
  <2>1. read'[p] = r \o SubSeq(b, one, n)
    BY <1>2 DEF r, b, one
  <2> QED BY <1>7, <1>8, <1>9, <2>1
<1>11. SubSeq(s, one, e) \in Seq(Nat) /\ Len(SubSeq(s, one, e)) = e
  <2>1. one <= e + 1
    BY <1>6
  <2>2. Len(SubSeq(s, one, e)) = e - one + 1 /\ SubSeq(s, one, e) \in Seq(Nat)
    BY <1>3, <1>6, <2>1, Piece
  <2> QED BY <1>6, <2>2 DEF one
<1>12. read' \in [Sides -> Seq(Nat)] /\ read'[q] = read[q]
  BY <1>1, <1>2, <1>10, <1>11
<1>13. /\ Len(read'[p]) = e /\ Len(read'[p]) <= Len(sent[Peer(p)])
       /\ read'[p] = SubSeq(sent[Peer(p)], 1, Len(read'[p]))
  BY <1>6, <1>10, <1>11 DEF s, one
<1>14. Streamed(p)
  BY <1>2, <1>12, <1>13 DEF Streamed
<1> QED BY <1>13, <1>14 DEF e, x, r

\* Reading keeps the invariant and moves nothing of what has arrived.
LEMMA ReadInv ==
    ASSUME Inv, NEW p \in Sides, Read(p)
    PROVE  Inv' /\ Takes(p)
<1>1. PICK n \in 1 .. Len(conn[p].recv_buf) :
          /\ Handled(p, Recv(conn[p], n), 0, 0)
          /\ read' = [read EXCEPT ![p] = @ \o SubSeq(conn[p].recv_buf, 1, n)] /\ sent' = sent
  BY DEF Read
<1> DEFINE k == Around(p)
           w == Around(p)'
           c == conn[p]
<1>2. Streamed(p) /\ Len(read'[p]) = Len(read[p]) + n
  BY <1>1, ReadStep
<1>3. conn'[Peer(p)] = conn[Peer(p)]
  BY <1>1, HandledParts DEF Inv
<1>4. /\ IsAround(k) /\ IsAround(w) /\ w.iss = k.iss /\ w.irs = k.irs /\ w.heard = k.heard
      /\ w.top = k.top /\ w.peer = k.peer /\ w.ended = k.ended /\ w.gone = k.gone
      /\ w.read = Len(read'[p]) /\ w.sent = sent'[p]
  BY <1>2, <1>3, AroundStep
<1>5. k.read = Len(read[p]) /\ k.sent = sent[p]
  BY AroundFields
<1>6. Good(k, c)
  BY DEF Inv
<1> HIDE DEF k, w
<1>7. Reads(k, w, n)
  BY <1>1, <1>2, <1>4, <1>5 DEF Reads
<1> DEFINE d == Recv(c, n)
<1>8. /\ Good(w, d) /\ Onward(k, c, w, d) /\ Standing(c, d)
      /\ k.read + Len(c.recv_buf) = w.read + Len(d.recv_buf)
  <2> DEFINE e == Recv(c, n)
  <2>1. /\ Good(w, e) /\ Onward(k, c, w, e) /\ Standing(c, e)
        /\ k.read + Len(c.recv_buf) = w.read + Len(e.recv_buf)
    <3>1. n \in 1 .. Len(c.recv_buf)
      OBVIOUS
    <3> HIDE DEF c
    <3> QED BY <1>4, <1>6, <1>7, <3>1, RecvFine, ZenonT(30)
  <2> QED BY <2>1
<1> HIDE DEF d
<1>9. Inv'
  <2> DEFINE i == 0
  <2>1. Handled(p, d, i, i) /\ (i # 0 => i \in 1 .. Len(wire[p]))
    BY <1>1 DEF d
  <2> HIDE DEF i
  <2> QED BY <1>2, <1>8, <2>1, StepInv DEF k, w
<1>10. conn'[p] = Settled(d)
  BY <1>1, HandledParts DEF Inv, d
<1>11. Standing(c, Settled(d)) /\ Settled(d).recv_buf = d.recv_buf
  BY <1>8, StandingSettled DEF Good
<1>12. read'[Peer(p)] = read[Peer(p)]
  BY <1>2 DEF Streamed
<1>13. Takes(p)
  BY <1>1, <1>3, <1>4, <1>5, <1>8, <1>10, <1>11, <1>12 DEF Takes
<1> QED BY <1>9, <1>13

\* Losing a segment keeps the invariant.
LEMMA LoseInv ==
    ASSUME Inv, NEW p \in Sides, Lose(p)
    PROVE  Inv'
<1>1. PICK i \in DOMAIN wire[p] : wire' = [wire EXCEPT ![p] = RemoveAt(@, i)]
  BY DEF Lose
<1>2. UNCHANGED <<conn, sent, read>>
  BY DEF Lose
<1>3. i \in 1 .. Len(wire[p]) /\ AllArrive(Around(p), wire[p])
  <2>1. wire[p] \in Seq(Segs) /\ \A j \in 1 .. Len(wire[p]) : Arrives(Around(p), wire[p][j])
    BY DEF Inv
  <2>2. i \in 1 .. Len(wire[p])
    BY <2>1, LenProperties
  <2> QED BY <2>1, <2>2 DEF AllArrive
<1>4. AllArrive(Around(p), RemoveAt(wire[p], i))
  BY <1>3, AllTakenOff
<1>5. DOMAIN wire' = Sides /\ wire'[p] = RemoveAt(wire[p], i)
      /\ \A s \in Sides \ {p} : wire'[s] = wire[s]
  BY <1>1 DEF Inv
<1>6. \A s \in Sides : Around(s)' = Around(s)
  BY <1>2 DEF Around
<1>7. ASSUME NEW s \in Sides
      PROVE  wire'[s] \in Seq(Segs) /\ \A j \in 1 .. Len(wire'[s]) : Arrives(Around(s)', wire'[s][j])
  <2>1. CASE s = p
    BY <1>4, <1>5, <1>6, <2>1 DEF AllArrive
  <2>2. CASE s # p
    BY <1>5, <1>6, <2>2 DEF Inv
  <2> QED BY <2>1, <2>2
<1> QED BY <1>2, <1>5, <1>6, <1>7 DEF Inv

\* So does doing nothing.
LEMMA StutterInv ==
    ASSUME Inv, UNCHANGED vars
    PROVE  Inv'
BY ZenonT(30) DEF vars, Inv, Around

\* So does every step: the invariant is inductive.
LEMMA NextInv ==
    ASSUME Inv, [Next]_vars
    PROVE  Inv'
<1>1. CASE UNCHANGED vars
  BY <1>1, StutterInv
<1>2. CASE Next
  <2>1. PICK p \in Sides :
          \/ Open(p) \/ Write(p) \/ Read(p) \/ ShutdownSend(p) \/ CloseSocket(p) \/ AbortSocket(p)
          \/ Lose(p) \/ Arrival(p) \/ RunTimers(p)
    BY <1>2 DEF Next
  <2> QED
    BY <2>1, OpenInv, WriteInv, ReadInv, ClosingInv, LoseInv, DeliverInv, AcceptInv,
       NobodyListensInv, TimersInv DEF Arrival
<1> QED BY <1>1, <1>2

-----------------------------------------------------------------------------
(* The initial state. *)

\* The numbers of a new connection.
LEMMA FreshConnection ==
    ASSUME NEW iss, NEW s
    PROVE  Fresh([NewConnection(iss) EXCEPT !.state = s], iss, s)
BY DEF Fresh, NewConnection, Fields

\* Nothing is queued, received or timed in a new connection.
LEMMA FreshStill ==
    ASSUME NEW iss, NEW s
    PROVE  Still([NewConnection(iss) EXCEPT !.state = s])
BY DEF Still, NewConnection

\* The piece of no bytes is empty.
LEMMA EmptyPiece == ASSUME NEW s \in Seq(Nat) PROVE SubSeq(s, 1, 0) = <<>>
<1> DEFINE one == 1
<1>1. one \in Int /\ one - 1 = 0
  OBVIOUS
<1> HIDE DEF one
<1>2. SubSeq(s, one, one - 1) = <<>>
  BY <1>1, PieceEmpty
<1> QED BY <1>1, <1>2 DEF one

\* A new connection is good before anything was written.
LEMMA FreshGood ==
    ASSUME NEW k, IsAround(k), k.sent = <<>>, k.read = 0, k.heard = 1,
           NEW c, NEW s \in {"None", "Listen"}, Fresh(c, k.iss, s), Still(c)
    PROVE  Good(k, c) /\ c.out = <<>> /\ c.state = s
<1>1. Fresh(c, k.iss, s)
  OBVIOUS
<1>2. /\ ~c.fin_queued /\ ~c.fin_received /\ ~c.in_recovery
      /\ ~c.retransmit /\ ~c.persist /\ ~c.delayed_ack /\ ~c.time_wait
      /\ c.fin_queued \in BOOLEAN /\ c.fin_received \in BOOLEAN
      /\ c.retransmit \in BOOLEAN /\ c.persist \in BOOLEAN
      /\ c.delayed_ack \in BOOLEAN /\ c.time_wait \in BOOLEAN
  BY Zenon DEF Still
<1>3. k.iss \in Nos /\ (k.iss + 1) % M \in Nos /\ SeqSub((k.iss + 1) % M, k.iss) = 1
  BY IssNext DEF IsAround
<1>4. Una(c) = 0 /\ Nxt(c) = 0 /\ Top(c) = 0 /\ Buf(c) = 1 /\ End(c) = 1
  BY <1>1, <1>3, SubSelf DEF Fresh, Una, Nxt, Top, Buf, End
<1>5. Typed(c)
  <2>1. 0 \in Nos /\ CwndCap \in Nat \ {0} /\ <<>> \in Seq(Nat) /\ s \in States
    BY HalfIsHalf, Sizes DEF Nos, States
  <2>2. /\ DOMAIN c = Fields /\ c.state \in States
        /\ c.iss \in Nos /\ c.snd_una \in Nos /\ c.snd_nxt \in Nos /\ c.snd_max \in Nos
        /\ c.buf_seq \in Nos /\ c.send_buf \in Seq(Nat)
        /\ c.snd_wnd \in Nat /\ c.cwnd \in Nat /\ c.ssthresh \in Nat \ {0} /\ c.retries \in Nat
        /\ c.unacked_segments \in Nat
        /\ c.irs \in Nos /\ c.rcv_nxt \in Nos /\ c.rcv_offset \in Nat /\ c.recv_buf \in Seq(Nat)
    BY <1>1, <1>3, <2>1 DEF Fresh
  <2> QED BY <1>2, <2>2, Zenon DEF Typed
<1>6. c.state = s /\ ~PeerKnown(c) /\ ~Handshake(c) /\ ~Sending(c) /\ c.state # "Closed"
      /\ c.state \notin {"FinWait2", "TimeWait"}
  BY <1>1 DEF Fresh, PeerKnown, Handshake, Sending
<1>7. Len(c.recv_buf) = 0 /\ Len(k.sent) = 0 /\ Len(c.send_buf) = 0 /\ Len(k.peer) \in Nat
  <2>1. k.peer \in Seq(Nat)
    BY DEF IsAround
  <2> QED BY <1>1, <2>1, LenProperties DEF Fresh
<1>8. AckOK(k, c)
  BY <1>1, <1>4, <1>7 DEF AckOK, Fresh
<1>9. ArrOK(k, c)
  <2>1. SubSeq(k.peer, 1, 0) = <<>>
    BY EmptyPiece DEF IsAround
  <2>2. k.read + Len(c.recv_buf) = 0 /\ k.read + 1 = 1 /\ 0 <= Len(k.peer)
    BY <1>7
  <2>3. c.recv_buf = <<>>
    BY <1>1 DEF Fresh
  <2> QED BY <1>2, <2>1, <2>2, <2>3 DEF ArrOK
<1>10. OutOK(k, c)
  BY <1>1 DEF OutOK, Fresh
<1>11. SndOK(k, c)
  <2>1. SubSeq(k.sent, 1, 0) = <<>>
    BY EmptyPiece DEF IsAround
  <2>2. One(c.fin_queued) = 0
    BY <1>2 DEF One
  <2>3. c.send_buf = <<>>
    BY <1>1 DEF Fresh
  <2>4. c.send_buf = SubSeq(k.sent, Buf(c), Len(k.sent))
    BY <1>4, <1>7, <2>1, <2>3
  <2> QED BY <1>2, <1>4, <1>7, <2>2, <2>4 DEF SndOK
<1>12. RcvOK(k, c)
  <2>1. DOMAIN c.out_of_order = {} /\ IsFiniteSet({})
    BY <1>1, FS_EmptySet DEF Fresh
  <2> QED BY <1>1, <1>2, <1>6, <1>7, <2>1 DEF RcvOK, Fresh
<1>13. StateOK(c) /\ TimOK(c)
  BY <1>1, <1>2, <1>4, <1>6 DEF StateOK, NumsOK, TimOK, Timed, Quiet, Fresh
<1>14. Owed(c) /\ CovOK(k, c)
  BY <1>1, <1>6 DEF Owed, CovOK, Unsent, Fresh
<1> QED BY <1>1, <1>5, <1>6, <1>8, <1>9, <1>10, <1>11, <1>12, <1>13, <1>14 DEF Good, Fresh

\* The invariant holds at the start.
LEMMA InitInv ==
    ASSUME Init
    PROVE  Inv
<1>1. /\ DOMAIN conn = Sides /\ DOMAIN wire = Sides
      /\ sent \in [Sides -> Seq(Nat)] /\ read \in [Sides -> Seq(Nat)]
  BY DEF Init
<1>2. ASSUME NEW p \in Sides
      PROVE  /\ conn[p] = [NewConnection(Iss[p]) EXCEPT
                              !.state = IF p \in Openers THEN "None" ELSE "Listen"]
             /\ wire[p] = <<>> /\ sent[p] = <<>> /\ read[p] = <<>>
             /\ Len(sent[p]) = 0 /\ Len(read[p]) = 0
  BY <1>2 DEF Init
<1>3. ASSUME NEW p \in Sides
      PROVE  /\ Len(conn[p].recv_buf) = 0 /\ One(conn[p].fin_received) = 0
             /\ conn[p].snd_max = Iss[p] /\ conn[p].fin_queued \in BOOLEAN
             /\ conn[p].state # "Closed"
  <2> DEFINE s == IF p \in Openers THEN "None" ELSE "Listen"
             c == [NewConnection(Iss[p]) EXCEPT !.state = s]
  <2>1. conn[p] = c /\ s # "Closed"
    BY <1>2
  <2> HIDE DEF s
  <2>2. Fresh(c, Iss[p], s) /\ ~c.fin_received /\ c.fin_queued \in BOOLEAN
    BY FreshConnection, FreshStill, Zenon DEF Still
  <2> HIDE DEF c
  <2> QED BY <2>1, <2>2 DEF Fresh, One
<1>4. ASSUME NEW p \in Sides
      PROVE  LET k == Around(p)
             IN  IsAround(k) /\ k.sent = <<>> /\ k.read = 0 /\ k.heard = 1 /\ k.iss = Iss[p]
  <2> DEFINE q == Peer(p)
             k == Around(p)
  <2>1. q \in Sides
    BY Peers
  <2>2. /\ k.iss = Iss[p] /\ k.irs = Iss[q] /\ k.sent = sent[p] /\ k.read = Len(read[p])
        /\ k.peer = sent[q] /\ k.ended = conn[q].fin_queued
        /\ k.heard = 1 + Len(read[q]) + Len(conn[q].recv_buf) + One(conn[q].fin_received)
        /\ k.top = conn[q].snd_max /\ k.gone = (conn[q].state = "Closed")
    BY AroundFields
  <2> HIDE DEF k
  <2>7. /\ sent[p] = <<>> /\ Len(read[p]) = 0 /\ sent[q] = <<>> /\ Len(read[q]) = 0
        /\ Len(conn[q].recv_buf) = 0 /\ One(conn[q].fin_received) = 0
        /\ conn[q].snd_max = Iss[q] /\ conn[q].fin_queued \in BOOLEAN /\ conn[q].state # "Closed"
    BY <1>2, <1>3, <2>1
  <2>8. /\ k.sent = <<>> /\ k.read = 0 /\ k.peer = <<>> /\ k.heard = 1 /\ k.top = k.irs
    BY <2>2, <2>7
  <2>9. k.gone \in BOOLEAN /\ k.ended \in BOOLEAN /\ ~k.gone
    BY <2>2, <2>7
  <2>3. /\ k.sent = <<>> /\ k.read = 0 /\ k.peer = <<>> /\ k.heard = 1 /\ k.top = k.irs
        /\ k.gone \in BOOLEAN /\ k.ended \in BOOLEAN /\ ~k.gone
    BY <2>8, <2>9
  <2>4. Iss[p] \in Nos /\ Iss[q] \in Nos
    BY <2>1, IssAssumption DEF Nos
  <2>5. SeqSub(k.top, k.irs) = 0
    BY <2>2, <2>3, <2>4, SubSelf
  <2>6. IsAround(k)
    <3>1. <<>> \in Seq(Nat) /\ Len(k.sent) = 0 /\ Len(k.peer) = 0
      BY <2>3
    <3>2. k.iss \in Nos /\ k.irs \in Nos /\ k.top \in Nos
      BY <2>2, <2>3, <2>4
    <3>3. Half \in Nat /\ Half > 2
      BY HalfIsHalf
    <3> QED BY <2>3, <2>5, <3>1, <3>2, <3>3 DEF IsAround
  <2> QED BY <2>2, <2>3, <2>6 DEF k
<1>5. ASSUME NEW p \in Sides
      PROVE  Good(Around(p), conn[p]) /\ conn[p].out = <<>>
  <2> DEFINE s == IF p \in Openers THEN "None" ELSE "Listen"
  <2>1. s \in {"None", "Listen"}
    OBVIOUS
  <2>2. conn[p] = [NewConnection(Iss[p]) EXCEPT !.state = s]
    BY <1>2
  <2> HIDE DEF s
  <2>3. Fresh(conn[p], Iss[p], s) /\ Still(conn[p])
    BY <2>2, FreshConnection, FreshStill
  <2> DEFINE k == Around(p)
             c == conn[p]
  <2>4. IsAround(k) /\ k.sent = <<>> /\ k.read = 0 /\ k.heard = 1 /\ Fresh(c, k.iss, s) /\ Still(c)
    BY <1>4, <2>3
  <2> HIDE DEF k, c
  <2>5. Good(k, c) /\ c.out = <<>>
    BY <2>1, <2>4, FreshGood
  <2> QED BY <2>5 DEF k, c
<1>6. ASSUME NEW p \in Sides
      PROVE  /\ Len(sent[p]) <= MaxBytes[p] /\ Len(read[p]) <= Len(sent[Peer(p)])
             /\ read[p] = SubSeq(sent[Peer(p)], 1, Len(read[p]))
  <2>1. Peer(p) \in Sides /\ MaxBytes[p] \in Nat
    BY Peers, LifetimeAssumption
  <2>2. sent[Peer(p)] = <<>> /\ SubSeq(sent[Peer(p)], 1, 0) = <<>> /\ Len(sent[Peer(p)]) = 0
    <3>1. sent[Peer(p)] = <<>> /\ sent[Peer(p)] \in Seq(Nat)
      BY <1>1, <1>2, <2>1
    <3> QED BY <3>1, EmptyPiece
  <2>3. read[p] = <<>> /\ Len(read[p]) = 0 /\ Len(sent[p]) = 0
    BY <1>1, <1>2
  <2>4. read[p] = SubSeq(sent[Peer(p)], 1, Len(read[p]))
    BY <2>2, <2>3, Zenon
  <2>5. Len(sent[p]) <= MaxBytes[p] /\ Len(read[p]) <= Len(sent[Peer(p)])
    <3>1. 0 <= MaxBytes[p]
      BY <2>1
    <3>2. 0 <= 0
      OBVIOUS
    <3> QED BY <2>2, <2>3, <3>1, <3>2, Zenon
  <2> QED BY <2>4, <2>5
<1>7. ASSUME NEW p \in Sides
      PROVE  wire[p] \in Seq(Segs) /\ \A i \in 1 .. Len(wire[p]) : Arrives(Around(p), wire[p][i])
  <2>1. wire[p] = <<>>
    BY <1>2
  <2> QED BY <2>1
<1> QED BY <1>1, <1>3, <1>5, <1>6, <1>7 DEF Inv

\* The sequence numbers, the two buffers and the timers of both connections fit the two streams,
\* and every segment on the wire belongs to its stream, after every sequence of calls, deliveries,
\* losses, reorderings and timeouts (p2p_tcp.cpp, all of it).
THEOREM InvAlways == Spec => []Inv
<1>1. Init => Inv
  BY InitInv
<1>2. Inv /\ [Next]_vars => Inv'
  BY NextInv
<1> QED BY <1>1, <1>2, PTL DEF Spec

\* The invariant implies TimerArmed.
LEMMA InvTimers ==
    ASSUME Inv
    PROVE  TimerArmed
<1>1. SUFFICES ASSUME NEW p \in Sides, conn[p].state # "Closed"
      PROVE  /\ conn[p].snd_una # conn[p].snd_max => conn[p].retransmit
             /\ conn[p].unacked_segments > 0 => conn[p].delayed_ack
             /\ conn[p].state = "TimeWait" => conn[p].time_wait
             /\ Unsent(conn[p]) =>
                  \/ conn[p].retransmit \/ conn[p].persist
                  \/ conn[Peer(p)].state = "Closed"
                  \/ SeqLt(conn[p].rcv_nxt, conn[Peer(p)].snd_max)
  BY DEF TimerArmed
<1>2. TimOK(conn[p]) /\ Owed(conn[p]) /\ CovOK(Around(p), conn[p])
  BY <1>1 DEF Inv, Good
<1>3. Around(p).top = conn[Peer(p)].snd_max /\ Around(p).gone = (conn[Peer(p)].state = "Closed")
  BY AroundFields
<1> QED BY <1>2, <1>3 DEF TimOK, Timed, Owed, CovOK

\* Nothing waits on luck: whatever is unacknowledged, unsent or owed has a timer behind it
\* (EmitSegment, TrySend, OnNewAck, ProcessAck and OnRetransmitTimeout of p2p_tcp.cpp).
THEOREM TimersArmed == Spec => []TimerArmed
BY InvAlways, InvTimers, PTL

-----------------------------------------------------------------------------
(* The two streams as ByteStreams sees them. *)

\* The FIN of a connection is acknowledged when everything it numbered is.
LEMMA FinIsAcked ==
    ASSUME NEW k, IsAround(k), NEW c, Good(k, c)
    PROVE  FinAcked(c) <=> Una(c) = Buf(c) + 1
<1>1. CASE c.state # "Closed"
  BY <1>1, GoodCore, CoreFin
<1>2. CASE c.state = "Closed"
  <2>1. Typed(c) /\ c.send_buf = <<>> /\ AckOK(k, c)
    BY <1>2 DEF Good
  <2>2. /\ Len(c.send_buf) = 0 /\ c.buf_seq \in Nos /\ c.snd_una \in Nos /\ c.iss \in Nos
        /\ Buf(c) \in Nos /\ Una(c) \in Nos
    BY <2>1, OffsetType DEF Typed
  <2>3. c.buf_seq \in Int /\ (c.buf_seq + Len(c.send_buf)) = c.buf_seq
    BY <2>2, HalfIsHalf DEF Nos
  <2>4. FinSeq(c) = c.buf_seq
    BY <2>2, <2>3, NumberItself DEF FinSeq
  <2>5. Buf(c) < Half /\ Una(c) < Half /\ Una(c) <= Buf(c) + 1 /\ Buf(c) \in Int /\ Una(c) \in Int
        /\ (Una(c) = Buf(c) + 1 => c.fin_queued)
    <3>1. k.heard \in Nat /\ Len(k.sent) \in Nat /\ Len(k.sent) + 2 < Half /\ k.heard <= Len(k.sent) + 2
      BY LenProperties DEF IsAround
    <3>2. Buf(c) \in 1 .. Len(k.sent) + 1 /\ Una(c) <= k.heard /\ Una(c) <= Buf(c) + 1
          /\ (Una(c) = Buf(c) + 1 => c.fin_queued)
      BY <2>1 DEF AckOK
    <3> QED BY <2>2, <3>1, <3>2, HalfIsHalf DEF Nos
  <2>6. SeqLt(c.buf_seq, c.snd_una) <=> Buf(c) < Una(c)
    BY <2>2, <2>5, SubOrder DEF Buf, Una
  <2>7. Buf(c) < Una(c) <=> Una(c) = Buf(c) + 1
    BY <2>5
  <2> QED BY <2>4, <2>5, <2>6, <2>7 DEF FinAcked
<1> QED BY <1>1, <1>2

\* What the writer of a stream believes to have arrived has arrived.
LEMMA KnowsWhatCame ==
    ASSUME NEW k, IsAround(k), NEW c, Good(k, c), NEW n \in Nat, n <= Len(k.sent),
           NEW e \in BOOLEAN, k.heard = 1 + n + One(e), e => n = Len(k.sent)
    PROVE  /\ Buf(c) - 1 \in Nat /\ Buf(c) - 1 <= n
           /\ Una(c) = Buf(c) + 1 => e /\ Buf(c) - 1 = Len(k.sent)
<1>1. AckOK(k, c) /\ Typed(c)
  BY DEF Good
<1>2. Una(c) \in Nat /\ Buf(c) \in Nat
  BY <1>1, OffsetType, HalfIsHalf DEF Nos
<1>3. One(e) \in 0 .. 1 /\ (e => One(e) = 1) /\ (~e => One(e) = 0)
  BY OneType
<1>4. k.heard \in Nat /\ Len(k.sent) \in Nat
  BY LenProperties DEF IsAround
<1>5. /\ Buf(c) \in 1 .. Len(k.sent) + 1 /\ Una(c) <= k.heard
      /\ Buf(c) = 1 \/ Buf(c) <= Una(c)
      /\ Una(c) = Buf(c) + 1 => Buf(c) = Len(k.sent) + 1
  BY <1>1 DEF AckOK
<1>6. CASE e
  BY <1>2, <1>3, <1>4, <1>5, <1>6
<1>7. CASE ~e
  BY <1>2, <1>3, <1>4, <1>5, <1>7
<1> QED BY <1>6, <1>7

\* What has arrived of a stream is a piece of it from its start.
LEMMA CameIs ==
    ASSUME Inv, NEW p \in Sides
    PROVE  /\ sent[p] \in Seq(Nat) /\ Len(sent[p]) \in Nat
           /\ Came(p) \in Nat /\ Came(p) <= Len(sent[p])
           /\ read[Peer(p)] \o conn[Peer(p)].recv_buf = SubSeq(sent[p], 1, Came(p))
           /\ Len(SubSeq(sent[p], 1, Came(p))) = Came(p)
           /\ conn[Peer(p)].fin_received => conn[p].fin_queued /\ Came(p) = Len(sent[p])
<1> DEFINE q == Peer(p)
           d == conn[q]
           s == sent[p]
           x == Len(read[q])
           e == x + Len(d.recv_buf)
           one == 1
<1>1. q \in Sides /\ Peer(q) = p
  BY Peers
<1>2. s \in Seq(Nat) /\ read[q] \in Seq(Nat) /\ Good(Around(q), d)
      /\ x <= Len(s) /\ read[q] = SubSeq(s, 1, x)
  BY <1>1 DEF Inv
<1>3. Around(q).read = x /\ Around(q).peer = s /\ Around(q).ended = conn[p].fin_queued
  BY <1>1, AroundFields
<1>4. /\ d.recv_buf \in Seq(Nat) /\ e <= Len(s) /\ d.recv_buf = SubSeq(s, x + 1, e)
      /\ d.fin_received => conn[p].fin_queued /\ e = Len(s)
  BY <1>2, <1>3 DEF Good, Typed, ArrOK
<1>5. Len(s) \in Nat /\ x \in Nat /\ Len(d.recv_buf) \in Nat
  BY <1>2, <1>4, LenProperties
<1>6. /\ e \in Nat /\ x <= e /\ e - one + 1 = e
      /\ one \in Nat \ {0} /\ one <= x + 1 /\ one <= e + 1
  <2> HIDE DEF x, s, d
  <2> QED BY <1>5
<1>7. Came(p) = e
  BY DEF Came
<1> HIDE DEF x, e, s, one
<1>8. SubSeq(s, one, x) \o SubSeq(s, x + 1, e) = SubSeq(s, one, e)
  BY ONLY <1>2, <1>4, <1>5, <1>6, PieceJoined, SMTT(30)
<1>9. Len(SubSeq(s, one, e)) = e
  <2>1. Len(SubSeq(s, one, e)) = e - one + 1
    BY ONLY <1>2, <1>4, <1>6, Piece
  <2> QED BY <1>6, <2>1
<1>10. read[q] \o d.recv_buf = SubSeq(s, one, e)
  BY <1>2, <1>4, <1>8 DEF one
<1> QED BY <1>2, <1>4, <1>5, <1>6, <1>7, <1>9, <1>10 DEF s, one

\* The invariant says where both ends of a stream stand.
LEMMA ViewOf ==
    ASSUME Inv, NEW p \in Sides
    PROVE  View(p)
<1> DEFINE q == Peer(p)
           k == Around(p)
           c == conn[p]
           ended == conn[q].fin_received
           n == Came(p)
<1>1. q \in Sides /\ Peer(q) = p
  BY Peers
<1>2. IsAround(k) /\ Good(k, c) /\ k.sent = sent[p] /\ k.iss = Iss[p]
  BY AroundIs, AroundFields DEF Inv
<1>3. /\ sent[p] \in Seq(Nat) /\ Len(sent[p]) \in Nat /\ n \in Nat /\ n <= Len(sent[p])
      /\ read[q] \o conn[q].recv_buf = SubSeq(sent[p], 1, n)
      /\ Len(SubSeq(sent[p], 1, n)) = n
      /\ ended => c.fin_queued /\ n = Len(sent[p])
  BY CameIs
<1>4. ended \in BOOLEAN
  <2>1. Typed(conn[q])
    BY <1>1 DEF Inv, Good
  <2> QED BY <2>1, Zenon DEF Typed
<1>5. k.heard = 1 + n + One(ended)
  <2>1. k.heard = 1 + Len(read[q]) + Len(conn[q].recv_buf) + One(ended)
    BY AroundFields
  <2>2. Len(read[q]) \in Nat /\ Len(conn[q].recv_buf) \in Nat
    <3>1. read[q] \in Seq(Nat) /\ conn[q].recv_buf \in Seq(Nat)
      BY <1>1 DEF Inv, Good, Typed
    <3> QED BY <3>1, LenProperties
  <2>3. One(ended) \in 0 .. 1
    BY <1>4, OneType
  <2> DEFINE x == Len(read[q])
             y == Len(conn[q].recv_buf)
             o == One(ended)
  <2>4. n = x + y
    BY DEF Came
  <2>5. k.heard = 1 + x + y + o /\ x \in Nat /\ y \in Nat /\ o \in Nat
    BY <2>1, <2>2, <2>3
  <2>6. k.heard = 1 + n + o
    <3> HIDE DEF ended, k, n, x, y, o
    <3> QED BY <2>4, <2>5
  <2> QED BY <2>6
<1> HIDE DEF k, n, ended
<1>6. /\ Buf(c) - 1 \in Nat /\ Buf(c) - 1 <= n
      /\ Una(c) = Buf(c) + 1 => ended /\ Buf(c) - 1 = Len(sent[p])
  BY <1>2, <1>3, <1>4, <1>5, KnowsWhatCame
<1>7. FinAcked(c) <=> Una(c) = Buf(c) + 1
  BY <1>2, FinIsAcked
<1>8. SeqSub(c.buf_seq, Iss[p] + 1) = Buf(c) - 1
  <2>1. c.buf_seq \in Nos /\ c.iss \in Nos /\ c.iss = Iss[p] /\ Buf(c) \in Nos
    BY <1>2, OffsetType DEF Good, Typed, AckOK
  <2>2. Buf(c) >= 1
    BY <1>6, <2>1, HalfIsHalf DEF Nos
  <2>3. SeqSub(c.buf_seq, c.iss + 1) = SeqSub(c.buf_seq, c.iss) - 1
    BY <2>1, <2>2, SubAfter DEF Buf
  <2> QED BY <2>1, <2>3 DEF Buf
<1>9. /\ Come[p] = read[q] \o conn[q].recv_buf /\ Told[p] = SeqSub(c.buf_seq, Iss[p] + 1)
      /\ p \in Over <=> ended
      /\ p \in Shut <=> c.fin_queued
      /\ p \in Sure <=> FinAcked(c)
  BY DEF Come, Told, Over, Shut, Sure, ended
<1>10. Buf(c) = Buf(c) - 1 + 1
  <2>1. Buf(c) \in Nos
    BY <1>2, OffsetType DEF Good, Typed, AckOK
  <2> QED BY <2>1, HalfIsHalf DEF Nos
<1> QED BY <1>3, <1>6, <1>7, <1>8, <1>9, <1>10 DEF View, n, Knows

\* It says so of both streams.
LEMMA ViewsNow == Inv => Views
BY ViewOf DEF Views

\* And after a step.
LEMMA ViewsNext == Inv' => Views'
BY ViewsNow, PTL

\* A step at p changes what p's connection knows and at most that.
LEMMA OnlyHere ==
    ASSUME NEW p \in Sides, conn'[Peer(p)] = conn[Peer(p)], read'[Peer(p)] = read[Peer(p)]
    PROVE  LET q == Peer(p)
           IN  /\ q \in Shut' <=> q \in Shut
               /\ Come'[p] = Come[p]
               /\ p \in Over' <=> p \in Over
               /\ Told'[q] = Told[q]
               /\ q \in Sure' <=> q \in Sure
<1>1. Peer(p) \in Sides /\ Peer(Peer(p)) = p
  BY Peers
<1>2. Peer(p) \in Shut' <=> Peer(p) \in Shut
  BY <1>1 DEF Shut
<1>3. Come'[p] = Come[p] /\ (p \in Over' <=> p \in Over)
  BY <1>1 DEF Come, Over
<1>4. Told'[Peer(p)] = Told[Peer(p)] /\ (Peer(p) \in Sure' <=> Peer(p) \in Sure)
  BY <1>1 DEF Told, Sure
<1> QED BY <1>2, <1>3, <1>4

\* Functions and sets on the two sides that differ at one side at most.
LEMMA OneSide ==
    ASSUME NEW p \in Sides, NEW F, NEW G, DOMAIN F = Sides, DOMAIN G = Sides,
           F = [s \in Sides |-> F[s]], G = [s \in Sides |-> G[s]], G[Peer(p)] = F[Peer(p)]
    PROVE  G = [F EXCEPT ![p] = G[p]] /\ (G[p] = F[p] => G = F)
<1>1. \A s \in Sides : s = p \/ s = Peer(p)
  BY Peers
<1>2. \A s \in Sides : G[s] = [F EXCEPT ![p] = G[p]][s]
  BY <1>1
<1>3. G[p] = F[p] => \A s \in Sides : G[s] = F[s]
  BY <1>1
<1>4. [F EXCEPT ![p] = G[p]] = [s \in Sides |-> [F EXCEPT ![p] = G[p]][s]]
  OBVIOUS
<1>5. G = [F EXCEPT ![p] = G[p]]
  BY <1>2, <1>4
<1> QED BY <1>3, <1>5

\* Two sets of sides that agree on the peer of p differ by p at most.
LEMMA OneMember ==
    ASSUME NEW p \in Sides, NEW S \in SUBSET Sides, NEW T \in SUBSET Sides,
           Peer(p) \in T <=> Peer(p) \in S
    PROVE  /\ (p \in T <=> p \in S) => T = S
           /\ p \in T /\ p \notin S => T = S \cup {p}
<1>1. \A s \in Sides : s = p \/ s = Peer(p)
  BY Peers
<1> QED BY <1>1

\* The functions and sets ByteStreams sees are functions and sets of sides.
LEMMA ViewTypes ==
    /\ DOMAIN Come = Sides /\ Come = [s \in Sides |-> Come[s]]
    /\ DOMAIN Told = Sides /\ Told = [s \in Sides |-> Told[s]]
    /\ Shut \in SUBSET Sides /\ Over \in SUBSET Sides /\ Sure \in SUBSET Sides
BY DEF Come, Told, Shut, Over, Sure

\* And after a step.
LEMMA ViewTypesNext ==
    /\ DOMAIN Come' = Sides /\ Come' = [s \in Sides |-> Come'[s]]
    /\ DOMAIN Told' = Sides /\ Told' = [s \in Sides |-> Told'[s]]
    /\ Shut' \in SUBSET Sides /\ Over' \in SUBSET Sides /\ Sure' \in SUBSET Sides
BY DEF Come, Told, Shut, Over, Sure

\* What ByteStreams calls its variables and its steps.
LEMMA StreamsVars ==
    Streams!vars = <<sent, Shut, Come, Over, Told, Sure>>
BY DEF Streams!vars, Shut, Come, Over, Told, Sure

\* An Arrive step of ByteStreams, in the terms of this module.
LEMMA StreamsArrive ==
    ASSUME NEW q \in Sides, q \notin Over, NEW n \in Len(Come[q]) .. Len(sent[q]),
           Come' = [Come EXCEPT ![q] = SubSeq(sent[q], 1, n)],
           Over' = Over \/ (n = Len(sent[q]) /\ q \in Shut /\ Over' = Over \cup {q})
    PROVE  Streams!Arrive(q)
BY DEF Streams!Arrive, Shut, Come, Over

\* A Learn step of ByteStreams.
LEMMA StreamsLearn ==
    ASSUME NEW p \in Sides, p \notin Sure, NEW n \in Told[p] .. Len(Come[p]),
           Told' = [Told EXCEPT ![p] = n], Told'[p] = n,
           Sure' = Sure \/ (p \in Over /\ n = Len(sent[p]) /\ Sure' = Sure \cup {p})
    PROVE  Streams!Learn(p)
BY DEF Streams!Learn, Sure, Told, Come, Over

\* What p learns when it hears is a Learn step of its stream, or nothing.
LEMMA HeardLearns ==
    ASSUME NEW p \in Sides, View(p), View(p)', Heard(p)
    PROVE  Streams!Learn(p) \/ (Told' = Told /\ Sure' = Sure)
<1> DEFINE q == Peer(p)
           n == Knows(p)'
<1>1. q \in Sides /\ Peer(q) = p
  BY Peers
<1>2. sent' = sent /\ read' = read /\ conn'[q] = conn[q]
  BY DEF Heard
<1>3. Came(p)' = Came(p)
  BY <1>1, <1>2 DEF Came
<1>4. /\ Told'[q] = Told[q] /\ (q \in Sure' <=> q \in Sure)
      /\ Come'[p] = Come[p] /\ (p \in Over' <=> p \in Over)
  BY <1>2, OnlyHere
<1>5. /\ Knows(p) <= n
      /\ Una(conn[p]) = Buf(conn[p]) + 1 => Una(conn'[p]) = Buf(conn'[p]) + 1
  <2>1. /\ Buf(conn[p]) <= Buf(conn'[p])
        /\ Una(conn[p]) = Buf(conn[p]) + 1 => Una(conn'[p]) = Buf(conn'[p]) + 1
    BY DEF Heard, Later
  <2>2. Buf(conn[p]) = Knows(p) + 1 /\ Buf(conn'[p]) = n + 1
    BY DEF View, Buf
  <2>3. Knows(p) \in Nat /\ n \in Nat
    BY DEF View
  <2> HIDE DEF n
  <2> QED BY <2>1, <2>2, <2>3
<1>6. /\ Knows(p) \in Nat /\ n \in Nat /\ Came(p) \in Nat /\ Len(sent[p]) \in Nat
      /\ n <= Came(p) /\ Came(p) <= Len(sent[p])
      /\ Told[p] = Knows(p) /\ Told'[p] = n /\ Len(Come[p]) = Came(p)
      /\ p \in Sure => Knows(p) = Len(sent[p]) /\ p \in Sure'
      /\ p \in Sure' => p \in Over /\ n = Len(sent[p])
  <2>1. p \in Sure <=> Una(conn[p]) = Buf(conn[p]) + 1
    BY DEF View
  <2>2. p \in Sure' <=> Una(conn'[p]) = Buf(conn'[p]) + 1
    BY DEF View, Una, Buf
  <2>3. p \in Sure' => p \in Over' /\ n = Len(sent[p])
    BY <1>2 DEF View
  <2>4. n \in Nat /\ n <= Came(p) /\ Told'[p] = n
    BY <1>3 DEF View
  <2> QED BY <1>4, <1>5, <2>1, <2>2, <2>3, <2>4 DEF View
<1> HIDE DEF n
<1>7. Told' = [Told EXCEPT ![p] = n] /\ (n = Told[p] => Told' = Told)
  BY <1>4, <1>6, OneSide, ViewTypes, ViewTypesNext
<1>8. (p \in Sure' <=> p \in Sure) => Sure' = Sure
  BY <1>4, OneMember, ViewTypes, ViewTypesNext
<1>9. p \in Sure' /\ p \notin Sure => Sure' = Sure \cup {p}
  BY <1>4, OneMember, ViewTypes, ViewTypesNext
<1>10. CASE p \in Sure
  BY <1>5, <1>6, <1>7, <1>8, <1>10
<1>11. CASE p \notin Sure
  <2>1. n \in Told[p] .. Len(Come[p])
    BY <1>5, <1>6
  <2>2. Sure' = Sure \/ (p \in Over /\ n = Len(sent[p]) /\ Sure' = Sure \cup {p})
    BY <1>6, <1>8, <1>9, <1>11
  <2> QED BY <1>6, <1>7, <1>11, <2>1, <2>2, StreamsLearn
<1> QED BY <1>10, <1>11

\* What p receives when it hears is an Arrive step of its peer's stream, or nothing.
LEMMA HeardArrives ==
    ASSUME NEW p \in Sides, View(Peer(p)), View(Peer(p))', Heard(p)
    PROVE  Streams!Arrive(Peer(p)) \/ (Come' = Come /\ Over' = Over)
<1> DEFINE q == Peer(p)
           n == Came(q)'
           c == conn[p]
           d == conn'[p]
<1>1. q \in Sides /\ Peer(q) = p
  BY Peers
<1>2. sent' = sent /\ read' = read /\ conn'[q] = conn[q]
  BY DEF Heard
<1>3. /\ Come'[p] = Come[p] /\ (p \in Over' <=> p \in Over)
      /\ q \in Shut' <=> q \in Shut
  BY <1>2, OnlyHere
<1>4. Came(q) <= n /\ (q \in Over => q \in Over')
  <2>1. Len(c.recv_buf) <= Len(d.recv_buf) /\ (c.fin_received => d.fin_received)
    BY DEF Heard, Later
  <2>2. (q \in Over <=> c.fin_received) /\ (q \in Over' <=> d.fin_received)
    BY <1>1 DEF Over
  <2>3. Came(q) = Len(read[p]) + Len(c.recv_buf) /\ n = Len(read[p]) + Len(d.recv_buf)
    BY <1>1, <1>2 DEF Came
  <2>4. Came(q) \in Nat /\ n \in Nat
    BY DEF View
  <2>5. Len(read[p]) \in Int /\ Len(c.recv_buf) \in Int /\ Len(d.recv_buf) \in Int
    OBVIOUS
  <2> DEFINE x == Len(read[p])
             y == Len(c.recv_buf)
             z == Len(d.recv_buf)
  <2> HIDE DEF x, y, z
  <2>6. Came(q) = x + y /\ n = x + z /\ y <= z /\ x \in Int /\ y \in Int /\ z \in Int
    BY <2>1, <2>3, <2>5 DEF x, y, z
  <2> HIDE DEF n
  <2>7. Came(q) <= n
    BY <2>6
  <2> QED BY <2>1, <2>2, <2>7
<1>5. /\ Came(q) \in Nat /\ n \in Nat /\ Len(sent[q]) \in Nat /\ n <= Len(sent[q])
      /\ Come[q] = SubSeq(sent[q], 1, Came(q)) /\ Len(Come[q]) = Came(q)
      /\ Come'[q] = SubSeq(sent[q], 1, n)
      /\ q \in Over => Came(q) = Len(sent[q])
      /\ q \in Over' => q \in Shut /\ n = Len(sent[q])
  BY <1>2, <1>3 DEF View
<1> HIDE DEF n, c, d
<1>6. Come' = [Come EXCEPT ![q] = Come'[q]] /\ (Come'[q] = Come[q] => Come' = Come)
  BY <1>1, <1>3, OneSide, ViewTypes, ViewTypesNext
<1>7. (q \in Over' <=> q \in Over) => Over' = Over
  BY <1>1, <1>3, OneMember, ViewTypes, ViewTypesNext
<1>8. q \in Over' /\ q \notin Over => Over' = Over \cup {q}
  BY <1>1, <1>3, OneMember, ViewTypes, ViewTypesNext
<1>9. CASE q \in Over
  <2>1. n = Came(q)
    BY <1>4, <1>5, <1>9
  <2> QED BY <1>4, <1>5, <1>6, <1>7, <1>9, <2>1
<1>10. CASE q \notin Over
  <2>1. n \in Len(Come[q]) .. Len(sent[q])
    BY <1>4, <1>5
  <2>2. Come' = [Come EXCEPT ![q] = SubSeq(sent[q], 1, n)]
    BY <1>5, <1>6
  <2>3. Over' = Over \/ (n = Len(sent[q]) /\ q \in Shut /\ Over' = Over \cup {q})
    BY <1>5, <1>7, <1>8, <1>10
  <2> QED BY <1>1, <1>10, <2>1, <2>2, <2>3, StreamsArrive
<1> QED BY <1>9, <1>10

\* A Segment step of ByteStreams.
LEMMA StreamsSegment ==
    ASSUME NEW p \in Sides, NEW q \in Sides, q # p, sent' = sent, Shut' = Shut,
           Streams!Learn(p) \/ (Told' = Told /\ Sure' = Sure),
           Streams!Arrive(q) \/ (Come' = Come /\ Over' = Over)
    PROVE  Streams!Next
<1>1. Streams!Segment(p)
  BY DEF Streams!Segment, Shut, Told, Sure, Come, Over
<1> QED BY <1>1 DEF Streams!Next

\* Everything p may hear is a step of the streams.
LEMMA HeardStreams ==
    ASSUME NEW p \in Sides, Views, Views', Heard(p)
    PROVE  Streams!Next
<1> DEFINE q == Peer(p)
<1>1. q \in Sides /\ Peer(q) = p /\ q # p
  BY Peers
<1>2. View(p) /\ View(q) /\ View(p)' /\ View(q)'
  BY <1>1 DEF Views
<1>3. sent' = sent /\ read'[q] = read[q] /\ conn'[q] = conn[q] /\ conn'[p].fin_queued = conn[p].fin_queued
  BY DEF Heard, Later
<1>4. Shut' = Shut
  <2>1. q \in Shut' <=> q \in Shut
    BY <1>3, OnlyHere
  <2>2. p \in Shut' <=> p \in Shut
    BY <1>3 DEF Shut
  <2> QED BY <2>1, <2>2, OneMember, ViewTypes, ViewTypesNext
<1>5. Streams!Learn(p) \/ (Told' = Told /\ Sure' = Sure)
  BY <1>2, HeardLearns
<1>6. Streams!Arrive(q) \/ (Come' = Come /\ Over' = Over)
  BY <1>2, HeardArrives
<1> QED BY <1>1, <1>3, <1>4, <1>5, <1>6, StreamsSegment

\* Then only what is written to a stream may change.
LEMMA StandsStill ==
    ASSUME NEW p \in Sides, Views, Views', Stands(p),
           sent'[Peer(p)] = sent[Peer(p)]
    PROVE  Come' = Come /\ Over' = Over /\ Told' = Told /\ Sure' = Sure
<1> DEFINE q == Peer(p)
<1>1. q \in Sides /\ Peer(q) = p
  BY Peers
<1>2. View(p) /\ View(q) /\ View(p)' /\ View(q)'
  BY <1>1 DEF Views
<1>3. /\ Told'[q] = Told[q] /\ (q \in Sure' <=> q \in Sure)
      /\ Come'[p] = Come[p] /\ (p \in Over' <=> p \in Over)
  BY OnlyHere DEF Stands
<1>4. Came(q)' = Came(q)
  BY <1>1 DEF Stands, Came
<1>5. Come'[q] = Come[q]
  <2>1. Come[q] = SubSeq(sent[q], 1, Came(q))
    BY <1>2 DEF View
  <2>2. Come'[q] = SubSeq(sent'[q], 1, Came(q)')
    BY <1>2 DEF View
  <2> QED BY <1>4, <2>1, <2>2
<1>6. q \in Over' <=> q \in Over
  BY <1>1 DEF Stands, Over
<1>7. Told'[p] = Told[p]
  <2>1. Told[p] = Knows(p) /\ Told'[p] = Knows(p)'
    BY <1>2 DEF View
  <2>2. Knows(p)' = Knows(p)
    BY DEF Stands, Knows, Buf
  <2> QED BY <2>1, <2>2
<1>8. p \in Sure' <=> p \in Sure
  <2>1. p \in Sure <=> Una(conn[p]) = Buf(conn[p]) + 1
    BY <1>2 DEF View
  <2>2. p \in Sure' <=> Una(conn'[p]) = Buf(conn'[p]) + 1
    BY <1>2 DEF View, Una, Buf
  <2> QED BY <2>1, <2>2 DEF Stands
<1>9. Come' = Come
  BY <1>1, <1>3, <1>5, OneSide, ViewTypes, ViewTypesNext
<1>10. Told' = Told
  BY <1>1, <1>3, <1>7, OneSide, ViewTypes, ViewTypesNext
<1>11. Over' = Over
  BY <1>1, <1>3, <1>6, OneMember, ViewTypes, ViewTypesNext
<1>12. Sure' = Sure
  BY <1>1, <1>3, <1>8, OneMember, ViewTypes, ViewTypesNext
<1> QED BY <1>9, <1>10, <1>11, <1>12

\* A side that ends its stream ends the stream.
LEMMA FinishesStreams ==
    ASSUME NEW p \in Sides, Views, Views', Finishes(p)
    PROVE  Streams!Next
<1> DEFINE q == Peer(p)
<1>1. Stands(p) /\ sent'[q] = sent[q] /\ sent' = sent
  BY DEF Finishes, Ended, Stands, Una, Buf
<1>2. Come' = Come /\ Over' = Over /\ Told' = Told /\ Sure' = Sure
  BY <1>1, StandsStill
<1>3. p \notin Shut /\ p \in Shut'
  BY DEF Finishes, Ended, Shut
<1>4. q \in Shut' <=> q \in Shut
  BY <1>1, OnlyHere DEF Stands
<1>5. Shut' = Shut \cup {p}
  BY <1>3, <1>4, OneMember, ViewTypes, ViewTypesNext
<1>6. Streams!Write(p)
  BY <1>1, <1>2, <1>3, <1>5 DEF Streams!Write, Shut, Come, Over, Told, Sure
<1> QED BY <1>6 DEF Streams!Next

\* The bytes of the two streams are numbered from 1.
LEMMA Numbered ==
    ASSUME NEW p \in Sides, NEW b \in 1 .. MaxBytes[p]
    PROVE  b \in 1 .. Max({MaxBytes[s] : s \in Sides})
<1> DEFINE S == {MaxBytes[s] : s \in Sides}
           x == MaxBytes[p]
           y == MaxBytes[Peer(p)]
<1>1. Peer(p) \in Sides /\ \A s \in Sides : s = p \/ s = Peer(p)
  BY Peers
<1>2. x \in Nat /\ y \in Nat
  BY <1>1, LifetimeAssumption
<1>3. x \in S /\ y \in S /\ \A z \in S : z = x \/ z = y
  BY <1>1
<1>4. \E m \in S : \A z \in S : m >= z
  <2>1. CASE x >= y
    BY <1>2, <1>3, <2>1
  <2>2. CASE ~(x >= y)
    BY <1>2, <1>3, <2>2
  <2> QED BY <2>1, <2>2
<1> HIDE DEF S
<1>5. Max(S) \in S /\ \A z \in S : Max(S) >= z
  BY <1>4 DEF Max
<1>6. Max(S) \in Nat /\ Max(S) >= x
  BY <1>2, <1>3, <1>5
<1>7. b \in 1 .. Max(S)
  BY <1>2, <1>6
<1> QED BY <1>7 DEF S

\* A byte that is written is added to the stream.
LEMMA AddsStreams ==
    ASSUME NEW p \in Sides, Views, Views', Adds(p)
    PROVE  Streams!Next
<1> DEFINE q == Peer(p)
           b == Len(sent[p]) + 1
           Most == Max({MaxBytes[s] : s \in Sides})
<1>1. q \in Sides /\ q # p
  BY Peers
<1>2. sent' = [sent EXCEPT ![p] = Append(@, b)] /\ Len(sent[p]) < MaxBytes[p]
  BY DEF Adds
<1>3. sent'[q] = sent[q]
  BY <1>1, <1>2
<1>4. Stands(p)
  BY DEF Adds, Standing, Stands, Una, Buf
<1>5. Come' = Come /\ Over' = Over /\ Told' = Told /\ Sure' = Sure
  BY <1>3, <1>4, StandsStill
<1>6. p \notin Shut /\ p \notin Shut'
  BY DEF Adds, Standing, Shut
<1>7. q \in Shut' <=> q \in Shut
  BY <1>4, OnlyHere DEF Stands
<1>8. Shut' = Shut
  BY <1>6, <1>7, OneMember, ViewTypes, ViewTypesNext
<1>9. b \in 1 .. MaxBytes[p]
  <2>1. Len(sent[p]) \in Nat
    BY DEF Views, View
  <2>2. MaxBytes[p] \in Nat
    BY LifetimeAssumption
  <2> QED BY <1>2, <2>1, <2>2
<1>10. b \in 1 .. Most
  BY <1>9, Numbered
<1>11. Streams!Write(p)
  BY <1>2, <1>5, <1>6, <1>8, <1>10 DEF Streams!Write, Shut, Come, Over, Told, Sure
<1> QED BY <1>11 DEF Streams!Next

\* Reading moves bytes that have arrived.
LEMMA TakesStreams ==
    ASSUME NEW p \in Sides, Views, Views', Takes(p)
    PROVE  UNCHANGED Streams!vars
<1> DEFINE q == Peer(p)
<1>1. Stands(p) /\ sent' = sent
  BY DEF Takes, Standing, Stands, Una, Buf
<1>2. Come' = Come /\ Over' = Over /\ Told' = Told /\ Sure' = Sure
  BY <1>1, StandsStill
<1>3. p \in Shut' <=> p \in Shut
  BY DEF Takes, Standing, Shut
<1>4. q \in Shut' <=> q \in Shut
  BY <1>1, OnlyHere DEF Stands
<1>5. Shut' = Shut
  BY <1>3, <1>4, OneMember, ViewTypes, ViewTypesNext
<1>6. <<sent, Shut, Come, Over, Told, Sure>>' = <<sent, Shut, Come, Over, Told, Sure>>
  BY <1>1, <1>2, <1>5
<1> QED BY <1>6 DEF Streams!vars, Shut, Come, Over, Told, Sure

\* A step that touches neither connections nor streams is none of ByteStreams.
LEMMA StillStreams ==
    ASSUME UNCHANGED <<conn, sent, read>>
    PROVE  UNCHANGED Streams!vars
BY DEF Streams!vars

\* Every step of the two connections is a step of the two streams.
LEMMA NextStreams ==
    ASSUME Inv, Views, Views', [Next]_vars
    PROVE  [Streams!Next]_(Streams!vars)
<1>1. CASE UNCHANGED vars
  <2>1. UNCHANGED <<conn, sent, read>>
    BY <1>1 DEF vars
  <2> QED BY <2>1, StillStreams
<1>2. ASSUME NEW p \in Sides,
             \/ Open(p) \/ Write(p) \/ Read(p) \/ ShutdownSend(p) \/ CloseSocket(p) \/ AbortSocket(p)
             \/ Lose(p) \/ Arrival(p) \/ RunTimers(p)
      PROVE  [Streams!Next]_(Streams!vars)
  <2>1. CASE Open(p)
    BY <2>1, OpenInv, HeardStreams
  <2>2. CASE Write(p)
    BY <2>2, WriteInv, AddsStreams
  <2>3. CASE Read(p)
    BY <2>3, ReadInv, TakesStreams
  <2>4. CASE ShutdownSend(p) \/ CloseSocket(p) \/ AbortSocket(p)
    BY <2>4, ClosingInv, HeardStreams, FinishesStreams
  <2>5. CASE Lose(p)
    BY <2>5, StillStreams DEF Lose
  <2>6. CASE Arrival(p)
    BY <2>6, DeliverInv, AcceptInv, NobodyListensInv, HeardStreams DEF Arrival
  <2>7. CASE RunTimers(p)
    BY <2>7, TimersInv, HeardStreams
  <2> QED BY <1>2, <2>1, <2>2, <2>3, <2>4, <2>5, <2>6, <2>7
<1> QED BY <1>1, <1>2 DEF Next

\* Nothing has been written, received or acknowledged at the start.
LEMMA InitStreams ==
    ASSUME Init, Inv, Views
    PROVE  Streams!Init
<1>1. /\ sent = [s \in Sides |-> <<>>] /\ read = [s \in Sides |-> <<>>]
      /\ \A s \in Sides : \E state : conn[s] = [NewConnection(Iss[s]) EXCEPT !.state = state]
  BY DEF Init
<1>2. ASSUME NEW s \in Sides
      PROVE  /\ s \notin Shut /\ s \notin Over /\ s \notin Sure /\ Told[s] = 0 /\ Come[s] = <<>>
  <2>1. Peer(s) \in Sides
    BY Peers
  <2>2. ~conn[s].fin_queued /\ ~conn[Peer(s)].fin_received
    <3>1. ASSUME NEW t \in Sides
          PROVE  Still(conn[t])
      <4>1. PICK state : conn[t] = [NewConnection(Iss[t]) EXCEPT !.state = state]
        BY <1>1
      <4>2. Still([NewConnection(Iss[t]) EXCEPT !.state = state])
        BY FreshStill
      <4> QED BY <4>1, <4>2
    <3> QED BY <2>1, <3>1 DEF Still
  <2>3. s \notin Shut /\ s \notin Over
    BY <2>2 DEF Shut, Over
  <2>4. View(s) /\ Len(sent[s]) = 0
    BY <1>1 DEF Views
  <2>5. Came(s) = 0 /\ Knows(s) = 0
    BY <2>4 DEF View
  <2>6. s \notin Sure /\ Told[s] = 0
    BY <2>3, <2>4, <2>5 DEF View
  <2>7. Come[s] = <<>>
    <3>1. sent[s] = <<>> /\ sent[s] \in Seq(Nat)
      BY <1>1, <2>4 DEF View
    <3>2. Come[s] = SubSeq(sent[s], 1, 0)
      BY <2>4, <2>5 DEF View
    <3> QED BY <3>1, <3>2, EmptyPiece
  <2> QED BY <2>3, <2>6, <2>7
<1>3. Shut = {} /\ Over = {} /\ Sure = {}
  BY <1>2, ViewTypes
<1>4. Come = [s \in Sides |-> <<>>] /\ Told = [s \in Sides |-> 0]
  BY <1>2, ViewTypes
<1> QED BY <1>1, <1>3, <1>4 DEF Streams!Init, Shut, Come, Over, Told, Sure

\* The two connections implement two byte streams, over a network that loses, duplicates by
\* retransmission and reorders: bytes arrive in order, once and without a gap, the end after the
\* last of them, and a side takes for acknowledged only what has arrived (ByteStreams.tla; all of
\* p2p_tcp.cpp).
THEOREM StreamsImplemented == Spec => ImplementsStreams
<1>1. Init => Streams!Init
  BY InitInv, ViewsNow, InitStreams
<1>2. Inv /\ Inv' /\ [Next]_vars => [Streams!Next]_(Streams!vars)
  BY ViewsNow, ViewsNext, NextStreams
<1> QED BY <1>1, <1>2, InvAlways, PTL DEF Spec, ImplementsStreams, Streams!Spec

=============================================================================
