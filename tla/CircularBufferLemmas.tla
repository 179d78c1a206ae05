------------------------ MODULE CircularBufferLemmas ------------------------
(***************************************************************************)
(* Facts about the circular buffer operations, for every array size.  The  *)
(* proofs about the buffer component and about the driver cite them.       *)
(***************************************************************************)
EXTENDS CircularBufferOps, SequencesExt, SequenceTheorems, FiniteSetTheorems, TLAPS

(* Reduction modulo MaxOps of a sum of two slot numbers (or of MaxOps and  *)
(* one): the only sums FOREACH forms.                                      *)
LEMMA ModSlots ==
  ASSUME NEW a \in 0 .. 2 * MaxOps - 1
  PROVE  a % MaxOps = IF a < MaxOps THEN a ELSE a - MaxOps
<1>1. MaxOps \in Nat /\ MaxOps > 0
  BY MaxOpsAssumption
<1>2. CASE a < MaxOps
  BY <1>1, <1>2
<1>3. CASE a >= MaxOps
  <2>1. a - MaxOps \in 0 .. MaxOps - 1
    BY <1>1, <1>3
  <2>2. a = MaxOps * 1 + (a - MaxOps)
    BY <1>1
  <2> QED
    BY <1>1, <1>3, <2>1, <2>2
<1> QED
  BY <1>1, <1>2, <1>3

(* In a well-shaped buffer FOREACH stops, after MaxOps iterations when the *)
(* buffer is full and after in_offs iterations when it is not.             *)
LEMMA ForeachCountIs ==
  ASSUME NEW E, NEW b, IsBuffer(b, E), RingShape(b)
  PROVE  /\ ForeachTerminates(b)
         /\ ForeachCount(b) = IF b.full THEN MaxOps ELSE b.in_offs
<1> DEFINE n == IF b.full THEN MaxOps ELSE b.in_offs
<1>0. /\ MaxOps \in Nat /\ MaxOps > 0
      /\ b.in_offs \in 0 .. MaxOps - 1 /\ b.out_offs \in 0 .. MaxOps - 1
      /\ b.full \in BOOLEAN
  BY MaxOpsAssumption DEF IsBuffer, Slots
<1>1. n \in 0..MaxOps
  BY <1>0
<1>2. \A k \in 0..MaxOps : k % MaxOps = IF k < MaxOps THEN k ELSE 0
  BY <1>0, ModSlots
<1>3. ForeachStops(b, n)
  BY <1>0, <1>1, <1>2 DEF ForeachStops, RingShape
<1>4. \A k \in 0..MaxOps : k < n => ~ForeachStops(b, k)
  BY <1>0, <1>1, <1>2 DEF ForeachStops, RingShape
<1>5. \A k \in 0..MaxOps :
        (ForeachStops(b, k) /\ \A j \in 0..(k-1) : ~ForeachStops(b, j)) <=> k = n
  <2> SUFFICES ASSUME NEW k \in 0..MaxOps
               PROVE  (ForeachStops(b, k) /\ \A j \in 0..(k-1) : ~ForeachStops(b, j)) <=> k = n
    OBVIOUS
  <2>1. CASE k < n
    BY <1>0, <1>4, <2>1
  <2>2. CASE k = n
    BY <1>0, <1>1, <1>3, <1>4, <2>2
  <2>3. CASE k > n
    BY <1>0, <1>1, <1>3, <2>3
  <2> QED
    BY <1>0, <1>1, <2>1, <2>2, <2>3
<1>6. ForeachCount(b) = n
  <2> HIDE DEF n
  <2> QED
    BY <1>1, <1>5 DEF ForeachCount
<1> QED
  BY <1>1, <1>3, <1>6 DEF ForeachTerminates

(* add_entry keeps a well-shaped buffer well shaped. *)
LEMMA AddKeepsShape ==
  ASSUME NEW E, NEW b, IsBuffer(b, E), RingShape(b), NEW e \in E
  PROVE  /\ IsBuffer(aesd_circular_buffer_add_entry(b, e), E)
         /\ RingShape(aesd_circular_buffer_add_entry(b, e))
<1> DEFINE c == aesd_circular_buffer_add_entry(b, e)
<1>0. /\ MaxOps \in Nat /\ MaxOps > 0
      /\ b.in_offs \in 0 .. MaxOps - 1 /\ b.out_offs \in 0 .. MaxOps - 1
      /\ b.entry \in [Slots -> E] /\ b.full \in BOOLEAN
  BY MaxOpsAssumption DEF IsBuffer, Slots
<1>1. /\ AdvanceOffs(b.in_offs) \in 0 .. MaxOps - 1
      /\ AdvanceOffs(b.out_offs) \in 0 .. MaxOps - 1
  BY <1>0 DEF AdvanceOffs
<1>2. [b.entry EXCEPT ![b.in_offs] = e] \in [Slots -> E]
  BY <1>0
<1>3. IsBuffer(c, E)
  BY <1>0, <1>1, <1>2 DEF IsBuffer, aesd_circular_buffer_add_entry, Slots
<1>4. RingShape(c)
  BY <1>0 DEF RingShape, aesd_circular_buffer_add_entry, AdvanceOffs
<1> QED
  BY <1>3, <1>4

(* A zeroed buffer is a well-shaped empty one. *)
LEMMA InitShape ==
  ASSUME NEW E, ZeroEntry \in E
  PROVE  /\ IsBuffer(aesd_circular_buffer_init, E)
         /\ RingShape(aesd_circular_buffer_init)
BY MaxOpsAssumption
   DEF IsBuffer, RingShape, aesd_circular_buffer_init, Slots

(* add_entry on a buffer that is not full appends to what FOREACH visits.  *)
LEMMA AddNotFull ==
  ASSUME NEW E, NEW b, IsBuffer(b, E), RingShape(b), NEW e \in E, ~b.full
  PROVE  LET c == aesd_circular_buffer_add_entry(b, e)
         IN  /\ ForeachCount(c) = ForeachCount(b) + 1
             /\ \A k \in 0 .. ForeachCount(b) - 1 : ForeachEntry(c, k) = ForeachEntry(b, k)
             /\ ForeachEntry(c, ForeachCount(b)) = e
<1> DEFINE c == aesd_circular_buffer_add_entry(b, e)
<1>0. /\ MaxOps \in Nat /\ MaxOps > 0
      /\ b.in_offs \in 0 .. MaxOps - 1 /\ b.out_offs = 0
      /\ b.entry \in [0 .. MaxOps - 1 -> E]
  BY MaxOpsAssumption DEF IsBuffer, RingShape, Slots
<1>1. IsBuffer(c, E) /\ RingShape(c)
  BY AddKeepsShape
<1>2. ForeachCount(b) = b.in_offs
  BY ForeachCountIs
<1>3. ForeachCount(c) = IF c.full THEN MaxOps ELSE c.in_offs
  BY <1>1, ForeachCountIs
<1>4. /\ c.out_offs = 0
      /\ c.full <=> AdvanceOffs(b.in_offs) = 0
      /\ c.in_offs = AdvanceOffs(b.in_offs)
      /\ c.entry = [b.entry EXCEPT ![b.in_offs] = e]
  BY <1>0 DEF aesd_circular_buffer_add_entry
<1>5. ForeachCount(c) = b.in_offs + 1
  BY <1>0, <1>3, <1>4 DEF AdvanceOffs
<1>6. \A k \in 0 .. b.in_offs : (k + 0) % MaxOps = k
  BY <1>0, ModSlots
<1>7. \A k \in 0 .. b.in_offs - 1 : ForeachEntry(c, k) = ForeachEntry(b, k)
  BY <1>0, <1>4, <1>6 DEF ForeachEntry
<1>8. ForeachEntry(c, b.in_offs) = e
  BY <1>0, <1>4, <1>6 DEF ForeachEntry
<1> QED
  BY <1>2, <1>5, <1>7, <1>8

(* add_entry on a full buffer drops the entry FOREACH visits first, keeps  *)
(* the others in their order and visits the new one last.                  *)
LEMMA AddFull ==
  ASSUME NEW E, NEW b, IsBuffer(b, E), RingShape(b), NEW e \in E, b.full
  PROVE  LET c == aesd_circular_buffer_add_entry(b, e)
         IN  /\ ForeachCount(b) = MaxOps /\ ForeachCount(c) = MaxOps
             /\ \A k \in 0 .. MaxOps - 2 : ForeachEntry(c, k) = ForeachEntry(b, k + 1)
             /\ ForeachEntry(c, MaxOps - 1) = e
<1> DEFINE c == aesd_circular_buffer_add_entry(b, e)
<1>0. /\ MaxOps \in Nat /\ MaxOps > 0
      /\ b.in_offs \in 0 .. MaxOps - 1 /\ b.out_offs = b.in_offs
      /\ b.entry \in [0 .. MaxOps - 1 -> E]
  BY MaxOpsAssumption DEF IsBuffer, RingShape, Slots
<1>1. IsBuffer(c, E) /\ RingShape(c)
  BY AddKeepsShape
<1>2. /\ c.full
      /\ c.out_offs = AdvanceOffs(b.in_offs)
      /\ c.entry = [b.entry EXCEPT ![b.in_offs] = e]
  BY <1>0 DEF aesd_circular_buffer_add_entry
<1>3. ForeachCount(b) = MaxOps /\ ForeachCount(c) = MaxOps
  BY <1>1, <1>2, ForeachCountIs
<1>4. \A k \in 0 .. MaxOps - 1 :
        (k + c.out_offs) % MaxOps =
          IF k = MaxOps - 1 THEN b.in_offs
          ELSE (k + 1 + b.in_offs) % MaxOps
  <2> SUFFICES ASSUME NEW k \in 0 .. MaxOps - 1
               PROVE  (k + c.out_offs) % MaxOps =
                        IF k = MaxOps - 1 THEN b.in_offs
                        ELSE (k + 1 + b.in_offs) % MaxOps
    OBVIOUS
  <2> DEFINE x == k + c.out_offs
             y == k + 1 + b.in_offs
  <2>1. x \in 0 .. 2 * MaxOps - 1
    BY <1>0, <1>2 DEF AdvanceOffs
  <2>2. x % MaxOps = IF x < MaxOps THEN x ELSE x - MaxOps
    <3> HIDE DEF x
    <3> QED BY <2>1, ModSlots
  <2>3. CASE k = MaxOps - 1
    BY <1>0, <1>2, <2>2, <2>3 DEF AdvanceOffs
  <2>4. CASE k # MaxOps - 1
    <3>1. y \in 0 .. 2 * MaxOps - 1
      BY <1>0, <2>4
    <3>2. y % MaxOps = IF y < MaxOps THEN y ELSE y - MaxOps
      <4> HIDE DEF y
      <4> QED BY <3>1, ModSlots
    <3> DEFINE mx == x % MaxOps
               my == y % MaxOps
    <3>3. /\ mx = IF x < MaxOps THEN x ELSE x - MaxOps
          /\ my = IF y < MaxOps THEN y ELSE y - MaxOps
      BY <2>2, <3>2
    <3>4. mx = my
      <4>1. c.out_offs = IF b.in_offs + 1 >= MaxOps THEN 0 ELSE b.in_offs + 1
        BY <1>2 DEF AdvanceOffs
      <4> HIDE DEF mx, my
      <4> QED
        BY <1>0, <2>4, <3>3, <4>1, SMTT(40)
    <3> QED
      BY <2>4, <3>4
  <2> QED
    BY <2>3, <2>4
<1>5. \A k \in 0 .. MaxOps - 2 :
        (k + 1 + b.in_offs) % MaxOps \in (0 .. MaxOps - 1) \ {b.in_offs}
  <2> SUFFICES ASSUME NEW k \in 0 .. MaxOps - 2
               PROVE  (k + 1 + b.in_offs) % MaxOps \in (0 .. MaxOps - 1) \ {b.in_offs}
    OBVIOUS
  <2> DEFINE y == k + 1 + b.in_offs
  <2>1. y \in 0 .. 2 * MaxOps - 1
    BY <1>0
  <2>2. y % MaxOps = IF y < MaxOps THEN y ELSE y - MaxOps
    <3> HIDE DEF y
    <3> QED BY <2>1, ModSlots
  <2> DEFINE m == y % MaxOps
  <2>3. m = IF y < MaxOps THEN y ELSE y - MaxOps
    BY <2>2
  <2>4. m \in (0 .. MaxOps - 1) \ {b.in_offs}
    <3> HIDE DEF m
    <3> QED BY <1>0, <2>3
  <2> QED
    BY <2>4
<1>6. \A k \in 0 .. MaxOps - 2 : ForeachEntry(c, k) = ForeachEntry(b, k + 1)
  BY <1>0, <1>2, <1>4, <1>5, SMTT(40) DEF ForeachEntry
<1>7. ForeachEntry(c, MaxOps - 1) = e
  BY <1>0, <1>2, <1>4 DEF ForeachEntry
<1> QED
  BY <1>3, <1>6, <1>7

(* Dropping the head of a sequence and appending an item, item by item.    *)
LEMMA ShiftIn ==
  ASSUME NEW S, NEW s \in Seq(S), NEW t \in Seq(S), NEW x \in S,
         Len(s) > 0, Len(t) = Len(s),
         \A k \in 1 .. Len(s) - 1 : t[k] = s[k + 1],
         t[Len(s)] = x
  PROVE  t = Append(Tail(s), x)
<1> DEFINE r == Tail(s)
           u == Append(r, x)
<1>0. s # << >> /\ Len(s) \in Nat
  BY EmptySeq, LenProperties
<1>1. /\ r \in Seq(S) /\ Len(r) = Len(s) - 1
      /\ \A k \in 1 .. Len(s) - 1 : r[k] = s[k + 1]
  BY <1>0, HeadTailProperties
<1>2. /\ u \in Seq(S) /\ Len(u) = Len(r) + 1
      /\ \A k \in 1 .. Len(r) : u[k] = r[k]
      /\ u[Len(r) + 1] = x
  <2> HIDE DEF r
  <2> QED BY <1>1, AppendProperties
<1>3. Len(u) = Len(t) /\ \A k \in 1 .. Len(t) : t[k] = u[k]
  <2> HIDE DEF r, u
  <2> QED BY <1>0, <1>1, <1>2
<1> QED
  <2> HIDE DEF u
  <2>1. t = u
    BY <1>2, <1>3, SeqEqual
  <2> QED BY <2>1 DEF u
-----------------------------------------------------------------------------
(***************************************************************************)
(* find_entry_offset_for_fpos                                              *)
(***************************************************************************)
(* A set of natural numbers has a least one. *)
LEMMA LeastNat ==
  ASSUME NEW T, T \subseteq Nat, T # {}
  PROVE  \E j \in T : \A i \in T : j <= i
<1>1. \E j \in T : \A i \in T : ~(<<i, j>> \in OpToRel(<, Nat))
  BY WFMin, NatLessThanWellFounded
<1>2. \A i, j \in Nat : i < j => <<i, j>> \in OpToRel(<, Nat)
  BY DEF OpToRel
<1>3. PICK j \in T : \A i \in T : ~(<<i, j>> \in OpToRel(<, Nat))
  BY <1>1
<1>4. \A i \in T : ~(i < j)
  BY <1>2, <1>3, Zenon
<1> QED BY <1>4

(* Entries with a size. *)
Sized(E) == \A e \in E : e.size \in Nat

(* Nothing comes before the first entry. *)
LEMMA NoBytesBeforeFirst ==
  ASSUME NEW b
  PROVE  TotalSize(b, 0) = 0
<1>1. 0..(0-1) = {}
  OBVIOUS
<1>2. BytesBefore(b, 0) = {}
  BY <1>1 DEF BytesBefore
<1> QED
  BY <1>2, FS_EmptySet DEF TotalSize

(* The entry of iteration k is an entry, whatever k. *)
LEMMA ForeachEntryType ==
  ASSUME NEW E, NEW b, IsBuffer(b, E), NEW k \in Nat
  PROVE  ForeachEntry(b, k) \in E
<1>1. MaxOps \in Nat /\ MaxOps > 0 /\ b.out_offs \in Nat
  BY MaxOpsAssumption DEF IsBuffer, Slots
<1>2. (k + b.out_offs) % MaxOps \in Slots
  BY <1>1 DEF Slots
<1> QED
  BY <1>2 DEF ForeachEntry, IsBuffer

(* The running total is a number. *)
LEMMA TotalSizeType ==
  ASSUME NEW E, Sized(E), NEW b, IsBuffer(b, E), NEW k \in Nat
  PROVE  IsFiniteSet(BytesBefore(b, k)) /\ TotalSize(b, k) \in Nat
<1> DEFINE F(i) == {i} \X (0 .. ForeachEntry(b, i).size - 1)
           I == 0 .. (k - 1)
           Fs == {F(i) : i \in I}
<1>1. IsFiniteSet(I)
  <2>1. 0 \in Int /\ k - 1 \in Int
    OBVIOUS
  <2> QED
    BY <2>1, FS_Interval
<1>2. IsFiniteSet(Fs)
  <2> DEFINE f == [i \in I |-> F(i)]
  <2> HIDE DEF F, I
  <2>1. f \in Surjection(I, Fs)
    BY DEF Surjection
  <2> QED
    BY <1>1, <2>1, FS_Surjection
<1>3. \A i \in I : IsFiniteSet(F(i))
  <2> SUFFICES ASSUME NEW i \in I PROVE IsFiniteSet(F(i))
    OBVIOUS
  <2>1. ForeachEntry(b, i).size \in Nat
    <3>1. i \in Nat
      OBVIOUS
    <3>2. ForeachEntry(b, i) \in E
      BY <3>1, ForeachEntryType
    <3> QED
      BY <3>2 DEF Sized
  <2>2. IsFiniteSet(0 .. ForeachEntry(b, i).size - 1)
    <3>1. 0 \in Int /\ ForeachEntry(b, i).size - 1 \in Int
      BY <2>1
    <3> QED
      BY <3>1, FS_Interval
  <2>3. IsFiniteSet({i})
    BY FS_Singleton
  <2> QED
    BY <2>2, <2>3, FS_Product
<1>4. IsFiniteSet(UNION Fs)
  <2> HIDE DEF F
  <2>1. \A S \in Fs : IsFiniteSet(S)
    BY <1>3
  <2> HIDE DEF Fs
  <2> QED
    BY <1>2, <2>1, FS_UNION
<1>5. BytesBefore(b, k) = UNION Fs
  BY DEF BytesBefore
<1> QED
  BY <1>4, <1>5, FS_CardinalityType DEF TotalSize

(* Each iteration adds the size of its entry to the total. *)
LEMMA TotalSizeStep ==
  ASSUME NEW E, Sized(E), NEW b, IsBuffer(b, E), NEW k \in Nat
  PROVE  TotalSize(b, k + 1) = TotalSize(b, k) + ForeachEntry(b, k).size
<1> DEFINE F(i) == {i} \X (0 .. ForeachEntry(b, i).size - 1)
           old == BytesBefore(b, k)
           sz == ForeachEntry(b, k).size
<1>1. sz \in Nat
  BY ForeachEntryType DEF Sized
<1>2. 0 .. ((k + 1) - 1) = (0 .. (k - 1)) \cup {k} /\ k \notin 0 .. (k - 1)
  OBVIOUS
<1>3. BytesBefore(b, k + 1) = old \cup F(k)
  <2> HIDE DEF F
  <2>1. BytesBefore(b, k + 1) = UNION {F(i) : i \in 0 .. ((k + 1) - 1)}
    BY DEF BytesBefore, F
  <2>2. old = UNION {F(i) : i \in 0 .. (k - 1)}
    BY DEF BytesBefore, F
  <2> QED
    BY <1>2, <2>1, <2>2
<1>4. old \cap F(k) = {}
  <2>1. \A x \in old : x[1] \in 0 .. (k - 1)
    BY DEF BytesBefore
  <2>2. \A x \in F(k) : x[1] = k
    OBVIOUS
  <2> HIDE DEF old, F
  <2> QED
    BY <1>2, <2>1, <2>2
<1>5. IsFiniteSet(F(k)) /\ Cardinality(F(k)) = sz
  <2>1. IsFiniteSet({k}) /\ Cardinality({k}) = 1
    BY FS_Singleton
  <2>2. IsFiniteSet(0 .. sz - 1) /\ Cardinality(0 .. sz - 1) = sz
    <3> HIDE DEF sz
    <3>1. 0 \in Int /\ sz - 1 \in Int
      BY <1>1
    <3>2. IsFiniteSet(0 .. sz - 1)
          /\ Cardinality(0 .. sz - 1) = IF 0 > sz - 1 THEN 0 ELSE (sz - 1) - 0 + 1
      BY <3>1, FS_Interval
    <3> QED
      BY <1>1, <3>2
  <2>3. IsFiniteSet({k} \X (0 .. sz - 1))
        /\ Cardinality({k} \X (0 .. sz - 1)) = Cardinality({k}) * Cardinality(0 .. sz - 1)
    BY <2>1, <2>2, FS_Product
  <2> QED
    BY <1>1, <2>1, <2>2, <2>3
<1>6. IsFiniteSet(old) /\ Cardinality(old) \in Nat
  BY TotalSizeType DEF TotalSize
<1> HIDE DEF old, F, sz
<1>7. Cardinality(old \cup F(k)) = Cardinality(old) + Cardinality(F(k)) - Cardinality({})
  BY <1>4, <1>5, <1>6, FS_Union
<1>8. Cardinality({}) = 0
  BY FS_EmptySet
<1> QED
  <2>1. TotalSize(b, k + 1) = Cardinality(old \cup F(k)) /\ TotalSize(b, k) = Cardinality(old)
    BY <1>3 DEF TotalSize, old
  <2>2. Cardinality(old \cup F(k)) = Cardinality(old) + sz
    BY <1>1, <1>5, <1>6, <1>7, <1>8
  <2> QED
    BY <2>1, <2>2 DEF sz

(* FOREACH makes at most MaxOps iterations. *)
LEMMA CountIsNat ==
  ASSUME NEW E, NEW b, IsBuffer(b, E), RingShape(b)
  PROVE  ForeachCount(b) \in Nat /\ ForeachCount(b) \in 0..MaxOps
<1>1. ForeachCount(b) = IF b.full THEN MaxOps ELSE b.in_offs
  BY ForeachCountIs
<1>2. b.in_offs \in 0 .. MaxOps - 1 /\ MaxOps \in Nat
  BY MaxOpsAssumption DEF IsBuffer, Slots
<1> QED BY <1>1, <1>2

(* find_entry_offset_for_fpos returns an entry FOREACH visits and an       *)
(* offset inside it.                                                       *)
LEMMA FindIsInside ==
  ASSUME NEW E, Sized(E), NEW b, IsBuffer(b, E), RingShape(b), NEW pos \in Nat,
         FindIndex(b, pos) # -1
  PROVE  /\ FindIndex(b, pos) \in 0 .. ForeachCount(b) - 1
         /\ FindOffset(b, pos) \in Nat
         /\ FindOffset(b, pos) < ForeachEntry(b, FindIndex(b, pos)).size
<1> DEFINE hits == FindCandidates(b, pos)
           k == FindIndex(b, pos)
           n == ForeachCount(b)
<1>0. n \in Nat
  BY CountIsNat
<1>1. hits # {} /\ hits \subseteq 0 .. n - 1
  BY DEF FindIndex, FindCandidates
<1>2. k = CHOOSE j \in hits : \A i \in hits : j <= i
  BY <1>1 DEF FindIndex
<1>3. \E j \in hits : \A i \in hits : j <= i
  <2>1. hits \subseteq Nat
    BY <1>0, <1>1
  <2> HIDE DEF hits
  <2> QED
    BY <1>1, <2>1, LeastNat
<1>4. k \in hits /\ \A i \in hits : k <= i
  <2> HIDE DEF hits, k
  <2> QED
    BY <1>2, <1>3
<1>5. k \in 0 .. n - 1 /\ TotalSize(b, k) + ForeachEntry(b, k).size > pos
  BY <1>1, <1>4 DEF FindCandidates
<1>6. k \in Nat /\ TotalSize(b, k) \in Nat /\ ForeachEntry(b, k).size \in Nat
  <2>1. k \in Nat
    <3> HIDE DEF k, n
    <3> QED
      BY <1>0, <1>5
  <2>2. ForeachEntry(b, k) \in E
    BY <2>1, ForeachEntryType
  <2> QED
    BY <2>1, <2>2, TotalSizeType DEF Sized
<1>7. TotalSize(b, k) <= pos
  <2>1. CASE k = 0
    BY <2>1, NoBytesBeforeFirst
  <2>2. CASE k # 0
    <3> HIDE DEF k, n
    <3>1. k - 1 \in Nat /\ k - 1 \in 0 .. n - 1 /\ (k - 1) + 1 = k /\ ~(k <= k - 1)
      BY <1>0, <1>5, <1>6, <2>2
    <3>2. k - 1 \notin hits
      BY <1>4, <3>1
    <3>3. ~(TotalSize(b, k - 1) + ForeachEntry(b, k - 1).size > pos)
      BY <3>1, <3>2 DEF FindCandidates, n
    <3>4. TotalSize(b, k - 1) \in Nat /\ ForeachEntry(b, k - 1).size \in Nat
      BY <3>1, TotalSizeType, ForeachEntryType DEF Sized
    <3>5. TotalSize(b, k) = TotalSize(b, k - 1) + ForeachEntry(b, k - 1).size
      BY <3>1, TotalSizeStep
    <3> QED
      BY <3>3, <3>4, <3>5
  <2> QED
    BY <2>1, <2>2
<1>8. FindOffset(b, pos) = pos - TotalSize(b, k)
  BY DEF FindOffset
<1> HIDE DEF k, n, hits
<1> QED
  BY <1>5, <1>6, <1>7, <1>8 DEF k, n
-----------------------------------------------------------------------------
(***************************************************************************)
(* Concatenation                                                           *)
(***************************************************************************)
(* T holds the running totals of the lengths of the sequences in s. *)
Totals(s, T) ==
  /\ T \in [0..Len(s) -> Nat] /\ T[0] = 0
  /\ \A k \in 1..Len(s) : T[k] = T[k - 1] + Len(s[k])

LEMMA TotalsAt ==
  ASSUME NEW S, NEW s \in Seq(Seq(S)), NEW T, Totals(s, T)
  PROVE  /\ Len(s) \in Nat /\ T[0] = 0 /\ \A k \in 0..Len(s) : T[k] \in Nat
         /\ \A k \in 1..Len(s) :
              /\ s[k] \in Seq(S) /\ Len(s[k]) \in Nat
              /\ T[k - 1] \in Nat /\ T[k] \in Nat /\ T[k] = T[k - 1] + Len(s[k])
<1>1. Len(s) \in Nat /\ \A k \in 1..Len(s) : s[k] \in Seq(S)
  OBVIOUS
<1>2. \A k \in 1..Len(s) : Len(s[k]) \in Nat
  BY <1>1
<1>3. \A k \in 1..Len(s) : k \in 0..Len(s) /\ k - 1 \in 0..Len(s)
  BY <1>1
<1>4. \A k \in 0..Len(s) : T[k] \in Nat
  BY DEF Totals
<1> QED BY <1>1, <1>2, <1>3, <1>4 DEF Totals

LEMMA TotalsGrow ==
  ASSUME NEW S, NEW s \in Seq(Seq(S)), NEW T, Totals(s, T),
         NEW i \in 0..Len(s), NEW k \in 0..Len(s), i <= k
  PROVE  T[i] <= T[k]
<1> DEFINE n == Len(s)
           C == {j \in i..n : ~(T[i] <= T[j])}
<1>1. n \in Nat /\ \A j \in 1..n : Len(s[j]) \in Nat
  OBVIOUS
<1>2. SUFFICES ASSUME C # {} PROVE FALSE
  BY <1>1
<1>3. C \subseteq Nat
  BY <1>1
<1> HIDE DEF C
<1>4. PICK c \in C : \A j \in C : c <= j
  BY <1>2, <1>3, LeastNat
<1>5. c \in i..n /\ ~(T[i] <= T[c])
  BY DEF C
<1> HIDE DEF n
<1>6. T \in [0..n -> Nat] /\ \A j \in 1..n : T[j] = T[j - 1] + Len(s[j])
  BY DEF Totals, n
<1>7. i \in Nat /\ i \in 0..n /\ T[i] \in Nat /\ c # i
  <2>1. i \in Nat /\ i \in 0..n
    BY <1>1 DEF n
  <2>2. T[i] \in Nat
    BY <1>6, <2>1
  <2> QED BY <1>5, <2>1, <2>2
<1>8. c - 1 \in i..n /\ c \in 1..n /\ ~(c <= c - 1)
  BY <1>1, <1>5, <1>7
<1>9. T[i] <= T[c - 1]
  BY <1>4, <1>8 DEF C, n
<1>10. T[c] = T[c - 1] + Len(s[c]) /\ T[c - 1] \in Nat /\ Len(s[c]) \in Nat /\ T[i] \in Nat
  BY <1>1, <1>5, <1>6, <1>7, <1>8
<1> QED BY <1>5, <1>9, <1>10

(* The sequence in which the place p of the concatenation lies. *)
Holder(T, n, p) == CHOOSE i \in 1..n : T[i - 1] < p /\ p <= T[i]

LEMMA HolderIs ==
  ASSUME NEW S, NEW s \in Seq(Seq(S)), NEW T, Totals(s, T)
  PROVE  /\ \A k \in 0..Len(s) : \A p \in 1..T[k] :
              \E i \in 1..k : T[i - 1] < p /\ p <= T[i]
         /\ \A i \in 1..Len(s) : \A p \in Nat :
              T[i - 1] < p /\ p <= T[i] => Holder(T, Len(s), p) = i
<1> DEFINE n == Len(s)
<1>1. n \in Nat /\ T \in [0..n -> Nat] /\ T[0] = 0
  BY DEF Totals
<1>2. ASSUME NEW k \in 0..n, NEW p \in 1..T[k]
      PROVE  \E i \in 1..k : T[i - 1] < p /\ p <= T[i]
  <2> DEFINE C == {i \in 0..k : p <= T[i]}
  <2>1. C \subseteq Nat /\ k \in C
    BY <1>1
  <2> HIDE DEF C
  <2>2. PICK i \in C : \A j \in C : i <= j
    BY <2>1, LeastNat
  <2>3. i \in 0..k /\ p <= T[i]
    BY DEF C
  <2>4. i # 0
    BY <1>1, <2>3
  <2>5. i \in 1..k /\ i - 1 \in 0..k /\ i - 1 \in 0..n /\ ~(i <= i - 1)
    BY <1>1, <2>3, <2>4
  <2>6. ~(p <= T[i - 1])
    BY <2>2, <2>5 DEF C
  <2>7. T[i - 1] \in Nat
    BY <1>1, <2>5
  <2> QED BY <2>3, <2>5, <2>6, <2>7
<1>3. ASSUME NEW i \in 1..n, NEW p \in Nat, T[i - 1] < p, p <= T[i]
      PROVE  Holder(T, n, p) = i
  <2>1. ASSUME NEW j \in 1..n, T[j - 1] < p, p <= T[j] PROVE j = i
    <3>0. /\ i - 1 \in 0..n /\ j - 1 \in 0..n /\ i \in 0..n /\ j \in 0..n
      BY <1>1
    <3>1. T[i] \in Nat /\ T[j] \in Nat /\ T[i - 1] \in Nat /\ T[j - 1] \in Nat
      BY <1>1, <3>0
    <3>2. j <= i - 1 => T[j] <= T[i - 1]
      BY <3>0, TotalsGrow
    <3>3. i <= j - 1 => T[i] <= T[j - 1]
      BY <3>0, TotalsGrow
    <3> HIDE DEF n
    <3>4. ~(j <= i - 1)
      BY <1>3, <2>1, <3>1, <3>2
    <3>5. ~(i <= j - 1)
      BY <1>3, <2>1, <3>1, <3>3
    <3> QED BY <1>1, <3>4, <3>5
  <2> HIDE DEF n
  <2> QED BY <1>3, <2>1 DEF Holder
<1> QED BY <1>2, <1>3

(* The concatenation of the first k sequences, place by place, *)
FlatTo(s, T, k) ==
  [p \in 1..T[k] |-> s[Holder(T, Len(s), p)][p - T[Holder(T, Len(s), p) - 1]]]

LEMMA FlatToIs ==
  ASSUME NEW S, NEW s \in Seq(Seq(S)), NEW T, Totals(s, T), NEW k \in 0..Len(s)
  PROVE  /\ FlatTo(s, T, k) \in Seq(S) /\ Len(FlatTo(s, T, k)) = T[k]
         /\ \A i \in 1..k : \A j \in 1..Len(s[i]) :
              T[i - 1] + j \in 1..T[k] /\ FlatTo(s, T, k)[T[i - 1] + j] = s[i][j]
<1> DEFINE n == Len(s)
           f == FlatTo(s, T, k)
<1>1. n \in Nat /\ T \in [0..n -> Nat] /\ T[0] = 0 /\ T[k] \in Nat
  BY DEF Totals
<1>2. ASSUME NEW p \in 1..T[k]
      PROVE  f[p] \in S
  <2>1. PICK i \in 1..k : T[i - 1] < p /\ p <= T[i]
    BY HolderIs
  <2>2. i \in 1..n /\ p \in Nat /\ i - 1 \in 0..n
    BY <1>1
  <2>3. Holder(T, n, p) = i
    BY <2>1, <2>2, HolderIs
  <2>4. f[p] = s[i][p - T[i - 1]]
    BY <2>3 DEF FlatTo
  <2>5. s[i] \in Seq(S) /\ Len(s[i]) \in Nat /\ T[i] = T[i - 1] + Len(s[i]) /\ T[i - 1] \in Nat
    BY <2>2, TotalsAt
  <2>6. p - T[i - 1] \in 1..Len(s[i])
    BY <2>1, <2>2, <2>5, SMTT(40)
  <2> HIDE DEF f, n
  <2> QED BY <2>4, <2>5, <2>6
<1>3. f \in Seq(S) /\ Len(f) = T[k]
  <2>1. f = [p \in 1..T[k] |-> f[p]]
    BY DEF FlatTo
  <2> HIDE DEF f
  <2>2. f \in [1..T[k] -> S]
    BY <1>2, <2>1
  <2> QED BY <1>1, <2>2
<1>4. ASSUME NEW i \in 1..k, NEW j \in 1..Len(s[i])
      PROVE  T[i - 1] + j \in 1..T[k] /\ f[T[i - 1] + j] = s[i][j]
  <2>1. i \in 1..n /\ i \in 0..n /\ i - 1 \in 0..n /\ i <= k
    BY <1>1
  <2>2. /\ T[i] \in Nat /\ T[i - 1] \in Nat /\ T[i] = T[i - 1] + Len(s[i])
        /\ Len(s[i]) \in Nat /\ T[i] <= T[k]
    <3>1. T[i] <= T[k]
      BY <2>1, TotalsGrow
    <3> QED BY <2>1, <3>1, TotalsAt
  <2>3. /\ T[i - 1] + j \in 1..T[k] /\ T[i - 1] + j \in Nat /\ T[i - 1] < T[i - 1] + j
        /\ T[i - 1] + j <= T[i] /\ (T[i - 1] + j) - T[i - 1] = j
    <3>1. j \in Nat /\ j >= 1 /\ j <= Len(s[i])
      BY <2>2
    <3>2. T[i - 1] + j >= 1 /\ T[i - 1] + j <= T[i] /\ T[i - 1] + j \in Nat
      BY <2>2, <3>1
    <3>3. T[i - 1] + j <= T[k]
      BY <1>1, <2>2, <3>2
    <3> QED BY <1>1, <2>2, <3>1, <3>2, <3>3, SMTT(40)
  <2>4. Holder(T, n, T[i - 1] + j) = i
    BY <2>1, <2>3, HolderIs
  <2> QED BY <2>3, <2>4 DEF FlatTo
<1> QED BY <1>3, <1>4

(* adds one sequence after the other, *)
LEMMA FlatToStep ==
  ASSUME NEW S, NEW s \in Seq(Seq(S)), NEW T, Totals(s, T), NEW k \in 1..Len(s)
  PROVE  FlatTo(s, T, k) = IF k = 1 THEN s[1] ELSE FlatTo(s, T, k - 1) \o s[k]
<1> DEFINE n == Len(s)
           f == FlatTo(s, T, k)
           g == FlatTo(s, T, k - 1)
<1>0. n \in Nat /\ k \in 0..n /\ k - 1 \in 0..n /\ k \in 1..k
  OBVIOUS
<1>1. /\ T[0] = 0 /\ T[k] \in Nat /\ T[k - 1] \in Nat
      /\ s[k] \in Seq(S) /\ Len(s[k]) \in Nat /\ T[k] = T[k - 1] + Len(s[k])
  BY TotalsAt
<1>2. /\ f \in Seq(S) /\ Len(f) = T[k]
      /\ \A j \in 1..Len(s[k]) : f[T[k - 1] + j] = s[k][j]
  BY <1>0, FlatToIs
<1>3. g \in Seq(S) /\ Len(g) = T[k - 1]
  BY <1>0, FlatToIs
<1>4. \A p \in 1..T[k - 1] : f[p] = g[p]
  <2>1. \A p \in 1..T[k - 1] : p \in 1..T[k]
    BY <1>1
  <2> QED BY <2>1 DEF FlatTo
<1> HIDE DEF f, g, n
<1>5. CASE k = 1
  <2>1. T[k - 1] = 0 /\ Len(f) = Len(s[1]) /\ s[1] \in Seq(S)
    BY <1>1, <1>2, <1>5
  <2>2. \A j \in 1..Len(s[1]) : 0 + j = j
    OBVIOUS
  <2>3. \A j \in 1..Len(s[1]) : f[j] = s[1][j]
    BY <1>2, <1>5, <2>1, <2>2
  <2>4. f = s[1]
    BY <1>2, <2>1, <2>3
  <2> QED BY <1>5, <2>4 DEF f
<1>6. CASE k # 1
  <2>1. g \o s[k] \in Seq(S) /\ Len(g \o s[k]) = T[k]
    BY <1>1, <1>3
  <2>2. ASSUME NEW p \in 1..T[k] PROVE f[p] = (g \o s[k])[p]
    <3>1. CASE p <= T[k - 1]
      BY <1>1, <1>3, <1>4, <3>1
    <3>2. CASE p > T[k - 1]
      <4>1. p - T[k - 1] \in 1..Len(s[k]) /\ T[k - 1] + (p - T[k - 1]) = p
        BY <1>1, <3>2
      <4>2. f[p] = s[k][p - T[k - 1]]
        BY <1>2, <4>1
      <4>3. (g \o s[k])[p] = s[k][p - Len(g)]
        <5> DEFINE v == s[k]
        <5>1. /\ g \in Seq(S) /\ v \in Seq(S) /\ Len(g) \in Nat /\ Len(v) \in Nat
              /\ p \in Nat /\ p > Len(g) /\ p <= Len(g) + Len(v)
          BY <1>1, <1>3, <3>2
        <5> HIDE DEF v
        <5>2. (g \o v)[p] = v[p - Len(g)]
          BY <5>1
        <5> QED BY <5>2 DEF v
      <4> QED BY <1>3, <4>2, <4>3
    <3>3. p <= T[k - 1] \/ p > T[k - 1]
      BY <1>1
    <3> QED BY <3>1, <3>2, <3>3
  <2>3. f = g \o s[k]
    <3> DEFINE h == g \o s[k]
    <3>1. h \in Seq(S) /\ Len(h) = Len(f) /\ \A p \in 1..Len(f) : f[p] = h[p]
      BY <1>2, <2>1, <2>2
    <3> HIDE DEF h
    <3>2. f = [p \in 1..Len(f) |-> f[p]] /\ h = [p \in 1..Len(h) |-> h[p]]
      BY <1>2, <3>1
    <3>3. f = h
      BY <3>1, <3>2
    <3> QED BY <3>3 DEF h
  <2> QED BY <1>6, <2>3 DEF f, g
<1> QED BY <1>5, <1>6

(* and is what the recursive function of FlattenSeq computes.              *)
LEMMA FlattenIs ==
  ASSUME NEW S, NEW s \in Seq(Seq(S)), NEW T, Totals(s, T)
  PROVE  FlattenSeq(s) = FlatTo(s, T, Len(s))
<1> DEFINE n == Len(s)
           Step(f) == [i \in 1..n |-> IF i = 1 THEN s[i] ELSE f[i - 1] \o s[i]]
           g == [k \in 1..n |-> FlatTo(s, T, k)]
           flatten == CHOOSE f : f = Step(f)
<1>1. n \in Nat
  OBVIOUS
<1>2. CASE n = 0
  <2>1. FlattenSeq(s) = s /\ s = << >>
    BY <1>2 DEF FlattenSeq
  <2>2. FlatTo(s, T, 0) \in Seq(S) /\ Len(FlatTo(s, T, 0)) = 0
    <3>1. T[0] = 0 /\ 0 \in 0..Len(s)
      BY <1>1, TotalsAt
    <3> QED BY <3>1, FlatToIs
  <2> QED BY <1>2, <2>1, <2>2
<1>3. CASE n # 0
  <2>1. FlattenSeq(s) = flatten[n]
    BY <1>3 DEF FlattenSeq
  <2>2. g = Step(g)
    <3>1. ASSUME NEW k \in 1..n
          PROVE  g[k] = IF k = 1 THEN s[k] ELSE g[k - 1] \o s[k]
      <4>1. k # 1 => k - 1 \in 1..n
        BY <1>1
      <4> QED BY <4>1, FlatToStep
    <3> QED BY <3>1
  <2>3. flatten = Step(flatten)
    <3> HIDE DEF g, Step
    <3> QED BY <2>2
  <2>4. \A k \in 1..n : flatten[k] = g[k]
    <3> DEFINE C == {k \in 1..n : flatten[k] # g[k]}
    <3> HIDE DEF flatten, g, n
    <3>1. SUFFICES ASSUME C # {} PROVE FALSE
      OBVIOUS
    <3>2. C \subseteq Nat
      BY <1>1
    <3> HIDE DEF C
    <3>3. PICK k \in C : \A j \in C : k <= j
      BY <3>1, <3>2, LeastNat
    <3>4. k \in 1..n /\ flatten[k] # g[k]
      BY DEF C
    <3>5. /\ flatten[k] = IF k = 1 THEN s[k] ELSE flatten[k - 1] \o s[k]
          /\ g[k] = IF k = 1 THEN s[k] ELSE g[k - 1] \o s[k]
      BY <2>2, <2>3, <3>4
    <3>6. k # 1 => k - 1 \in 1..n /\ ~(k <= k - 1)
      BY <1>1, <3>4
    <3>7. k # 1 => flatten[k - 1] = g[k - 1]
      BY <3>3, <3>6 DEF C
    <3> QED BY <3>4, <3>5, <3>7
  <2>5. n \in 1..n
    BY <1>1, <1>3
  <2> QED BY <2>1, <2>4, <2>5
<1> QED BY <1>2, <1>3

(* Where each item of each sequence stands in the concatenation. *)
LEMMA FlattenSeqIs ==
  ASSUME NEW S, NEW s \in Seq(Seq(S)), NEW T, Totals(s, T)
  PROVE  /\ FlattenSeq(s) \in Seq(S) /\ Len(FlattenSeq(s)) = T[Len(s)]
         /\ \A i \in 1..Len(s) : \A j \in 1..Len(s[i]) :
              T[i - 1] + j \in 1..T[Len(s)] /\ FlattenSeq(s)[T[i - 1] + j] = s[i][j]
<1>1. Len(s) \in 0..Len(s)
  BY TotalsAt
<1> QED BY <1>1, FlattenIs, FlatToIs

(* The running totals of FOREACH are those of sequences as long as its     *)
(* entries.                                                                *)
LEMMA TotalSizesAreTotals ==
  ASSUME NEW E, Sized(E), NEW b, IsBuffer(b, E), NEW S, NEW s \in Seq(Seq(S)),
         \A k \in 1..Len(s) : Len(s[k]) = ForeachEntry(b, k - 1).size
  PROVE  Totals(s, [k \in 0..Len(s) |-> TotalSize(b, k)])
<1> DEFINE T == [k \in 0..Len(s) |-> TotalSize(b, k)]
<1>0. Len(s) \in Nat /\ \A k \in 0..Len(s) : k \in Nat
  OBVIOUS
<1>1. T \in [0..Len(s) -> Nat] /\ T[0] = 0
  BY <1>0, TotalSizeType, NoBytesBeforeFirst
<1>2. ASSUME NEW k \in 1..Len(s) PROVE T[k] = T[k - 1] + Len(s[k])
  <2>1. k - 1 \in Nat /\ k - 1 \in 0..Len(s) /\ k \in 0..Len(s) /\ (k - 1) + 1 = k
    BY <1>0
  <2>2. TotalSize(b, k) = TotalSize(b, k - 1) + ForeachEntry(b, k - 1).size
    BY <2>1, TotalSizeStep
  <2> QED BY <2>1, <2>2
<1> QED BY <1>1, <1>2 DEF Totals

(* The offsets that are found are those below the total size. *)
LEMMA FoundBelowTotal ==
  ASSUME NEW E, Sized(E), NEW b, IsBuffer(b, E), RingShape(b), NEW pos \in Nat
  PROVE  FindIndex(b, pos) # -1 <=> pos < TotalSize(b, ForeachCount(b))
<1> DEFINE n == ForeachCount(b)
           hits == FindCandidates(b, pos)
<1>0. n \in Nat
  BY CountIsNat
<1>1. \A k \in Nat : TotalSize(b, k) \in Nat /\ ForeachEntry(b, k).size \in Nat
  BY TotalSizeType, ForeachEntryType DEF Sized
<1>2. \A k \in Nat : TotalSize(b, k + 1) = TotalSize(b, k) + ForeachEntry(b, k).size
  BY TotalSizeStep
<1>3. hits = {k \in 0 .. n - 1 : TotalSize(b, k + 1) > pos}
  <2>1. \A k \in 0 .. n - 1 : k \in Nat
    BY <1>0
  <2> QED BY <1>2, <2>1 DEF FindCandidates
<1>4. FindIndex(b, pos) # -1 => hits # {}
  BY DEF FindIndex
<1>5. hits # {} => FindIndex(b, pos) # -1
  <2> SUFFICES ASSUME hits # {} PROVE FindIndex(b, pos) # -1
    OBVIOUS
  <2>1. hits \subseteq Nat
    BY <1>0, <1>3
  <2>2. FindIndex(b, pos) = CHOOSE k \in hits : \A j \in hits : k <= j
    BY DEF FindIndex
  <2> HIDE DEF hits
  <2>3. \E k \in hits : \A j \in hits : k <= j
    BY <2>1, LeastNat
  <2>4. FindIndex(b, pos) \in hits
    BY <2>2, <2>3
  <2> QED BY <2>1, <2>4
<1>6. pos < TotalSize(b, n) => hits # {}
  <2> SUFFICES ASSUME pos < TotalSize(b, n) PROVE hits # {}
    OBVIOUS
  <2>1. n # 0
    BY <1>0, NoBytesBeforeFirst
  <2> HIDE DEF n
  <2>2. n - 1 \in 0 .. n - 1 /\ (n - 1) + 1 = n /\ TotalSize(b, n) \in Nat
    BY <1>0, <1>1, <2>1
  <2> HIDE DEF hits
  <2> QED BY <1>3, <2>2
<1>7. hits # {} => pos < TotalSize(b, n)
  <2> SUFFICES ASSUME NEW k \in 0 .. n - 1, TotalSize(b, k + 1) > pos,
                      ~(pos < TotalSize(b, n))
               PROVE  FALSE
    BY <1>3
  <2> DEFINE C == {j \in k + 1 .. n : ~(pos < TotalSize(b, j))}
  <2>1. C \subseteq Nat /\ n \in C
    BY <1>0
  <2> HIDE DEF C, n
  <2>2. PICK c \in C : \A j \in C : c <= j
    BY <2>1, LeastNat
  <2>3. c \in k + 1 .. n /\ ~(pos < TotalSize(b, c))
    BY DEF C
  <2>4. k \in Nat /\ k + 1 \in Nat /\ TotalSize(b, k + 1) \in Nat
    BY <1>0, <1>1
  <2>5. c # k + 1
    BY <2>3, <2>4
  <2>6. /\ c - 1 \in Nat /\ c - 1 \in k + 1 .. n /\ (c - 1) + 1 = c /\ ~(c <= c - 1)
    BY <1>0, <2>3, <2>4, <2>5
  <2>7. pos < TotalSize(b, c - 1)
    BY <2>2, <2>6 DEF C
  <2>8. /\ TotalSize(b, c) = TotalSize(b, c - 1) + ForeachEntry(b, c - 1).size
        /\ TotalSize(b, c - 1) \in Nat /\ ForeachEntry(b, c - 1).size \in Nat
    <3>1. TotalSize(b, (c - 1) + 1) = TotalSize(b, c - 1) + ForeachEntry(b, c - 1).size
      BY <1>2, <2>6
    <3> QED BY <1>1, <2>6, <3>1
  <2> QED BY <2>3, <2>7, <2>8
<1> QED BY <1>4, <1>5, <1>6, <1>7
=============================================================================
