------------------------ MODULE CircularBufferProofs ------------------------
(***************************************************************************)
(* Proofs about the circular buffer for every array size and every set of  *)
(* entries: its invariants, and that it implements BoundedLog.             *)
(***************************************************************************)
EXTENDS CircularBuffer, CircularBufferLemmas

(* In every reachable state the fields are in range, the buffer is well    *)
(* shaped and FOREACH leaves its loop, for every array size.               *)
THEOREM BufferInvariant == Spec => [](TypeOK /\ Shape /\ Terminates)
<1> DEFINE E == Entries \cup {ZeroEntry}
           Inv == IsBuffer(buffer, E) /\ RingShape(buffer)
<1>1. Init => Inv
  BY InitShape DEF Init
<1>2. Inv /\ [Next]_buffer => Inv'
  <2> SUFFICES ASSUME Inv, [Next]_buffer PROVE Inv'
    OBVIOUS
  <2>2. ASSUME NEW e \in Entries, AddEntry(e) PROVE Inv'
    BY <2>2, AddKeepsShape DEF AddEntry
  <2>3. CASE UNCHANGED buffer
    BY <2>3
  <2> QED
    BY <2>2, <2>3 DEF Next
<1>3. Inv => TypeOK /\ Shape /\ Terminates
  BY ForeachCountIs DEF TypeOK, Shape, Terminates
<1> QED
  BY <1>1, <1>2, <1>3, PTL DEF Spec

(* in_offs and out_offs stay inside the array, and every slot holds an     *)
(* entry that was added or the zeros of aesd_circular_buffer_init.         *)
THEOREM BufferTypes == Spec => []TypeOK
BY BufferInvariant, PTL

(* AESD_CIRCULAR_BUFFER_FOREACH and the loop of find_entry leave after at  *)
(* most MaxOps iterations: the offset they start from comes round again.   *)
THEOREM ForeachEnds == Spec => []Terminates
BY BufferInvariant, PTL

(* FOREACH visits the last MaxOps entries added, oldest first: the buffer  *)
(* implements BoundedLog for every array size and every set of entries.    *)
THEOREM BufferImplementsLog == Spec => ImplementsBoundedLog
<1> DEFINE E == Entries \cup {ZeroEntry}
<1>1. Init => Abstract!LInit
  <2> SUFFICES ASSUME Init PROVE Visited = << >>
    BY DEF Abstract!LInit
  <2>1. ForeachCount(buffer) = 0
    <3>1. IsBuffer(buffer, E) /\ RingShape(buffer)
      BY InitShape DEF Init
    <3> QED
      BY <3>1, ForeachCountIs DEF Init, aesd_circular_buffer_init
  <2> QED
    BY <2>1 DEF Visited
<1>2. TypeOK /\ Shape /\ [Next]_buffer => [Abstract!LNext]_Visited
  <2> SUFFICES ASSUME TypeOK, Shape, [Next]_buffer
               PROVE  Abstract!LNext \/ UNCHANGED Visited
    OBVIOUS
  <2>0. IsBuffer(buffer, E) /\ RingShape(buffer)
    BY DEF TypeOK, Shape
  <2>2. ASSUME NEW e \in Entries, AddEntry(e) PROVE Abstract!LAdd(e)
    <3> DEFINE n == ForeachCount(buffer)
    <3>0. /\ n \in Nat /\ n <= MaxOps /\ MaxOps \in Nat /\ MaxOps > 0
          /\ n < MaxOps <=> ~buffer.full
      <4>1. n = IF buffer.full THEN MaxOps ELSE buffer.in_offs
        BY <2>0, ForeachCountIs
      <4>2. /\ MaxOps \in Nat /\ MaxOps > 0
            /\ buffer.in_offs \in 0 .. MaxOps - 1
        BY <2>0, MaxOpsAssumption DEF IsBuffer, Slots
      <4> HIDE DEF n
      <4> QED
        BY <4>1, <4>2
    <3>1. /\ buffer' = aesd_circular_buffer_add_entry(buffer, e)
          /\ e \in E
      BY <2>2 DEF AddEntry
    <3>2. /\ Visited \in Seq(E) /\ Len(Visited) = n
          /\ \A k \in 1..n : Visited[k] = ForeachEntry(buffer, k - 1)
      <4>1. \A k \in 1..n : ForeachEntry(buffer, k - 1) \in E
        BY <2>0, <3>0, ModSlots DEF ForeachEntry, IsBuffer, Slots
      <4> HIDE DEF n
      <4> QED
        BY <3>0, <4>1 DEF Visited, n
    <3>3. CASE ~buffer.full
      <4>1. /\ ForeachCount(buffer') = n + 1
            /\ \A k \in 0 .. n - 1 : ForeachEntry(buffer', k) = ForeachEntry(buffer, k)
            /\ ForeachEntry(buffer', n) = e
        BY <2>0, <3>1, <3>3, AddNotFull
      <4>2. Visited' = Append(Visited, e)
        BY <3>0, <3>2, <4>1 DEF Visited
      <4> QED
        BY <3>0, <3>2, <3>3, <4>2 DEF Abstract!LAdd, Abstract!Push
    <3>4. CASE buffer.full
      <4>1. /\ n = MaxOps /\ ForeachCount(buffer') = MaxOps
            /\ \A k \in 0 .. MaxOps - 2 :
                 ForeachEntry(buffer', k) = ForeachEntry(buffer, k + 1)
            /\ ForeachEntry(buffer', MaxOps - 1) = e
        BY <2>0, <3>1, <3>4, AddFull
      <4>2. /\ Visited' \in Seq(E) /\ Len(Visited') = n
            /\ \A k \in 1 .. n - 1 : Visited'[k] = Visited[k + 1]
            /\ Visited'[n] = e
        <5>1. \A k \in 1..n : ForeachEntry(buffer', k - 1) \in E
          <6>1. IsBuffer(buffer', E)
            BY <2>0, <3>1, AddKeepsShape
          <6> QED
            BY <3>0, <6>1, ModSlots DEF ForeachEntry, IsBuffer, Slots
        <5>2. Visited' = [k \in 1..n |-> ForeachEntry(buffer', k - 1)]
          BY <4>1 DEF Visited
        <5> HIDE DEF n, E
        <5>3. Visited' \in Seq(E) /\ Len(Visited') = n
          BY <3>0, <5>1, <5>2
        <5>4. \A k \in 1 .. n - 1 : Visited'[k] = Visited[k + 1]
          BY <3>0, <3>2, <4>1, <5>2
        <5>5. Visited'[n] = e
          BY <3>0, <4>1, <5>2
        <5> QED BY <5>3, <5>4, <5>5
      <4>3. Visited' = Append(Tail(Visited), e)
        <5> DEFINE s == Visited
                   t == Visited'
        <5>1. /\ s \in Seq(E) /\ t \in Seq(E) /\ e \in E
              /\ Len(s) = n /\ Len(t) = n /\ n > 0
              /\ \A k \in 1 .. n - 1 : t[k] = s[k + 1]
              /\ t[n] = e
          BY <3>0, <3>1, <3>2, <4>1, <4>2
        <5> HIDE DEF n, E, s, t
        <5>2. t = Append(Tail(s), e)
          BY <5>1, ShiftIn
        <5> QED BY <5>2 DEF s, t
      <4> QED
        BY <3>0, <3>2, <4>1, <4>3 DEF Abstract!LAdd, Abstract!Push
    <3> QED
      BY <3>3, <3>4
  <2>3. CASE UNCHANGED buffer
    BY <2>3 DEF Visited
  <2> QED
    BY <2>2, <2>3 DEF Next, Abstract!LNext
<1> QED
  BY <1>1, <1>2, BufferInvariant, PTL DEF Spec, ImplementsBoundedLog, Abstract!LSpec

(* find_entry_offset_for_fpos locates every byte of the concatenation of   *)
(* the stored strings, and nothing past its end, for every array size and  *)
(* entries of every size, zero included.                                   *)
THEOREM FindIsExact == Spec => []FindMatchesConcatenation
<1> DEFINE E == Entries \cup {ZeroEntry}
<1>1. ASSUME TypeOK, Shape PROVE FindMatchesConcatenation
  <2> DEFINE n == ForeachCount(buffer)
             Size(k) == ForeachEntry(buffer, k).size
             Bytes(k) == [j \in 1..Size(k - 1) |-> <<k - 1, j - 1>>]
             s == [k \in 1..n |-> Bytes(k)]
             T == [k \in 0..n |-> TotalSize(buffer, k)]
  <2>0. IsBuffer(buffer, E) /\ RingShape(buffer) /\ Sized(E)
    BY <1>1, EntriesAssumption DEF TypeOK, Shape, Sized, ZeroEntry
  <2>1. n \in Nat
    BY <2>0, CountIsNat
  <2>2. \A k \in Nat : Size(k) \in Nat
    <3> SUFFICES ASSUME NEW k \in Nat PROVE Size(k) \in Nat
      OBVIOUS
    <3>1. ForeachEntry(buffer, k) \in E
      BY <2>0, ForeachEntryType
    <3> QED BY <2>0, <3>1 DEF Sized
  <2> HIDE DEF n, Size
  <2>3. \A k \in 1..n : k - 1 \in Nat /\ Size(k - 1) \in Nat
    BY <2>1, <2>2
  <2>4. ASSUME NEW k \in 1..n
        PROVE  Bytes(k) \in Seq(Nat \X Nat) /\ Len(Bytes(k)) = Size(k - 1)
    <3>1. k - 1 \in Nat /\ Size(k - 1) \in Nat
      BY <2>3
    <3>2. \A j \in 1..Size(k - 1) : <<k - 1, j - 1>> \in Nat \X Nat
      BY <3>1
    <3> QED BY <3>1, <3>2
  <2>5. s \in Seq(Seq(Nat \X Nat)) /\ Len(s) = n /\ \A k \in 1..n : s[k] = Bytes(k)
    <3> HIDE DEF Bytes
    <3> QED BY <2>1, <2>4
  <2>6. Concatenated = FlattenSeq(s)
    <3>1. Len(Visited) = n /\ \A k \in 1..n : Visited[k].size = Size(k - 1)
      BY <2>1 DEF Visited, n, Size
    <3> QED BY <3>1 DEF Concatenated
  <2>7. Totals(s, T)
    <3>1. \A k \in 1..Len(s) : Len(s[k]) = ForeachEntry(buffer, k - 1).size
      BY <2>4, <2>5 DEF Size
    <3> HIDE DEF s
    <3> QED BY <2>0, <2>5, <3>1, TotalSizesAreTotals
  <2>8. /\ Len(Concatenated) = TotalSize(buffer, n) /\ TotalSize(buffer, n) \in Nat
        /\ \A i \in 1..n : \A j \in 1..Size(i - 1) :
             Concatenated[TotalSize(buffer, i - 1) + j] = <<i - 1, j - 1>>
    <3>1. /\ Len(FlattenSeq(s)) = T[n]
          /\ \A i \in 1..n : \A j \in 1..Len(s[i]) : FlattenSeq(s)[T[i - 1] + j] = s[i][j]
      <4> HIDE DEF s, T
      <4>1. s \in Seq(Seq(Nat \X Nat)) /\ Totals(s, T)
        BY <2>5, <2>7
      <4>2. /\ Len(FlattenSeq(s)) = T[Len(s)]
            /\ \A i \in 1..Len(s) : \A j \in 1..Len(s[i]) :
                 FlattenSeq(s)[T[i - 1] + j] = s[i][j]
        BY <4>1, FlattenSeqIs
      <4> QED BY <2>5, <4>2
    <3>2. \A i \in 1..n : i - 1 \in 0..n /\ T[i - 1] = TotalSize(buffer, i - 1)
      BY <2>1
    <3>3. T[n] = TotalSize(buffer, n) /\ TotalSize(buffer, n) \in Nat
      BY <2>0, <2>1, TotalSizeType
    <3>4. \A i \in 1..n : Len(s[i]) = Size(i - 1) /\ \A j \in 1..Size(i - 1) : s[i][j] = <<i - 1, j - 1>>
      BY <2>4, <2>5
    <3> HIDE DEF s, T
    <3> QED BY <2>6, <3>1, <3>2, <3>3, <3>4, SMTT(40)
  <2>9. ASSUME NEW p \in Nat, p < Len(Concatenated)
        PROVE  <<FindIndex(buffer, p), FindOffset(buffer, p)>> = Concatenated[p + 1]
    <3> DEFINE k == FindIndex(buffer, p)
               o == FindOffset(buffer, p)
    <3>1. k # -1
      BY <2>0, <2>8, <2>9, FoundBelowTotal DEF n
    <3>2. k \in 0 .. n - 1 /\ o \in Nat /\ o < Size(k)
      BY <2>0, <3>1, FindIsInside DEF n, Size
    <3>3. o = p - TotalSize(buffer, k)
      BY DEF FindOffset
    <3> HIDE DEF k, o
    <3>4. k \in Nat /\ k + 1 \in 1..n /\ (k + 1) - 1 = k /\ Size(k) \in Nat
      BY <2>1, <2>2, <3>2
    <3>5. TotalSize(buffer, k) \in Nat
      BY <2>0, <3>4, TotalSizeType
    <3>6. o + 1 \in 1..Size(k) /\ TotalSize(buffer, k) + (o + 1) = p + 1 /\ (o + 1) - 1 = o
      BY <3>2, <3>3, <3>4, <3>5
    <3>7. Concatenated[TotalSize(buffer, (k + 1) - 1) + (o + 1)] = <<(k + 1) - 1, (o + 1) - 1>>
      BY <2>8, <3>4, <3>6
    <3> QED BY <3>4, <3>6, <3>7 DEF k, o
  <2>10. ASSUME NEW p \in Nat, ~(p < Len(Concatenated))
         PROVE  FindIndex(buffer, p) = -1
    BY <2>0, <2>8, <2>10, FoundBelowTotal DEF n
  <2>11. \A p \in 0 .. Len(Concatenated) + 1 : p \in Nat
    BY <2>8
  <2> QED BY <2>9, <2>10, <2>11 DEF FindMatchesConcatenation
<1> QED BY <1>1, BufferInvariant, PTL
=============================================================================
