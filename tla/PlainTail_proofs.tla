-------------------------- MODULE PlainTail_proofs --------------------------
(***************************************************************************)
(* Proofs about PlainTail, for any chunk sizes, any --peek-bytes and any   *)
(* growth of the arrays: although the store hands out slices of arrays it  *)
(* goes on writing, the tail of a sample is exact, and what the interface  *)
(* holds is of one sample and does not change under it.                    *)
(***************************************************************************)
EXTENDS PlainTail, SequenceTheorems, TLAPS
-----------------------------------------------------------------------------
Cell == (Nat \X Nat) \cup {None}
Heap == Seq(Seq(Cell))

(* The bytes put into sample s.                                            *)
Stream(s) == [i \in Int |-> <<s, i>>]
Slice == [arr : Nat, len : Nat]

(* A slice of an array that exists; without an array it is empty.          *)
Fits(h, sl) ==
  /\ sl \in Slice /\ sl.arr <= Len(h)
  /\ IF sl.arr = 0 THEN sl.len = 0 ELSE sl.len <= Len(h[sl.arr])

(* All bytes of the slice are of sample s.                                 *)
OfSample(h, sl, s) ==
  Fits(h, sl) /\ (sl.arr # 0 => \A i \in 1..sl.len : h[sl.arr][i][1] = s)

(* Arrays other than number a are as before; array a keeps its length, and *)
(* its cells are as before or of the sequence all.                         *)
Wrote(h, h2, a, all) ==
  /\ h2 \in Heap /\ Len(h) <= Len(h2)
  /\ \A b \in 1..Len(h) : b # a => h2[b] = h[b]
  /\ a \in 1..Len(h) => /\ Len(h2[a]) = Len(h[a])
                        /\ \A i \in 1..Len(h[a]) :
                             h2[a][i] = h[a][i] \/ \E j \in 1..Len(all) : h2[a][i] = all[j]

(* The slice r holds the last n elements of all, at the front of an array  *)
(* that is the one of sl or a new one.                                     *)
Holds(h, h2, sl, r, all, n) ==
  /\ Fits(h2, r) /\ r.arr # 0 /\ r.len = n
  /\ r.arr = sl.arr \/ r.arr > Len(h)
  /\ \A i \in 1..n : h2[r.arr][i] = all[Len(all) - n + i]

(* The bytes of a slice that fits.                                         *)
LEMMA BytesOf ==
  ASSUME NEW h \in Heap, NEW sl, Fits(h, sl)
  PROVE  /\ Bytes(h, sl) \in Seq(Cell) /\ Len(Bytes(h, sl)) = sl.len
         /\ sl.arr # 0 => \A i \in 1..sl.len : Bytes(h, sl)[i] = h[sl.arr][i]
<1>1. CASE sl.arr = 0
  BY <1>1 DEF Bytes, Fits
<1>2. CASE sl.arr # 0
  <2> DEFINE a == h[sl.arr]
  <2>1. a \in Seq(Cell) /\ sl.len \in Nat /\ sl.len <= Len(a)
    BY <1>2 DEF Fits, Heap, Slice
  <2>2. Bytes(h, sl) = SubSeq(a, 1, sl.len)
    BY <1>2 DEF Bytes
  <2> HIDE DEF a
  <2>3. \A i \in 1..sl.len : a[i] \in Cell
    BY <2>1
  <2>4. /\ SubSeq(a, 1, sl.len) \in Seq(Cell) /\ Len(SubSeq(a, 1, sl.len)) = sl.len
        /\ \A i \in 1..sl.len : SubSeq(a, 1, sl.len)[i] = a[i]
    BY <2>1, <2>3
  <2> QED
    BY <2>2, <2>4 DEF a
<1> QED
  BY <1>1, <1>2

(* A sequence copied over the front of an array that can hold it.          *)
LEMMA OverArray ==
  ASSUME NEW a \in Seq(Cell), NEW q \in Seq(Cell), Len(q) <= Len(a)
  PROVE  /\ Over(a, q) \in Seq(Cell) /\ Len(Over(a, q)) = Len(a)
         /\ \A i \in 1..Len(q) : Over(a, q)[i] = q[i]
         /\ \A i \in 1..Len(a) : Over(a, q)[i] = a[i] \/ \E j \in 1..Len(q) : Over(a, q)[i] = q[j]
<1>1. /\ DOMAIN a = 1..Len(a) /\ DOMAIN q = 1..Len(q) /\ Len(a) \in Nat /\ Len(q) \in Nat
      /\ (\A i \in 1..Len(a) : a[i] \in Cell) /\ (\A i \in 1..Len(q) : q[i] \in Cell)
  OBVIOUS
<1> DEFINE f == [i \in 1..Len(a) |-> IF i \in 1..Len(q) THEN q[i] ELSE a[i]]
<1>2. Over(a, q) = f
  BY <1>1 DEF Over
<1>3. f \in [1..Len(a) -> Cell]
  BY <1>1
<1>4. f \in Seq(Cell) /\ Len(f) = Len(a)
  <2> HIDE DEF f
  <2> QED
    BY <1>1, <1>3
<1>5. \A i \in 1..Len(q) : i \in 1..Len(a)
  BY <1>1
<1> QED
  BY <1>1, <1>2, <1>4, <1>5

(* Go's append writes behind the slice or moves to a new array.            *)
LEMMA AppendWrites ==
  ASSUME NEW h \in Heap, NEW sl, Fits(h, sl), NEW q \in Seq(Cell), q # <<>>,
         NEW r \in append(h, sl, q)
  PROVE  LET all == Bytes(h, sl) \o q IN
         /\ all \in Seq(Cell) /\ Len(all) = sl.len + Len(q)
         /\ Wrote(h, r.heap, sl.arr, all) /\ Holds(h, r.heap, sl, r.slice, all, Len(all))
<1> DEFINE all == Bytes(h, sl) \o q
           N == Len(all)
<1>1. sl.arr \in Nat /\ sl.len \in Nat /\ Len(h) \in Nat /\ Len(q) \in Nat /\ Len(q) > 0
  BY DEF Fits, Slice, Heap
<1>2. all \in Seq(Cell) /\ N = sl.len + Len(q) /\ N \in Nat /\ N > 0
  <2> DEFINE b == Bytes(h, sl)
  <2>1. b \in Seq(Cell) /\ Len(b) = sl.len
    BY BytesOf
  <2> HIDE DEF b
  <2>2. b \o q \in Seq(Cell) /\ Len(b \o q) = sl.len + Len(q)
    BY <2>1
  <2> QED
    BY <1>1, <2>2 DEF b
<1>3. CASE N <= Cap(h, sl)
  <2> DEFINE a == h[sl.arr]
             o == Over(a, all)
             h2 == [h EXCEPT ![sl.arr] = o]
             s2 == [sl EXCEPT !.len = N]
  <2>1. r.heap = h2 /\ r.slice = s2
    BY <1>3 DEF append
  <2>2. sl.arr # 0 /\ sl.arr \in 1..Len(h) /\ N <= Len(a) /\ a \in Seq(Cell)
    BY <1>1, <1>2, <1>3 DEF Cap, Fits, Heap
  <2>3. /\ o \in Seq(Cell) /\ Len(o) = Len(a) /\ \A i \in 1..N : o[i] = all[i]
        /\ \A i \in 1..Len(a) : o[i] = a[i] \/ \E j \in 1..N : o[i] = all[j]
    BY <1>2, <2>2, OverArray
  <2> HIDE DEF o, all, N
  <2>4. /\ h2 \in Heap /\ Len(h2) = Len(h) /\ h2[sl.arr] = o
        /\ \A b \in 1..Len(h) : b # sl.arr => h2[b] = h[b]
    BY <2>2, <2>3 DEF Heap
  <2>5. s2 \in Slice /\ s2.arr = sl.arr /\ s2.len = N
    BY <1>2 DEF Fits, Slice
  <2> HIDE DEF h2, s2
  <2>6. Wrote(h, h2, sl.arr, all)
    BY <1>1, <2>3, <2>4 DEF Wrote, a, N
  <2>7. Fits(h2, s2)
    BY <1>1, <2>2, <2>3, <2>4, <2>5 DEF Fits
  <2>8. \A i \in 1..N : N - N + i = i
    BY <1>2
  <2>9. Holds(h, h2, sl, s2, all, N)
    BY <2>2, <2>3, <2>4, <2>5, <2>7, <2>8 DEF Holds, N
  <2> QED
    BY <1>2, <2>1, <2>6, <2>9 DEF all, N
<1>4. CASE ~(N <= Cap(h, sl))
  <2>1. PICK m \in Spare :
          /\ r.heap = Append(h, Over([i \in 1..(N + m) |-> None], all))
          /\ r.slice = [arr |-> Len(h) + 1, len |-> N]
    <3> DEFINE R(x) == [heap |-> Append(h, Over([i \in 1..(N + x) |-> None], all)),
                        slice |-> [arr |-> Len(h) + 1, len |-> N]]
    <3>1. r \in {R(x) : x \in Spare}
      BY <1>4 DEF append
    <3>2. PICK m \in Spare : r = R(m)
      <4> HIDE DEF R
      <4> QED
        BY <3>1
    <3> HIDE DEF all, N
    <3> QED
      BY <3>2
  <2> DEFINE a == [i \in 1..(N + m) |-> None]
             o == Over(a, all)
             h2 == Append(h, o)
             s2 == [arr |-> Len(h) + 1, len |-> N]
  <2>2. m \in Nat /\ N + m \in Nat
    BY <1>2, PlainAssumption
  <2> HIDE DEF all, N
  <2>3. a \in Seq(Cell) /\ Len(a) = N + m
    BY <2>2 DEF Cell
  <2>4. N <= Len(a)
    BY <1>2, <2>2, <2>3
  <2> HIDE DEF a
  <2>5. o \in Seq(Cell) /\ Len(o) = Len(a) /\ \A i \in 1..N : o[i] = all[i]
    BY <1>2, <2>3, <2>4, OverArray DEF N
  <2> HIDE DEF o
  <2>6. /\ h2 \in Heap /\ Len(h2) = Len(h) + 1 /\ h2[Len(h) + 1] = o
        /\ \A b \in 1..Len(h) : h2[b] = h[b]
    BY <2>5 DEF Heap
  <2>7. s2 \in Slice /\ s2.arr = Len(h) + 1 /\ s2.len = N
    BY <1>1, <1>2 DEF Slice
  <2>8. r.heap = h2 /\ r.slice = s2
    BY <2>1 DEF a, o
  <2> HIDE DEF h2, s2
  <2>9. Wrote(h, h2, sl.arr, all)
    <3>1. Len(h) <= Len(h2)
      BY <1>1, <2>6
    <3> QED
      BY <2>6, <3>1 DEF Wrote
  <2>10. Fits(h2, s2) /\ s2.arr # 0 /\ s2.arr > Len(h)
    BY <1>1, <2>4, <2>5, <2>6, <2>7 DEF Fits
  <2>11. \A i \in 1..N : N - N + i = i
    BY <1>2
  <2>12. Holds(h, h2, sl, s2, all, N)
    BY <2>5, <2>6, <2>7, <2>10, <2>11 DEF Holds, N
  <2> QED
    BY <1>2, <2>8, <2>9, <2>12 DEF all, N
<1> QED
  BY <1>3, <1>4

(* appendTail: the last max bytes stay, at the front of the array.         *)
LEMMA AppendTailWrites ==
  ASSUME NEW h \in Heap, NEW sl, Fits(h, sl), NEW q \in Seq(Cell), q # <<>>,
         NEW max \in Nat \ {0}, NEW r \in appendTail(h, sl, q, max)
  PROVE  LET all == Bytes(h, sl) \o q
             keep == IF Len(all) < max THEN Len(all) ELSE max IN
         /\ all \in Seq(Cell) /\ Len(all) = sl.len + Len(q)
         /\ Wrote(h, r.heap, sl.arr, all) /\ Holds(h, r.heap, sl, r.slice, all, keep)
<1> DEFINE all == Bytes(h, sl) \o q
           N == Len(all)
           keep == IF N < max THEN N ELSE max
           Goal == /\ all \in Seq(Cell) /\ Len(all) = sl.len + Len(q)
                   /\ Wrote(h, r.heap, sl.arr, all) /\ Holds(h, r.heap, sl, r.slice, all, keep)
<1>1. PICK r0 \in append(h, sl, q) : r = IF r0.slice.len > max THEN Shift(r0, max) ELSE r0
  <2>1. r \in {IF x.slice.len > max THEN Shift(x, max) ELSE x : x \in append(h, sl, q)}
    BY DEF appendTail
  <2> QED
    BY <2>1
<1> DEFINE h0 == r0.heap
           s0 == r0.slice
           c == s0.arr
<1>2. /\ all \in Seq(Cell) /\ N = sl.len + Len(q)
      /\ Wrote(h, h0, sl.arr, all) /\ Holds(h, h0, sl, s0, all, N)
  BY AppendWrites
<1>3. N \in Nat /\ Len(h) \in Nat /\ sl.arr \in Nat
  BY <1>2 DEF Heap, Fits, Slice
<1> HIDE DEF all, N
<1>4. s0.len = N /\ c # 0 /\ Fits(h0, s0) /\ h0 \in Heap
  BY <1>2 DEF Holds, Wrote
<1>5. CASE ~(s0.len > max)
  <2>1. r = r0
    BY <1>1, <1>5
  <2>2. keep = N
    BY <1>3, <1>4, <1>5
  <2> HIDE DEF keep
  <2>3. Goal
    BY <1>2, <2>1, <2>2 DEF N
  <2> QED
    BY <2>3 DEF all, N, keep
<1>6. CASE s0.len > max
  <2> DEFINE a == h0[c]
             b == Bytes(h0, s0)
             t == SubSeq(b, N - max + 1, N)
             o == Over(a, t)
             h2 == [h0 EXCEPT ![c] = o]
             s2 == [s0 EXCEPT !.len = max]
  <2>1. N > max /\ keep = max
    BY <1>3, <1>4, <1>6
  <2>2. c \in 1..Len(h0) /\ a \in Seq(Cell) /\ Len(h0) \in Nat /\ s0 \in Slice /\ N <= Len(a)
    <3>1. /\ s0 \in Slice /\ c <= Len(h0) /\ s0.len <= Len(h0[c])
      BY <1>4 DEF Fits
    <3>2. c \in Nat \ {0} /\ Len(h0) \in Nat
      BY <1>4, <3>1 DEF Heap, Slice
    <3>3. c \in 1..Len(h0)
      BY <3>1, <3>2
    <3>4. h0[c] \in Seq(Cell)
      BY <1>4, <3>3 DEF Heap
    <3> QED
      BY <1>4, <3>1, <3>2, <3>3, <3>4
  <2>3. b \in Seq(Cell) /\ Len(b) = N /\ \A i \in 1..N : b[i] = all[i]
    <3>1. /\ Bytes(h0, s0) \in Seq(Cell) /\ Len(Bytes(h0, s0)) = s0.len
          /\ \A i \in 1..s0.len : Bytes(h0, s0)[i] = h0[c][i]
      BY <1>4, BytesOf
    <3>2. \A i \in 1..N : N - N + i = i
      BY <1>3
    <3>3. \A i \in 1..N : h0[c][i] = all[i]
      BY <1>2, <3>2 DEF Holds, N
    <3> QED
      BY <1>4, <3>1, <3>3
  <2>4. r = [heap |-> h2, slice |-> s2]
    BY <1>1, <1>6, <2>3 DEF Shift
  <2> HIDE DEF b, keep
  <2>5. /\ \A i \in (N - max + 1)..N : b[i] \in Cell
        /\ \A i \in 1..max : N - max + 1 + i - 1 = N - max + i /\ N - max + i \in 1..N
    BY <1>3, <2>1, <2>3
  <2>6. t \in Seq(Cell) /\ Len(t) = max /\ \A i \in 1..max : t[i] = all[N - max + i]
    <3>1. /\ t \in Seq(Cell) /\ Len(t) = IF N - max + 1 <= N THEN N - (N - max + 1) + 1 ELSE 0
          /\ \A i \in 1..(N - (N - max + 1) + 1) : t[i] = b[N - max + 1 + i - 1]
      BY <1>3, <2>5, SubSeqProperties
    <3>2. N - (N - max + 1) + 1 = max /\ N - max + 1 <= N
      BY <1>3
    <3> HIDE DEF t
    <3> QED
      BY <2>3, <2>5, <3>1, <3>2, ZenonT(30)
  <2> HIDE DEF t
  <2>7. max <= Len(a)
    BY <1>3, <2>1, <2>2
  <2>8. /\ o \in Seq(Cell) /\ Len(o) = Len(a) /\ \A i \in 1..max : o[i] = t[i]
        /\ \A i \in 1..Len(a) : o[i] = a[i] \/ \E j \in 1..max : o[i] = t[j]
    BY <2>2, <2>6, <2>7, OverArray, ZenonT(30)
  <2> HIDE DEF o
  <2>9. /\ h2 \in Heap /\ Len(h2) = Len(h0) /\ h2[c] = o
        /\ \A x \in 1..Len(h0) : x # c => h2[x] = h0[x]
    BY <1>4, <2>2, <2>8 DEF Heap
  <2>10. s2 \in Slice /\ s2.arr = c /\ s2.len = max
    BY <2>2 DEF Slice
  <2> HIDE DEF h2, s2
  <2>11. Wrote(h, h2, sl.arr, all)
    <3>1. /\ Len(h) <= Len(h0) /\ \A x \in 1..Len(h) : x # sl.arr => h0[x] = h[x]
          /\ c = sl.arr \/ c > Len(h)
      BY <1>2 DEF Wrote, Holds
    <3>2. Len(h) <= Len(h2) /\ \A x \in 1..Len(h) : x \in 1..Len(h0)
      BY <1>3, <2>2, <2>9, <3>1
    <3>3. \A x \in 1..Len(h) : x # sl.arr => x # c
      BY <1>3, <2>2, <3>1
    <3>4. \A x \in 1..Len(h) : x # sl.arr => h2[x] = h[x]
      BY <2>9, <3>1, <3>2, <3>3
    <3>5. ASSUME sl.arr \in 1..Len(h)
          PROVE  /\ Len(h2[sl.arr]) = Len(h[sl.arr])
                 /\ \A i \in 1..Len(h[sl.arr]) :
                      h2[sl.arr][i] = h[sl.arr][i] \/ \E j \in 1..N : h2[sl.arr][i] = all[j]
      <4>1. /\ Len(h0[sl.arr]) = Len(h[sl.arr])
            /\ \A i \in 1..Len(h[sl.arr]) :
                 h0[sl.arr][i] = h[sl.arr][i] \/ \E j \in 1..N : h0[sl.arr][i] = all[j]
        BY <1>2, <3>5 DEF Wrote, N
      <4>2. CASE c # sl.arr
        BY <2>9, <3>2, <3>5, <4>1, <4>2
      <4>3. CASE c = sl.arr
        <5>1. \A j \in 1..max : \E m \in 1..N : t[j] = all[m]
          BY <2>5, <2>6
        <5>2. ASSUME NEW i \in 1..Len(a) PROVE o[i] = a[i] \/ \E j \in 1..N : o[i] = all[j]
          <6>1. CASE o[i] = a[i]
            BY <6>1
          <6>2. ASSUME NEW j \in 1..max, o[i] = t[j] PROVE \E m \in 1..N : o[i] = all[m]
            BY <5>1, <6>2
          <6> QED
            BY <2>8, <6>1, <6>2
        <5>3. h2[sl.arr] = o /\ h0[sl.arr] = a
          BY <2>9, <4>3
        <5> HIDE DEF a
        <5> QED
          BY <2>8, <4>1, <5>2, <5>3
      <4> QED
        BY <4>2, <4>3
    <3> QED
      BY <2>9, <3>2, <3>4, <3>5 DEF Wrote, N
  <2>12. Fits(h2, s2)
    BY <2>2, <2>7, <2>8, <2>9, <2>10 DEF Fits
  <2>13. Holds(h, h2, sl, s2, all, max)
    <3>1. c = sl.arr \/ c > Len(h)
      BY <1>2 DEF Holds
    <3>2. \A i \in 1..max : h2[c][i] = all[N - max + i]
      BY <2>6, <2>8, <2>9
    <3> QED
      BY <1>4, <2>10, <2>12, <3>1, <3>2 DEF Holds, N
  <2>14. Goal
    BY <1>2, <2>1, <2>4, <2>11, <2>13 DEF N
  <2> QED
    BY <2>14 DEF all, N, keep
<1> QED
  BY <1>5, <1>6

(* What a write leaves of other slices: all, if they are of another array; *)
(* their sample, if all is of the same one.                                *)
LEMMA KeepSlice ==
  ASSUME NEW h \in Heap, NEW h2, NEW a \in Nat, NEW all, Wrote(h, h2, a, all), NEW p, Fits(h, p)
  PROVE  /\ Fits(h2, p)
         /\ p.arr = 0 \/ p.arr # a => Bytes(h2, p) = Bytes(h, p)
         /\ \A s : /\ OfSample(h, p, s)
                   /\ p.arr # 0 /\ p.arr = a => \A j \in 1..Len(all) : all[j][1] = s
                   => OfSample(h2, p, s)
<1>1. /\ p \in Slice /\ p.arr \in Nat /\ p.len \in Nat /\ Len(h) \in Nat /\ Len(h2) \in Nat
      /\ p.arr <= Len(h) /\ p.arr <= Len(h2)
  BY DEF Fits, Slice, Wrote, Heap
<1>2. p.arr # 0 => p.arr \in 1..Len(h) /\ p.len <= Len(h[p.arr])
  BY <1>1 DEF Fits
<1>3. p.arr # 0 /\ p.arr # a => h2[p.arr] = h[p.arr]
  BY <1>2 DEF Wrote
<1>4. p.arr # 0 => Len(h2[p.arr]) = Len(h[p.arr])
  BY <1>2, <1>3 DEF Wrote
<1>5. Fits(h2, p)
  BY <1>1, <1>2, <1>4 DEF Fits
<1>6. ASSUME NEW s, OfSample(h, p, s),
             p.arr # 0 /\ p.arr = a => \A j \in 1..Len(all) : all[j][1] = s
      PROVE  OfSample(h2, p, s)
  <2>1. CASE p.arr # 0 /\ p.arr = a
    <3> SUFFICES ASSUME NEW i \in 1..p.len PROVE h2[a][i][1] = s
      BY <1>5, <2>1 DEF OfSample
    <3>1. h[a][i][1] = s /\ i \in 1..Len(h[a])
      <4>1. Len(h[a]) \in Nat
        BY <1>2, <2>1 DEF Heap
      <4> QED
        BY <1>1, <1>2, <1>6, <2>1, <4>1 DEF OfSample
    <3>2. h2[a][i] = h[a][i] \/ \E j \in 1..Len(all) : h2[a][i] = all[j]
      BY <1>2, <2>1, <3>1 DEF Wrote
    <3> QED
      BY <1>6, <2>1, <3>1, <3>2
  <2>2. CASE ~(p.arr # 0 /\ p.arr = a)
    BY <1>3, <1>5, <1>6, <2>2 DEF OfSample
  <2> QED
    BY <2>1, <2>2
<1> QED
  BY <1>3, <1>5, <1>6 DEF Bytes
-----------------------------------------------------------------------------
(* The inductive invariant.                                                *)

Sample == [s : Nat, n : Nat, head : Slice, tail : Slice]
Pair == [head : Slice, tail : Slice]

Kept(n) == IF n < PeekBytes THEN n ELSE PeekBytes

(* The first n elements of a are those of b that come after number m.      *)
Copy(a, n, b, m) == \A i \in 1..n : a[i] = b[m + i]

(* The tail of a sample holds the last bytes put into it.                  *)
TailExact(h, smp) ==
  /\ smp.tail.len = Kept(smp.n)
  /\ smp.tail.arr # 0 =>
       Copy(h[smp.tail.arr], Kept(smp.n), Stream(smp.s), smp.n - Kept(smp.n))

(* No sample rolls its tail in the array of the head of p, and only one of *)
(* sample s in the array of the tail.                                      *)
Apart(plain, p, s) ==
  \A ptr \in Ptrs : plain[ptr] # None /\ plain[ptr].tail.arr # 0 =>
    /\ plain[ptr].tail.arr # p.head.arr
    /\ plain[ptr].tail.arr = p.tail.arr => plain[ptr].s = s

(* p was handed out for sample s, and stays its own.                       *)
Held(h, plain, p, s) ==
  p \in Pair /\ OfSample(h, p.head, s) /\ OfSample(h, p.tail, s) /\ Apart(plain, p, s)

HeldBySome(h, plain, p) == \E s \in Nat : Held(h, plain, p, s)

SampleOK(h, plain, ptr) ==
  /\ TailExact(h, plain[ptr])
  /\ Held(h, plain, [head |-> plain[ptr].head, tail |-> plain[ptr].tail], plain[ptr].s)

PInv ==
  /\ heap \in Heap /\ made \in Nat
  /\ plainBySSL \in [Ptrs -> Sample \cup {None}]
  /\ conns \in [Conns -> Pair] /\ shot \in [Conns -> Pair]
  /\ \A ptr \in Ptrs : plainBySSL[ptr] # None =>
       plainBySSL[ptr].s <= made /\ SampleOK(heap, plainBySSL, ptr)
  /\ \A x, y \in Ptrs : plainBySSL[x] # None /\ plainBySSL[y] # None
                          /\ plainBySSL[x].s = plainBySSL[y].s => x = y
  /\ \A c \in Conns : HeldBySome(heap, plainBySSL, conns[c]) /\ HeldBySome(heap, plainBySSL, shot[c])
-----------------------------------------------------------------------------
(* ApplyData.                                                              *)

SampleAt(ptr) == IF plainBySSL[ptr] = None THEN NewSample ELSE plainBySSL[ptr]

(* What ApplyData makes of a sample, and what it leaves of slices held     *)
(* elsewhere.                                                              *)
DataEffect(h, h2, smp, n, new) ==
  /\ h2 \in Heap /\ Len(h) <= Len(h2)
  /\ new \in Sample /\ new.s = smp.s /\ TailExact(h2, new)
  /\ OfSample(h2, new.head, smp.s) /\ OfSample(h2, new.tail, smp.s)
  /\ new.head = smp.head \/ new.head.arr > Len(h)
  /\ new.tail.arr = 0 \/ new.tail.arr = smp.tail.arr \/ new.tail.arr > Len(h)
  /\ new.tail.arr # 0 => new.tail.arr # new.head.arr
  /\ \A p : Fits(h, p) =>
       /\ p.arr = 0 \/ p.arr # smp.tail.arr => Bytes(h2, p) = Bytes(h, p)
       /\ \A s : OfSample(h, p, s) /\ (p.arr # 0 /\ p.arr = smp.tail.arr => s = smp.s)
                   => OfSample(h2, p, s)

(* The sample before: as the invariant says, or new and empty.             *)
LEMMA SampleBefore ==
  ASSUME PInv, NEW ptr \in Ptrs
  PROVE  LET smp == SampleAt(ptr) IN
         /\ smp \in Sample /\ TailExact(heap, smp)
         /\ OfSample(heap, smp.head, smp.s) /\ OfSample(heap, smp.tail, smp.s)
         /\ smp.tail.arr # 0 => smp.tail.arr # smp.head.arr
<1> DEFINE smp == SampleAt(ptr)
<1>1. CASE plainBySSL[ptr] = None
  <2>1. Nil \in Slice /\ Nil.arr = 0 /\ Nil.len = 0 /\ 0 <= Len(heap)
    BY DEF Nil, Slice, PInv, Heap
  <2>2. \A s : OfSample(heap, Nil, s)
    BY <2>1 DEF OfSample, Fits
  <2>3. smp = NewSample
    BY <1>1 DEF SampleAt
  <2>4. NewSample \in Sample /\ NewSample.head = Nil /\ NewSample.tail = Nil /\ NewSample.n = 0
    BY <2>1 DEF NewSample, Sample, PInv
  <2>5. Kept(0) = 0
    BY PlainAssumption DEF Kept
  <2> QED
    BY <2>1, <2>2, <2>3, <2>4, <2>5 DEF TailExact
<1>2. CASE plainBySSL[ptr] # None
  <2>1. smp = plainBySSL[ptr]
    BY <1>2 DEF SampleAt
  <2> DEFINE p == [head |-> smp.head, tail |-> smp.tail]
  <2>2. smp \in Sample /\ TailExact(heap, smp) /\ Held(heap, plainBySSL, p, smp.s)
    BY <1>2, <2>1 DEF PInv, SampleOK
  <2>3. p.head = smp.head /\ p.tail = smp.tail
    OBVIOUS
  <2> HIDE DEF p
  <2> QED
    BY <1>2, <2>1, <2>2, <2>3 DEF Held, Apart
<1> QED
  BY <1>1, <1>2

(* A byte of a sample.                                                     *)
LEMMA StreamByte ==
  ASSUME NEW s, NEW i \in Int
  PROVE  Stream(s)[i] = <<s, i>> /\ Stream(s)[i][1] = s /\ (s \in Nat /\ i \in Nat => Stream(s)[i] \in Cell)
BY DEF Stream, Cell

(* Two stretches of b, the second one right behind the first.              *)
LEMMA Stitch ==
  ASSUME NEW b, NEW t \in Seq(Cell), NEW q \in Seq(Cell), NEW m \in Nat, Len(t) <= m,
         Copy(t, Len(t), b, m - Len(t)), Copy(q, Len(q), b, m)
  PROVE  Copy(t \o q, Len(t \o q), b, m - Len(t))
<1> DEFINE k == Len(t)
<1>1. k \in Nat /\ Len(q) \in Nat /\ Len(t \o q) = k + Len(q)
  OBVIOUS
<1> SUFFICES ASSUME NEW j \in 1..(k + Len(q)) PROVE (t \o q)[j] = b[m - k + j]
  BY <1>1 DEF Copy
<1>2. CASE j <= k
  BY <1>1, <1>2 DEF Copy
<1>3. CASE ~(j <= k)
  <2>1. j - k \in 1..Len(q) /\ (t \o q)[j] = q[j - k] /\ m + (j - k) = m - k + j
    BY <1>1, <1>3
  <2>2. q[j - k] = b[m + (j - k)]
    BY <2>1 DEF Copy
  <2> QED
    BY <2>1, <2>2
<1> QED
  BY <1>2, <1>3

(* The last `keep' elements of a stretch of b that ends at number e.       *)
LEMMA LastOfStretch ==
  ASSUME NEW b, NEW all, NEW N \in Nat, NEW e \in Nat, NEW keep \in Nat, keep <= N, NEW a,
         Copy(all, N, b, e - N), Copy(a, keep, all, N - keep)
  PROVE  Copy(a, keep, b, e - keep)
<1> SUFFICES ASSUME NEW i \in 1..keep PROVE a[i] = b[e - keep + i]
  BY DEF Copy
<1>1. N - keep + i \in 1..N /\ e - N + (N - keep + i) = e - keep + i
  OBVIOUS
<1>2. all[N - keep + i] = b[e - N + (N - keep + i)] /\ a[i] = all[N - keep + i]
  BY <1>1 DEF Copy
<1> QED
  BY <1>1, <1>2

(* A chunk is of the sample it goes to.                                    *)
LEMMA ChunkOf ==
  ASSUME NEW smp \in Sample, NEW n \in Nat \ {0}
  PROVE  LET q == Chunk(smp, n) IN
         /\ q \in Seq(Cell) /\ q # <<>> /\ Len(q) = n
         /\ \A i \in 1..n : q[i] = Stream(smp.s)[smp.n + i] /\ q[i][1] = smp.s
<1> DEFINE q == Chunk(smp, n)
           x(i) == smp.n + i
<1>1. smp.s \in Nat /\ \A i \in 1..n : x(i) \in Nat /\ x(i) \in Int
  BY DEF Sample
<1>2. q = [i \in 1..n |-> <<smp.s, x(i)>>]
  BY DEF Chunk
<1> HIDE DEF q, x
<1>3. \A i \in 1..n : q[i] = <<smp.s, x(i)>>
  BY <1>2
<1>4. \A i \in 1..n : Stream(smp.s)[x(i)] = <<smp.s, x(i)>> /\ Stream(smp.s)[x(i)][1] = smp.s
                        /\ Stream(smp.s)[x(i)] \in Cell
  BY <1>1, StreamByte
<1>5. q \in [1..n -> Cell]
  BY <1>2, <1>4
<1>6. q \in Seq(Cell) /\ Len(q) = n /\ q # <<>>
  BY <1>5
<1> QED
  BY <1>3, <1>4, <1>6 DEF q, x

(* A fresh clone takes a new array and touches no other.                   *)
LEMMA CloneWrites ==
  ASSUME NEW h \in Heap, NEW q \in Seq(Cell), q # <<>>, NEW r \in clone(h, q),
         NEW s, \A i \in 1..Len(q) : q[i][1] = s
  PROVE  /\ Wrote(h, r.heap, 0, q) /\ OfSample(r.heap, r.slice, s) /\ r.slice.arr > Len(h)
<1>1. Nil \in Slice /\ Nil.arr = 0 /\ Nil.len = 0 /\ 0 <= Len(h) /\ Bytes(h, Nil) = <<>>
  BY DEF Nil, Slice, Heap, Bytes
<1>2. Fits(h, Nil)
  BY <1>1 DEF Fits
<1>3. <<>> \o q = q
  OBVIOUS
<1>4. Wrote(h, r.heap, 0, q) /\ Holds(h, r.heap, Nil, r.slice, q, Len(q))
  <2>1. r \in append(h, Nil, q)
    BY DEF clone
  <2>2. Wrote(h, r.heap, Nil.arr, <<>> \o q) /\ Holds(h, r.heap, Nil, r.slice, <<>> \o q, Len(<<>> \o q))
    BY <1>1, <1>2, <2>1, AppendWrites
  <2> QED
    BY <1>1, <1>3, <2>2
<1>5. \A i \in 1..Len(q) : Len(q) - Len(q) + i = i
  OBVIOUS
<1> QED
  BY <1>1, <1>4, <1>5 DEF Holds, OfSample

(* The tail after one more chunk of n bytes, with a tail of PeekBytes > 0. *)
LEMMA TailAfter ==
  ASSUME NEW h \in Heap, NEW smp \in Sample, TailExact(h, smp), OfSample(h, smp.tail, smp.s),
         NEW n \in Nat \ {0}, PeekBytes # 0,
         NEW t \in appendTail(h, smp.tail, Chunk(smp, n), PeekBytes)
  PROVE  \E all : /\ Wrote(h, t.heap, smp.tail.arr, all) /\ \A j \in 1..Len(all) : all[j][1] = smp.s
                  /\ OfSample(t.heap, t.slice, smp.s) /\ t.slice.arr # 0
                  /\ t.slice.arr = smp.tail.arr \/ t.slice.arr > Len(h)
                  /\ \A head : TailExact(t.heap, [s |-> smp.s, n |-> smp.n + n, head |-> head, tail |-> t.slice])
<1> DEFINE q == Chunk(smp, n)
           old == Bytes(h, smp.tail)
           all == old \o q
           b == Stream(smp.s)
           m == smp.n
           keep == IF Len(all) < PeekBytes THEN Len(all) ELSE PeekBytes
<1>1. /\ q \in Seq(Cell) /\ q # <<>> /\ Len(q) = n
      /\ \A i \in 1..n : q[i] = b[m + i] /\ q[i][1] = smp.s
  BY ChunkOf
<1>2. PeekBytes \in Nat \ {0} /\ Fits(h, smp.tail)
  BY PlainAssumption DEF OfSample
<1>3. /\ all \in Seq(Cell) /\ Wrote(h, t.heap, smp.tail.arr, all)
      /\ Holds(h, t.heap, smp.tail, t.slice, all, keep)
  <2> HIDE DEF q
  <2> QED
    BY <1>1, <1>2, AppendTailWrites DEF q
<1>4. m \in Nat /\ smp.tail.len = Kept(m) /\ Kept(m) \in Nat /\ Kept(m) <= m
  BY <1>2 DEF TailExact, Kept, Sample
<1>5. /\ old \in Seq(Cell) /\ Len(old) = Kept(m)
      /\ smp.tail.arr # 0 => \A i \in 1..Kept(m) : old[i] = h[smp.tail.arr][i]
  BY <1>2, <1>4, BytesOf
<1>6. smp.tail.arr # 0 => \A i \in 1..Kept(m) : h[smp.tail.arr][i] = b[m - Kept(m) + i]
  BY DEF TailExact, Copy
<1>7. smp.tail.arr = 0 => Kept(m) = 0
  BY <1>2, <1>4 DEF Fits
<1>8. \A i \in 1..Len(old) : old[i] = b[m - Len(old) + i] /\ old[i][1] = smp.s
  <2>1. CASE smp.tail.arr = 0
    <3>1. Len(old) = 0
      BY <1>5, <1>7, <2>1
    <3> QED
      BY <3>1
  <2>2. CASE smp.tail.arr # 0
    <3>1. \A i \in 1..Kept(m) : h[smp.tail.arr][i][1] = smp.s
      BY <1>4, <2>2 DEF OfSample
    <3> HIDE DEF old, b, m
    <3> QED
      BY <1>5, <1>6, <2>2, <3>1
  <2> QED
    BY <2>1, <2>2
<1>9. Len(old) \in Nat /\ Len(all) = Len(old) + n
  <2> HIDE DEF q, old
  <2> QED
    BY <1>1, <1>5
<1> HIDE DEF q, old, b, m
<1>10. Copy(all, Len(all), b, (m + n) - Len(all))
  <2>1. Len(old) <= m /\ m \in Nat /\ old \in Seq(Cell) /\ q \in Seq(Cell)
    BY <1>1, <1>4, <1>5
  <2>2. Copy(old, Len(old), b, m - Len(old)) /\ Copy(q, Len(q), b, m)
    BY <1>1, <1>8 DEF Copy
  <2>3. Copy(all, Len(all), b, m - Len(old))
    BY <2>1, <2>2, Stitch
  <2>4. (m + n) - Len(all) = m - Len(old)
    BY <1>4, <1>9
  <2> QED
    BY <2>3, <2>4
<1>11. \A j \in 1..Len(all) : all[j][1] = smp.s
  BY <1>1, <1>5, <1>8
<1>12. keep \in Nat /\ keep <= Len(all) /\ Len(all) \in Nat /\ m + n \in Nat /\ keep = Kept(m + n)
  BY <1>2, <1>4, <1>5, <1>9 DEF Kept
<1> HIDE DEF all, keep
<1> DEFINE a == t.heap[t.slice.arr]
<1>13. /\ Fits(t.heap, t.slice) /\ t.slice.arr # 0 /\ t.slice.len = keep
       /\ t.slice.arr = smp.tail.arr \/ t.slice.arr > Len(h)
       /\ \A i \in 1..keep : a[i] = all[Len(all) - keep + i]
  BY <1>3 DEF Holds
<1> HIDE DEF a
<1>14. Copy(a, keep, b, (m + n) - keep)
  <2> DEFINE e == m + n
             N == Len(all)
  <2>1. keep \in Nat /\ keep <= N /\ N \in Nat /\ e \in Nat
    BY <1>12
  <2>2. Copy(all, N, b, e - N) /\ Copy(a, keep, all, N - keep)
    BY <1>10, <1>13 DEF Copy
  <2> HIDE DEF e, N
  <2>3. Copy(a, keep, b, e - keep)
    BY <2>1, <2>2, LastOfStretch
  <2> QED
    BY <2>3 DEF e
<1>15. \A i \in 1..keep : a[i][1] = smp.s
  <2>1. \A i \in 1..keep : Len(all) - keep + i \in 1..Len(all)
    BY <1>12
  <2> QED
    BY <1>11, <1>13, <2>1
<1>16. OfSample(t.heap, t.slice, smp.s)
  BY <1>13, <1>15 DEF OfSample, a
<1>17. ASSUME NEW head
       PROVE  TailExact(t.heap, [s |-> smp.s, n |-> smp.n + n, head |-> head, tail |-> t.slice])
  <2> DEFINE new == [s |-> smp.s, n |-> smp.n + n, head |-> head, tail |-> t.slice]
  <2>1. new.s = smp.s /\ new.n = m + n /\ new.tail = t.slice
    BY DEF m
  <2> HIDE DEF new
  <2>2. Copy(t.heap[new.tail.arr], Kept(new.n), Stream(new.s), new.n - Kept(new.n))
    BY <1>12, <1>14, <2>1 DEF a, b
  <2>3. TailExact(t.heap, new)
    BY <1>12, <1>13, <2>1, <2>2 DEF TailExact
  <2> QED
    BY <2>3 DEF new
<1> QED
  BY <1>3, <1>11, <1>13, <1>16, <1>17

(* ApplyData, from the first chunk that is cloned for the head to the tail *)
(* that is shifted in place.                                               *)
LEMMA DataWrites ==
  ASSUME PInv, NEW ptr \in Ptrs, NEW n \in DataSizes, ApplyData(ptr, n)
  PROVE  \E new : /\ plainBySSL' = [plainBySSL EXCEPT ![ptr] = new]
                  /\ DataEffect(heap, heap', SampleAt(ptr), n, new)
<1> DEFINE smp == SampleAt(ptr)
           q == Chunk(smp, n)
           heads == IF smp.head = Nil THEN clone(heap, q) ELSE {[heap |-> heap, slice |-> smp.head]}
<1>1. PICK hd \in heads :
        \E t \in appendTail(hd.heap, smp.tail, q, PeekBytes) :
          heap' = t.heap /\ Stash(ptr, smp, n, hd.slice, t.slice)
  BY DEF ApplyData, SampleAt
<1>2. PICK t \in appendTail(hd.heap, smp.tail, q, PeekBytes) :
        heap' = t.heap /\ Stash(ptr, smp, n, hd.slice, t.slice)
  BY <1>1
<1> DEFINE h1 == hd.heap
           new == [s |-> smp.s, n |-> smp.n + n, head |-> hd.slice, tail |-> t.slice]
<1>3. plainBySSL' = [plainBySSL EXCEPT ![ptr] = new]
  BY <1>2 DEF Stash
<1>4. /\ smp \in Sample /\ TailExact(heap, smp) /\ heap \in Heap
      /\ OfSample(heap, smp.head, smp.s) /\ OfSample(heap, smp.tail, smp.s)
      /\ smp.tail.arr # 0 => smp.tail.arr # smp.head.arr
  BY SampleBefore DEF PInv
<1>5. /\ n \in Nat \ {0} /\ smp.s \in Nat /\ smp.n \in Nat /\ smp.tail \in Slice /\ smp.tail.arr \in Nat
      /\ smp.tail.arr <= Len(heap) /\ Len(heap) \in Nat
  BY <1>4, PlainAssumption DEF Sample, Slice, OfSample, Fits, Heap
<1> HIDE DEF smp
<1>6. q \in Seq(Cell) /\ q # <<>> /\ Len(q) = n /\ \A i \in 1..Len(q) : q[i][1] = smp.s
  BY <1>4, <1>5, ChunkOf
<1> HIDE DEF q
(* The head: a write to no array that exists.                              *)
<1>7. /\ Wrote(heap, h1, 0, <<>>) /\ OfSample(h1, hd.slice, smp.s)
      /\ hd.slice = smp.head \/ hd.slice.arr > Len(heap)
  <2>1. CASE smp.head = Nil
    <3>1. hd \in clone(heap, q)
      BY <1>1, <2>1
    <3>2. Wrote(heap, h1, 0, q) /\ OfSample(h1, hd.slice, smp.s) /\ hd.slice.arr > Len(heap)
      BY <1>4, <1>6, <3>1, CloneWrites
    <3>3. 0 \notin 1..Len(heap)
      BY <1>5
    <3> QED
      BY <3>2, <3>3 DEF Wrote
  <2>2. CASE smp.head # Nil
    <3>1. h1 = heap /\ hd.slice = smp.head
      BY <1>1, <2>2
    <3>2. Len(heap) <= Len(heap) /\ 0 \notin 1..Len(heap)
      BY <1>5
    <3> QED
      BY <1>4, <3>1, <3>2 DEF Wrote
  <2> QED
    BY <2>1, <2>2
<1>8. h1 \in Heap /\ Len(heap) <= Len(h1) /\ Len(h1) \in Nat
  BY <1>7 DEF Wrote, Heap
<1>9. ASSUME NEW p, Fits(heap, p)
      PROVE  /\ Fits(h1, p) /\ Bytes(h1, p) = Bytes(heap, p)
             /\ \A s : OfSample(heap, p, s) => OfSample(h1, p, s)
  <2>1. 0 \in Nat /\ (p.arr = 0 \/ p.arr # 0) /\ ~(p.arr # 0 /\ p.arr = 0)
    OBVIOUS
  <2> QED
    BY <1>4, <1>7, <1>9, <2>1, KeepSlice
<1>10. OfSample(h1, smp.tail, smp.s) /\ TailExact(h1, smp)
  <2>1. OfSample(h1, smp.tail, smp.s)
    BY <1>4, <1>9 DEF OfSample
  <2>2. smp.tail.arr # 0 => h1[smp.tail.arr] = heap[smp.tail.arr]
    BY <1>5, <1>7 DEF Wrote
  <2> QED
    BY <1>4, <2>1, <2>2 DEF TailExact
<1>11. hd.slice \in Slice /\ Fits(h1, hd.slice) /\ hd.slice.arr <= Len(h1) /\ hd.slice.arr \in Nat
  BY <1>7 DEF OfSample, Fits, Slice
(* The tail.                                                               *)
<1>12. CASE PeekBytes = 0
  <2>1. t.heap = h1 /\ t.slice = Nil
    BY <1>2, <1>12 DEF appendTail
  <2>2. Nil \in Slice /\ Nil.arr = 0 /\ Nil.len = 0 /\ Fits(h1, Nil)
    BY <1>8 DEF Nil, Slice, Fits
  <2>3. OfSample(h1, Nil, smp.s)
    BY <2>2 DEF OfSample
  <2>4. Kept(smp.n + n) = 0
    BY <1>5, <1>12 DEF Kept
  <2>5. new.s = smp.s /\ new.n = smp.n + n /\ new.head = hd.slice /\ new.tail = Nil
    BY <2>1
  <2>6. new \in Sample
    BY <1>5, <1>11, <2>1, <2>2 DEF Sample
  <2> HIDE DEF new
  <2>7. TailExact(h1, new)
    BY <2>2, <2>4, <2>5 DEF TailExact
  <2>8. DataEffect(heap, h1, smp, n, new)
    BY <1>7, <1>8, <1>9, <2>2, <2>3, <2>5, <2>6, <2>7 DEF DataEffect
  <2> QED
    BY <1>2, <1>3, <2>1, <2>8 DEF smp
<1>13. CASE PeekBytes # 0
  <2>1. PICK all : /\ Wrote(h1, t.heap, smp.tail.arr, all) /\ \A j \in 1..Len(all) : all[j][1] = smp.s
                   /\ OfSample(t.heap, t.slice, smp.s) /\ t.slice.arr # 0
                   /\ t.slice.arr = smp.tail.arr \/ t.slice.arr > Len(h1)
                   /\ \A head : TailExact(t.heap, [s |-> smp.s, n |-> smp.n + n, head |-> head,
                                                   tail |-> t.slice])
    BY <1>2, <1>4, <1>5, <1>8, <1>10, <1>13, TailAfter DEF q
  <2>2. t.slice \in Slice /\ t.slice.arr \in Nat /\ t.heap \in Heap /\ Len(h1) <= Len(t.heap)
    BY <2>1 DEF OfSample, Fits, Slice, Wrote
  <2>3. new.s = smp.s /\ new.n = smp.n + n /\ new.head = hd.slice /\ new.tail = t.slice
    OBVIOUS
  <2>4. new \in Sample /\ TailExact(t.heap, new)
    BY <1>5, <1>11, <2>1, <2>2 DEF Sample
  <2> HIDE DEF new
  <2>5. hd.slice.arr # smp.tail.arr \/ hd.slice.arr = 0
    BY <1>4, <1>5, <1>7, <1>11
  <2>6. ~(hd.slice.arr # 0 /\ hd.slice.arr = smp.tail.arr)
    BY <2>5
  <2>7. OfSample(t.heap, hd.slice, smp.s)
    BY <1>5, <1>7, <1>8, <1>11, <2>1, <2>6, KeepSlice
  <2>8. t.slice.arr # hd.slice.arr
    BY <1>11, <1>8, <2>1, <2>2, <2>5
  <2>9. t.slice.arr = smp.tail.arr \/ t.slice.arr > Len(heap)
    BY <1>5, <1>8, <2>1, <2>2
  <2>10. Len(heap) <= Len(t.heap)
    BY <1>5, <1>8, <2>2 DEF Heap
  <2>11. ASSUME NEW p, Fits(heap, p)
         PROVE  /\ p.arr = 0 \/ p.arr # smp.tail.arr => Bytes(t.heap, p) = Bytes(heap, p)
                /\ \A s : OfSample(heap, p, s) /\ (p.arr # 0 /\ p.arr = smp.tail.arr => s = smp.s)
                            => OfSample(t.heap, p, s)
    <3>1. Fits(h1, p) /\ Bytes(h1, p) = Bytes(heap, p)
      BY <1>9, <2>11
    <3>2. p.arr = 0 \/ p.arr # smp.tail.arr => Bytes(t.heap, p) = Bytes(heap, p)
      <4>1. Wrote(h1, t.heap, smp.tail.arr, all)
        BY <2>1
      <4>2. p.arr = 0 \/ p.arr # smp.tail.arr => Bytes(t.heap, p) = Bytes(h1, p)
        <5>1. p.arr # 0 => p.arr \in 1..Len(h1)
          BY <1>8, <3>1 DEF Fits, Slice
        <5> QED
          BY <4>1, <5>1 DEF Wrote, Bytes
      <4> QED
        BY <3>1, <4>2
    <3>3. ASSUME NEW s, OfSample(heap, p, s), p.arr # 0 /\ p.arr = smp.tail.arr => s = smp.s
          PROVE  OfSample(t.heap, p, s)
      <4>1. OfSample(h1, p, s)
        BY <1>9, <2>11, <3>3
      <4>2. p.arr # 0 /\ p.arr = smp.tail.arr => \A j \in 1..Len(all) : all[j][1] = s
        BY <2>1, <3>3
      <4> QED
        BY <1>5, <1>8, <2>1, <3>1, <4>1, <4>2, KeepSlice
    <3> QED
      BY <3>2, <3>3
  <2>12. DataEffect(heap, t.heap, smp, n, new)
    BY <1>7, <2>1, <2>2, <2>3, <2>4, <2>7, <2>8, <2>9, <2>10, <2>11 DEF DataEffect
  <2> QED
    BY <1>2, <1>3, <2>12 DEF smp
<1> QED
  BY <1>12, <1>13
-----------------------------------------------------------------------------
(* ApplyData keeps the invariant: it writes to the one array that its      *)
(* sample rolls.                                                           *)
LEMMA DataInv ==
  ASSUME PInv, NEW ptr \in Ptrs, NEW n \in DataSizes, ApplyData(ptr, n)
  PROVE  PInv'
<1> DEFINE smp == SampleAt(ptr)
<1>1. PICK new : plainBySSL' = [plainBySSL EXCEPT ![ptr] = new] /\ DataEffect(heap, heap', smp, n, new)
  BY DataWrites
<1>2. /\ UNCHANGED <<conns, shot>> /\ made' = IF smp.s > made THEN smp.s ELSE made
  BY DEF ApplyData, Stash, SampleAt
<1>3. /\ smp \in Sample /\ smp.s \in Nat /\ OfSample(heap, smp.head, smp.s)
      /\ OfSample(heap, smp.tail, smp.s)
      /\ smp.tail.arr # 0 => smp.tail.arr # smp.head.arr
  BY SampleBefore DEF Sample
<1>4. /\ plainBySSL[ptr] = None => smp.s = made + 1 /\ smp.tail.arr = 0 /\ smp.head.arr = 0
      /\ plainBySSL[ptr] # None => smp = plainBySSL[ptr]
  BY DEF SampleAt, NewSample, Nil
<1> HIDE DEF smp
<1>5. /\ plainBySSL \in [Ptrs -> Sample \cup {None}] /\ made \in Nat /\ heap \in Heap /\ Len(heap) \in Nat
      /\ \A x \in Ptrs : plainBySSL[x] # None => plainBySSL[x].s <= made /\ plainBySSL[x].s \in Nat
  BY DEF PInv, Heap, Sample
<1>6. /\ heap' \in Heap /\ new \in Sample /\ new.s = smp.s /\ TailExact(heap', new)
      /\ OfSample(heap', new.head, smp.s) /\ OfSample(heap', new.tail, smp.s)
  BY <1>1 DEF DataEffect
<1>7. /\ plainBySSL' \in [Ptrs -> Sample \cup {None}] /\ plainBySSL'[ptr] = new
      /\ \A x \in Ptrs : x # ptr => plainBySSL'[x] = plainBySSL[x]
  BY <1>1, <1>5, <1>6
<1>8. made' \in Nat /\ made <= made' /\ smp.s <= made'
  BY <1>2, <1>3, <1>5
(* What was held stays held.                                               *)
<1>9. ASSUME NEW p, NEW s, Held(heap, plainBySSL, p, s)
      PROVE  Held(heap', plainBySSL', p, s)
  <2>1. /\ p \in Pair /\ OfSample(heap, p.head, s) /\ OfSample(heap, p.tail, s)
        /\ Fits(heap, p.head) /\ Fits(heap, p.tail)
        /\ p.head.arr \in Nat /\ p.tail.arr \in Nat /\ p.head.arr <= Len(heap) /\ p.tail.arr <= Len(heap)
    BY <1>9 DEF Held, OfSample, Fits, Slice, Pair
  <2>2. /\ p.head.arr # 0 => p.head.arr # smp.tail.arr
        /\ p.tail.arr # 0 /\ p.tail.arr = smp.tail.arr => s = smp.s
    BY <1>4, <1>9 DEF Held, Apart
  <2>3. OfSample(heap', p.head, s)
    BY <1>1, <2>1, <2>2 DEF DataEffect
  <2>4. OfSample(heap', p.tail, s)
    BY <1>1, <2>1, <2>2 DEF DataEffect
  <2>5. ASSUME new.tail.arr # 0
        PROVE  new.tail.arr # p.head.arr /\ (new.tail.arr = p.tail.arr => new.s = s)
    <3>1. new.tail.arr = smp.tail.arr \/ new.tail.arr > Len(heap)
      BY <1>1, <2>5 DEF DataEffect
    <3>2. new.tail.arr \in Nat
      BY <1>6 DEF Sample, Slice
    <3> QED
      BY <1>5, <1>6, <2>1, <2>2, <2>5, <3>1, <3>2
  <2>6. Apart(plainBySSL', p, s)
    BY <1>7, <1>9, <2>5 DEF Held, Apart
  <2> QED
    BY <2>1, <2>3, <2>4, <2>6 DEF Held
(* The new sample holds its own.                                           *)
<1>10. SampleOK(heap', plainBySSL', ptr)
  <2> DEFINE p == [head |-> new.head, tail |-> new.tail]
  <2>1. p \in Pair /\ p.head = new.head /\ p.tail = new.tail
    BY <1>6 DEF Pair, Sample
  <2> HIDE DEF p
  <2>2. ASSUME NEW x \in Ptrs, x # ptr, plainBySSL[x] # None, plainBySSL[x].tail.arr # 0
        PROVE  plainBySSL[x].tail.arr # new.head.arr /\ plainBySSL[x].tail.arr # new.tail.arr
    <3> DEFINE a == plainBySSL[x].tail.arr
               mine == [head |-> smp.head, tail |-> smp.tail]
    <3>1. a \in Nat /\ a <= Len(heap)
      <4>1. OfSample(heap, plainBySSL[x].tail, plainBySSL[x].s)
        BY <2>2 DEF PInv, SampleOK, Held
      <4> QED
        BY <4>1 DEF OfSample, Fits, Slice
    <3>2. a # smp.head.arr /\ (a = smp.tail.arr => FALSE)
      <4>1. CASE plainBySSL[ptr] = None
        BY <1>4, <2>2, <4>1
      <4>2. CASE plainBySSL[ptr] # None
        <5>1. Held(heap, plainBySSL, mine, smp.s)
          BY <1>4, <4>2 DEF PInv, SampleOK
        <5>2. mine.head = smp.head /\ mine.tail = smp.tail
          OBVIOUS
        <5> HIDE DEF mine
        <5>3. a # smp.head.arr /\ (a = smp.tail.arr => plainBySSL[x].s = smp.s)
          BY <2>2, <5>1, <5>2 DEF Held, Apart
        <5>4. plainBySSL[x].s # smp.s
          BY <1>4, <2>2, <4>2 DEF PInv
        <5> QED
          BY <5>3, <5>4
      <4> QED
        BY <4>1, <4>2
    <3>3. /\ new.head = smp.head \/ new.head.arr > Len(heap)
          /\ new.tail.arr = 0 \/ new.tail.arr = smp.tail.arr \/ new.tail.arr > Len(heap)
      BY <1>1 DEF DataEffect
    <3>4. new.head.arr \in Nat /\ new.tail.arr \in Nat
      BY <1>6 DEF Sample, Slice
    <3> QED
      BY <1>5, <2>2, <3>1, <3>2, <3>3, <3>4
  <2>3. new.tail.arr # 0 => new.tail.arr # new.head.arr
    BY <1>1 DEF DataEffect
  <2>4. Apart(plainBySSL', p, new.s)
    BY <1>7, <2>1, <2>2, <2>3 DEF Apart
  <2>5. Held(heap', plainBySSL', p, new.s)
    BY <1>6, <2>1, <2>4 DEF Held
  <2> QED
    BY <1>6, <1>7, <2>5 DEF SampleOK, p
<1>11. ASSUME NEW x \in Ptrs, plainBySSL'[x] # None
       PROVE  plainBySSL'[x].s <= made' /\ SampleOK(heap', plainBySSL', x)
  <2>1. CASE x = ptr
    BY <1>6, <1>7, <1>8, <1>10, <2>1
  <2>2. CASE x # ptr
    <3> DEFINE v == plainBySSL[x]
               p == [head |-> v.head, tail |-> v.tail]
    <3>1. v # None /\ plainBySSL'[x] = v /\ v.s <= made'
      BY <1>5, <1>7, <1>8, <1>11, <2>2
    <3>2. TailExact(heap, v) /\ Held(heap, plainBySSL, p, v.s) /\ p.tail = v.tail
      BY <3>1 DEF PInv, SampleOK
    <3>3. Held(heap', plainBySSL', p, v.s)
      BY <1>9, <3>2
    <3>4. TailExact(heap', v)
      <4>1. Fits(heap, v.tail) /\ v.tail \in Slice
        BY <3>2 DEF Held, OfSample, Fits
      <4>2. v.tail.arr # 0 => v.tail.arr # smp.tail.arr
        <5>1. CASE plainBySSL[ptr] = None
          BY <1>4, <5>1
        <5>2. CASE plainBySSL[ptr] # None
          <6> SUFFICES ASSUME v.tail.arr # 0, v.tail.arr = smp.tail.arr PROVE FALSE
            OBVIOUS
          <6>1. smp.s = v.s
            BY <1>4, <3>2, <5>2 DEF Held, Apart
          <6> QED
            BY <1>4, <2>2, <3>1, <5>2, <6>1 DEF PInv
        <5> QED
          BY <5>1, <5>2
      <4>3. Bytes(heap', v.tail) = Bytes(heap, v.tail)
        BY <1>1, <4>1, <4>2 DEF DataEffect
      <4>4. Fits(heap', v.tail)
        BY <3>2, <3>3 DEF Held, OfSample
      <4>5. v.tail.arr # 0 => \A i \in 1..v.tail.len : heap'[v.tail.arr][i] = heap[v.tail.arr][i]
        BY <1>5, <1>6, <4>1, <4>3, <4>4, BytesOf
      <4>6. v.tail.len = Kept(v.n)
        BY <3>2 DEF TailExact
      <4> HIDE DEF v
      <4> QED
        BY <3>2, <4>5, <4>6 DEF TailExact, Copy
    <3> QED
      BY <3>1, <3>3, <3>4 DEF SampleOK
  <2> QED
    BY <2>1, <2>2
<1>12. \A x, y \in Ptrs : plainBySSL'[x] # None /\ plainBySSL'[y] # None
                            /\ plainBySSL'[x].s = plainBySSL'[y].s => x = y
  <2>1. ASSUME NEW x \in Ptrs, x # ptr, plainBySSL[x] # None PROVE plainBySSL[x].s # smp.s
    <3>1. CASE plainBySSL[ptr] = None
      BY <1>4, <1>5, <2>1, <3>1
    <3>2. CASE plainBySSL[ptr] # None
      BY <1>4, <2>1, <3>2 DEF PInv
    <3> QED
      BY <3>1, <3>2
  <2>2. \A x, y \in Ptrs : plainBySSL[x] # None /\ plainBySSL[y] # None
                            /\ plainBySSL[x].s = plainBySSL[y].s => x = y
    BY DEF PInv
  <2> QED
    BY <1>6, <1>7, <2>1, <2>2
<1>13. \A c \in Conns : HeldBySome(heap', plainBySSL', conns'[c]) /\ HeldBySome(heap', plainBySSL', shot'[c])
  BY <1>2, <1>9 DEF PInv, HeldBySome
<1> QED
  BY <1>2, <1>6, <1>7, <1>8, <1>11, <1>12, <1>13 DEF PInv

(* Samples that are dropped write no more: what was held stays held.       *)
LEMMA FewerSamples ==
  ASSUME NEW h, NEW old, NEW plain, NEW p, NEW s, Held(h, old, p, s),
         \A x \in Ptrs : plain[x] = old[x] \/ plain[x] = None
  PROVE  Held(h, plain, p, s)
BY DEF Held, Apart

(* The slices of a sample are handed to a connection.                      *)
LEMMA SlicesHeld ==
  ASSUME PInv, NEW ptr \in Ptrs, plainBySSL[ptr] # None
  PROVE  HeldBySome(heap, plainBySSL, Slices(ptr))
<1>1. Held(heap, plainBySSL, Slices(ptr), plainBySSL[ptr].s) /\ plainBySSL[ptr].s \in Nat
  BY DEF PInv, SampleOK, Slices, Sample
<1> QED
  BY <1>1 DEF HeldBySome

(* The joins, ApplyClose and Snapshot only copy slices and drop samples.   *)
LEMMA CopyInv ==
  ASSUME PInv, UNCHANGED <<heap, made>>,
         \A x \in Ptrs : plainBySSL'[x] = plainBySSL[x] \/ plainBySSL'[x] = None,
         plainBySSL' \in [Ptrs -> Sample \cup {None}],
         conns' \in [Conns -> Pair], shot' \in [Conns -> Pair],
         \A c \in Conns : /\ HeldBySome(heap, plainBySSL, conns'[c])
                          /\ HeldBySome(heap, plainBySSL, shot'[c])
  PROVE  PInv'
<1>1. ASSUME NEW p, NEW s, Held(heap, plainBySSL, p, s) PROVE Held(heap, plainBySSL', p, s)
  BY <1>1, FewerSamples
<1>2. \A c \in Conns : /\ HeldBySome(heap, plainBySSL', conns'[c])
                       /\ HeldBySome(heap, plainBySSL', shot'[c])
  BY <1>1 DEF HeldBySome
<1>3. ASSUME NEW x \in Ptrs, plainBySSL'[x] # None
      PROVE  plainBySSL'[x].s <= made /\ SampleOK(heap, plainBySSL', x)
  <2>1. plainBySSL'[x] = plainBySSL[x] /\ plainBySSL[x] # None
    BY <1>3
  <2> QED
    BY <1>1, <2>1 DEF PInv, SampleOK
<1>4. \A x, y \in Ptrs : plainBySSL'[x] # None /\ plainBySSL'[y] # None
                           /\ plainBySSL'[x].s = plainBySSL'[y].s => x = y
  BY DEF PInv
<1> QED
  BY <1>2, <1>3, <1>4 DEF PInv

(* UpdateSSLStats, ...                                                     *)
LEMMA JoinsInv ==
  ASSUME PInv, NEW live \in SUBSET Ptrs, NEW to, UpdateSSLStats(live, to)
  PROVE  PInv'
<1> DEFINE joins(c) == {ptr \in live : to[ptr] = c /\ plainBySSL[ptr] # None}
<1>1. PICK last \in [Conns -> Ptrs] :
        /\ \A c \in Conns : joins(c) # {} => last[c] \in joins(c)
        /\ conns' = [c \in Conns |-> IF joins(c) = {} THEN conns[c] ELSE Slices(last[c])]
  BY DEF UpdateSSLStats
<1>2. /\ plainBySSL' = [ptr \in Ptrs |-> IF ptr \in live THEN plainBySSL[ptr] ELSE None]
      /\ UNCHANGED <<heap, shot, made>>
  BY DEF UpdateSSLStats
<1>3. \A c \in Conns : conns'[c] = conns[c] \/ (plainBySSL[last[c]] # None /\ conns'[c] = Slices(last[c]))
  BY <1>1
<1>4. \A c \in Conns : HeldBySome(heap, plainBySSL, conns'[c])
  BY <1>1, <1>3, SlicesHeld DEF PInv
<1>5. plainBySSL' \in [Ptrs -> Sample \cup {None}] /\ conns' \in [Conns -> Pair]
  BY <1>1, <1>2, <1>4 DEF PInv, HeldBySome, Held
<1> QED
  BY <1>2, <1>4, <1>5, CopyInv DEF PInv

(* ... and ApplyClose.                                                     *)
LEMMA CloseInv ==
  ASSUME PInv, NEW ptr \in Ptrs, NEW c \in Conns \cup {None}, ApplyClose(ptr, c)
  PROVE  PInv'
<1>1. /\ conns' = Copied(ptr, c) /\ plainBySSL' = [plainBySSL EXCEPT ![ptr] = None]
      /\ UNCHANGED <<heap, shot, made>>
  BY DEF ApplyClose
<1>2. plainBySSL' \in [Ptrs -> Sample \cup {None}]
      /\ \A x \in Ptrs : plainBySSL'[x] = plainBySSL[x] \/ plainBySSL'[x] = None
  BY <1>1 DEF PInv
<1>3. \A d \in Conns : conns'[d] = conns[d] \/ (plainBySSL[ptr] # None /\ conns'[d] = Slices(ptr))
  BY <1>1 DEF Copied, PInv
<1>4. \A d \in Conns : HeldBySome(heap, plainBySSL, conns'[d])
  BY <1>3, SlicesHeld DEF PInv
<1>5. conns' \in [Conns -> Pair]
  <2>1. Slices(ptr) \in Pair \/ plainBySSL[ptr] = None
    BY SlicesHeld DEF HeldBySome, Held
  <2> QED
    BY <1>1, <2>1 DEF Copied, PInv
<1> QED
  BY <1>1, <1>2, <1>4, <1>5, CopyInv DEF PInv

(* The invariant holds at the start ...                                    *)
LEMMA PInit == Init => PInv
<1> SUFFICES ASSUME Init PROVE PInv
  OBVIOUS
<1>1. /\ heap = <<>> /\ made = 0 /\ \A x \in Ptrs : plainBySSL[x] = None
      /\ \A c \in Conns : conns[c] = NoPlain /\ shot[c] = NoPlain
  BY DEF Init
<1>2. Nil \in Slice /\ Nil.arr = 0 /\ Nil.len = 0
  BY DEF Nil, Slice
<1>3. NoPlain \in Pair /\ NoPlain.head = Nil /\ NoPlain.tail = Nil
  BY <1>2 DEF NoPlain, Pair
<1>4. OfSample(heap, Nil, 0)
  BY <1>1, <1>2 DEF OfSample, Fits
<1>5. HeldBySome(heap, plainBySSL, NoPlain)
  <2>1. Held(heap, plainBySSL, NoPlain, 0)
    BY <1>1, <1>3, <1>4 DEF Held, Apart
  <2> QED
    BY <2>1 DEF HeldBySome
<1>6. plainBySSL \in [Ptrs -> Sample \cup {None}] /\ heap \in Heap
  BY <1>1 DEF Init, Heap
<1>7. conns \in [Conns -> Pair] /\ shot \in [Conns -> Pair]
  BY <1>3 DEF Init
<1> QED
  BY <1>1, <1>5, <1>6, <1>7 DEF PInv

(* ... and after every step.                                               *)
LEMMA PNextInv == PInv /\ [Next]_vars => PInv'
<1> SUFFICES ASSUME PInv, [Next]_vars PROVE PInv'
  OBVIOUS
<1>1. CASE Snapshot
  BY <1>1, CopyInv DEF Snapshot, PInv
<1>2. CASE UNCHANGED vars
  BY <1>2, CopyInv DEF vars, PInv
<1> QED
  BY <1>1, <1>2, DataInv, CloseInv, JoinsInv DEF Next

(* The tail of a sample is the last PeekBytes bytes put into it, through   *)
(* every append in place, move to a new array and shift.                   *)
THEOREM TailRolls == Spec => []TailIsSuffix
<1>1. PInv => TailIsSuffix
  <2> SUFFICES ASSUME PInv, NEW ptr \in Ptrs, plainBySSL[ptr] # None
               PROVE  LET smp == plainBySSL[ptr]
                          len == IF smp.n < PeekBytes THEN smp.n ELSE PeekBytes IN
                      Bytes(heap, smp.tail) = [i \in 1..len |-> <<smp.s, smp.n - len + i>>]
    BY DEF TailIsSuffix
  <2> DEFINE smp == plainBySSL[ptr]
             len == Kept(smp.n)
             q == Bytes(heap, smp.tail)
             x(i) == smp.n - len + i
  <2>1. /\ smp \in Sample /\ heap \in Heap /\ TailExact(heap, smp)
        /\ OfSample(heap, smp.tail, smp.s)
    BY DEF PInv, SampleOK, Held
  <2>2. smp.tail.len = len /\ len \in Nat /\ smp.n \in Nat /\ Fits(heap, smp.tail)
    BY <2>1, PlainAssumption DEF TailExact, Kept, Sample, OfSample
  <2>3. /\ q \in Seq(Cell) /\ Len(q) = len
        /\ smp.tail.arr # 0 => \A i \in 1..len : q[i] = heap[smp.tail.arr][i]
    BY <2>1, <2>2, BytesOf
  <2>4. smp.tail.arr = 0 => len = 0
    BY <2>2 DEF Fits
  <2>5. smp.tail.arr # 0 => \A i \in 1..len : heap[smp.tail.arr][i] = Stream(smp.s)[x(i)]
    BY <2>1 DEF TailExact, Copy
  <2>6. \A i \in 1..len : x(i) \in Int
    BY <2>2
  <2> HIDE DEF smp, len, q, x
  <2>7. \A i \in 1..len : q[i] = <<smp.s, x(i)>>
    <3>1. CASE smp.tail.arr = 0
      BY <2>4, <3>1
    <3>2. CASE smp.tail.arr # 0
      BY <2>3, <2>5, <2>6, <3>2, StreamByte
    <3> QED
      BY <3>1, <3>2
  <2>8. q = [i \in 1..len |-> <<smp.s, x(i)>>]
    <3> DEFINE b(i) == <<smp.s, x(i)>>
    <3>1. \A i \in 1..len : q[i] = b(i)
      BY <2>7
    <3> HIDE DEF b
    <3>2. DOMAIN q = 1..len /\ q = [i \in DOMAIN q |-> q[i]]
      BY <2>3
    <3>3. q = [i \in 1..len |-> b(i)]
      BY <3>1, <3>2
    <3> QED
      BY <3>3 DEF b
  <2> QED
    BY <2>8 DEF smp, len, q, x, Kept
<1> QED
  BY <1>1, PInit, PNextInv, PTL DEF Spec

(* The head and the tail the interface shows for a connection are of one   *)
(* sample at any moment, whatever is written to their arrays meanwhile.    *)
THEOREM OneSampleShown == Spec => []ShownOneSample
<1>1. PInv => ShownOneSample
  <2> SUFFICES ASSUME PInv, NEW c \in Conns
               PROVE  LET all == Bytes(heap, shot[c].head) \o Bytes(heap, shot[c].tail) IN
                      \A i \in DOMAIN all : all[i][1] = all[1][1]
    BY DEF ShownOneSample
  <2> DEFINE q == Bytes(heap, shot[c].head)
             t == Bytes(heap, shot[c].tail)
             all == q \o t
  <2>1. PICK s \in Nat : OfSample(heap, shot[c].head, s) /\ OfSample(heap, shot[c].tail, s)
    BY DEF PInv, HeldBySome, Held
  <2>2. ASSUME NEW sl, OfSample(heap, sl, s)
        PROVE  Bytes(heap, sl) \in Seq(Cell) /\ \A i \in 1..Len(Bytes(heap, sl)) : Bytes(heap, sl)[i][1] = s
    <3>1. heap \in Heap /\ Fits(heap, sl)
      BY <2>2 DEF PInv, OfSample
    <3>2. /\ Bytes(heap, sl) \in Seq(Cell) /\ Len(Bytes(heap, sl)) = sl.len
          /\ sl.arr # 0 => \A i \in 1..sl.len : Bytes(heap, sl)[i] = heap[sl.arr][i]
      BY <3>1, BytesOf
    <3>3. sl.arr = 0 => sl.len = 0
      BY <3>1 DEF Fits
    <3> QED
      BY <2>2, <3>2, <3>3 DEF OfSample
  <2>3. /\ q \in Seq(Cell) /\ \A i \in 1..Len(q) : q[i][1] = s
        /\ t \in Seq(Cell) /\ \A i \in 1..Len(t) : t[i][1] = s
    BY <2>1, <2>2
  <2> HIDE DEF q, t
  <2>4. /\ DOMAIN all = 1..(Len(q) + Len(t)) /\ Len(q) \in Nat /\ Len(t) \in Nat
        /\ \A i \in 1..(Len(q) + Len(t)) : all[i] = IF i <= Len(q) THEN q[i] ELSE t[i - Len(q)]
    BY <2>3
  <2> HIDE DEF all
  <2>5. ASSUME NEW i \in DOMAIN all PROVE all[i][1] = s
    <3>1. CASE i <= Len(q)
      BY <2>3, <2>4, <3>1
    <3>2. CASE ~(i <= Len(q))
      <4>1. i - Len(q) \in 1..Len(t) /\ all[i] = t[i - Len(q)]
        BY <2>4, <3>2
      <4> QED
        BY <2>3, <4>1
    <3> QED
      BY <3>1, <3>2
  <2>6. \A i \in DOMAIN all : 1 \in DOMAIN all
    BY <2>4
  <2> QED
    BY <2>5, <2>6 DEF all, q, t
<1> QED
  BY <1>1, PInit, PNextInv, PTL DEF Spec

(* Heads the interface keeps a copy of never change, nor do tails that no  *)
(* sample rolls any more.                                                  *)
THEOREM ShownUnchanged == Spec => ShownStays
<1> DEFINE Same == shot' = shot => \A c \in Conns :
                     /\ Bytes(heap', shot[c].head) = Bytes(heap, shot[c].head)
                     /\ shot[c].tail.arr \notin Rolling =>
                          Bytes(heap', shot[c].tail) = Bytes(heap, shot[c].tail)
<1>1. PInv /\ [Next]_vars => [Same]_vars
  <2> SUFFICES ASSUME PInv, Next, NEW c \in Conns
               PROVE  /\ Bytes(heap', shot[c].head) = Bytes(heap, shot[c].head)
                      /\ shot[c].tail.arr \notin Rolling =>
                           Bytes(heap', shot[c].tail) = Bytes(heap, shot[c].tail)
    OBVIOUS
  <2>1. CASE UNCHANGED heap
    BY <2>1
  <2>2. ASSUME NEW ptr \in Ptrs, NEW n \in DataSizes, ApplyData(ptr, n)
        PROVE  /\ Bytes(heap', shot[c].head) = Bytes(heap, shot[c].head)
               /\ shot[c].tail.arr \notin Rolling =>
                    Bytes(heap', shot[c].tail) = Bytes(heap, shot[c].tail)
    <3> DEFINE smp == SampleAt(ptr)
    <3>1. PICK s \in Nat : Held(heap, plainBySSL, shot[c], s)
      BY DEF PInv, HeldBySome
    <3>2. Fits(heap, shot[c].head) /\ Fits(heap, shot[c].tail)
      BY <3>1 DEF Held, OfSample
    <3>3. PICK new : DataEffect(heap, heap', smp, n, new)
      BY <2>2, DataWrites
    <3>4. \/ smp.tail.arr = 0
          \/ plainBySSL[ptr] # None /\ smp = plainBySSL[ptr]
      BY DEF SampleAt, NewSample, Nil
    <3> HIDE DEF smp
    <3>5. shot[c].head.arr = 0 \/ shot[c].head.arr # smp.tail.arr
      BY <3>1, <3>4 DEF Held, Apart
    <3>6. shot[c].tail.arr \notin Rolling => shot[c].tail.arr = 0 \/ shot[c].tail.arr # smp.tail.arr
      BY <3>4 DEF Rolling
    <3> QED
      BY <3>2, <3>3, <3>5, <3>6 DEF DataEffect
  <2> QED
    BY <2>1, <2>2 DEF Next, UpdateSSLStats, ApplyClose, Snapshot
<1> QED
  BY <1>1, PInit, PNextInv, PTL DEF Spec, ShownStays
=============================================================================
