----------------------------- MODULE PlainTail -----------------------------
(***************************************************************************)
(* The plaintext that internal/model keeps for one direction, at the level *)
(* of Go slices: ApplyData appends to the rolling tail of a sample, the    *)
(* joins copy slices (not bytes) from the sample to a connection, and      *)
(* Snapshot() copies them on to the interface, which reads them after the  *)
(* mutex is released.  A slice is a backing array and a length; append     *)
(* writes into the array while its capacity lasts and moves to a new one   *)
(* afterwards.                                                             *)
(*                                                                         *)
(* A byte is <<s, i>>: the i-th byte captured since sample s was created.  *)
(***************************************************************************)
EXTENDS Integers, Sequences

CONSTANTS
  None,
  Ptrs,       \* SSL pointers
  Conns,      \* rows of the table
  PeekBytes,  \* --peek-bytes
  DataSizes,  \* lengths of captured chunks
  Spare,      \* capacity append may add to a new array
  MaxData     \* bound: chunks captured

ASSUME PlainAssumption ==
  /\ None \notin Ptrs \cup Conns
  /\ PeekBytes \in Nat /\ DataSizes \subseteq Nat \ {0} /\ Spare \subseteq Nat /\ MaxData \in Nat

VARIABLES
  heap,        \* the arrays allocated so far
  plainBySSL,  \* the sample of a pointer, or None
  conns,       \* HeadOut and TailOut of a connection
  shot,        \* the copies the interface got from its last Snapshot()
  made,        \* samples created so far
  data         \* chunks captured so far (bounded by MaxData)

vars == <<heap, plainBySSL, conns, shot, made, data>>
-----------------------------------------------------------------------------
(* Slices.                                                                 *)

Nil == [arr |-> 0, len |-> 0]
NoPlain == [head |-> Nil, tail |-> Nil]

Bytes(h, s) == IF s.arr = 0 THEN <<>> ELSE SubSeq(h[s.arr], 1, s.len)
Cap(h, s) == IF s.arr = 0 THEN 0 ELSE Len(h[s.arr])

\* q over the front of array a
Over(a, q) == [i \in DOMAIN a |-> IF i \in DOMAIN q THEN q[i] ELSE a[i]]

(* append(s, q...): the heaps and slices it may give.                      *)
append(h, s, q) ==
  LET all == Bytes(h, s) \o q IN
  IF Len(all) <= Cap(h, s)
  THEN {[heap |-> [h EXCEPT ![s.arr] = Over(@, all)], slice |-> [s EXCEPT !.len = Len(all)]]}
  ELSE {[heap |-> Append(h, Over([i \in 1..(Len(all) + n) |-> None], all)),
         slice |-> [arr |-> Len(h) + 1, len |-> Len(all)]] : n \in Spare}

clone(h, q) == append(h, Nil, q)

\* The last max bytes of a slice, moved to the front of its array.
Shift(r, max) ==
  LET all == Bytes(r.heap, r.slice) IN
  [heap |-> [r.heap EXCEPT ![r.slice.arr] = Over(@, SubSeq(all, Len(all) - max + 1, Len(all)))],
   slice |-> [r.slice EXCEPT !.len = max]]

\* Seeded fault: a chunk that does not fit starts the tail afresh.
appendTail_restart(h, s, q, max) ==
  IF max <= 0 THEN {[heap |-> h, slice |-> Nil]}
  ELSE IF s.len + Len(q) > max /\ Len(q) <= max THEN append(h, [s EXCEPT !.len = 0], q)
  ELSE {IF r.slice.len > max THEN Shift(r, max) ELSE r : r \in append(h, s, q)}

appendTail(h, s, q, max) ==
  IF max <= 0 THEN {[heap |-> h, slice |-> Nil]}
  ELSE {IF r.slice.len > max THEN Shift(r, max) ELSE r : r \in append(h, s, q)}
-----------------------------------------------------------------------------
(* The store.                                                              *)

NewSample == [s |-> made + 1, n |-> 0, head |-> Nil, tail |-> Nil]

\* A chunk of n bytes and the sample it goes to.
Chunk(smp, n) == [i \in 1..n |-> <<smp.s, smp.n + i>>]

Stash(ptr, smp, n, head, tail) ==
  /\ data < MaxData /\ data' = data + 1
  /\ plainBySSL' = [plainBySSL EXCEPT ![ptr] =
       [s |-> smp.s, n |-> smp.n + n, head |-> head, tail |-> tail]]
  /\ made' = IF smp.s > made THEN smp.s ELSE made
  /\ UNCHANGED <<conns, shot>>

\* Seeded fault: the head is not cloned, it shares the array of the tail.
ApplyData_alias(ptr, n) ==
  LET smp == IF plainBySSL[ptr] = None THEN NewSample ELSE plainBySSL[ptr] IN
  \E t \in appendTail(heap, smp.tail, Chunk(smp, n), PeekBytes) :
    /\ heap' = t.heap
    /\ Stash(ptr, smp, n, IF smp.head = Nil THEN t.slice ELSE smp.head, t.slice)

ApplyData(ptr, n) ==
  LET smp == IF plainBySSL[ptr] = None THEN NewSample ELSE plainBySSL[ptr]
      heads == IF smp.head = Nil THEN clone(heap, Chunk(smp, n))
               ELSE {[heap |-> heap, slice |-> smp.head]} IN
  \E h \in heads : \E t \in appendTail(h.heap, smp.tail, Chunk(smp, n), PeekBytes) :
    /\ heap' = t.heap
    /\ Stash(ptr, smp, n, h.slice, t.slice)

Slices(ptr) == [head |-> plainBySSL[ptr].head, tail |-> plainBySSL[ptr].tail]

(* UpdateSSLStats: the samples of the sessions that are listed (live) are  *)
(* joined to the connections resolve() names (to, None for none), the last *)
(* one to a connection wins; the samples of all others are evicted.        *)
UpdateSSLStats(live, to) ==
  LET joins(c) == {ptr \in live : to[ptr] = c /\ plainBySSL[ptr] # None} IN
  /\ \E last \in [Conns -> Ptrs] :
       /\ \A c \in Conns : joins(c) # {} => last[c] \in joins(c)
       /\ conns' = [c \in Conns |-> IF joins(c) = {} THEN conns[c] ELSE Slices(last[c])]
  /\ plainBySSL' = [ptr \in Ptrs |-> IF ptr \in live THEN plainBySSL[ptr] ELSE None]
  /\ UNCHANGED <<heap, shot, made, data>>

\* The connection that gets the slices of a closed session; None: there is none.
Copied(ptr, c) ==
  IF c = None \/ plainBySSL[ptr] = None THEN conns ELSE [conns EXCEPT ![c] = Slices(ptr)]

\* Seeded fault: the sample is emptied but keeps its array for the next session.
ApplyClose_recycle(ptr, c) ==
  /\ conns' = Copied(ptr, c)
  /\ plainBySSL' = [plainBySSL EXCEPT ![ptr] =
       IF @ = None THEN None ELSE [NewSample EXCEPT !.tail = [@ EXCEPT !.arr = plainBySSL[ptr].tail.arr]]]
  /\ UNCHANGED <<heap, shot, made, data>>

ApplyClose(ptr, c) ==
  /\ conns' = Copied(ptr, c)
  /\ plainBySSL' = [plainBySSL EXCEPT ![ptr] = None]
  /\ UNCHANGED <<heap, shot, made, data>>

(* Snapshot (and SnapshotHistory): Conn structs are copied, bytes are not. *)
Snapshot ==
  /\ shot' = conns
  /\ UNCHANGED <<heap, plainBySSL, conns, made, data>>

Init ==
  /\ heap = <<>> /\ plainBySSL = [ptr \in Ptrs |-> None]
  /\ conns = [c \in Conns |-> NoPlain] /\ shot = conns
  /\ made = 0 /\ data = 0

Next ==
  \/ \E ptr \in Ptrs :
       \/ \E n \in DataSizes : ApplyData(ptr, n)
       \/ \E c \in Conns \cup {None} : ApplyClose(ptr, c)
  \/ \E live \in SUBSET Ptrs : \E to \in [live -> Conns \cup {None}] : UpdateSSLStats(live, to)
  \/ Snapshot

Spec == Init /\ [][Next]_vars
-----------------------------------------------------------------------------
(* Properties.                                                             *)

(* The tail of a sample is the last PeekBytes bytes put into it, through   *)
(* every append in place, move to a new array and shift.                   *)
TailIsSuffix ==
  \A ptr \in Ptrs : plainBySSL[ptr] # None =>
    LET smp == plainBySSL[ptr]
        len == IF smp.n < PeekBytes THEN smp.n ELSE PeekBytes IN
    Bytes(heap, smp.tail) = [i \in 1..len |-> <<smp.s, smp.n - len + i>>]

(* What the interface shows as the head and the tail of a connection comes *)
(* from one sample at any moment, also when arrays are written under it,   *)
(* the sample is dropped and the next one of the pointer begins: samples   *)
(* share no array.  (Whether a sample is of one session is another matter, *)
(* and depends on close events: SampleOneOwner of Tlstat.)                 *)
ShownOneSample ==
  \A c \in Conns :
    LET all == Bytes(heap, shot[c].head) \o Bytes(heap, shot[c].tail) IN
    \A i \in DOMAIN all : all[i][1] = all[1][1]

Rolling == {plainBySSL[ptr].tail.arr : ptr \in {x \in Ptrs : plainBySSL[x] # None}}

(* As long as the interface keeps a copy, its heads do not change, nor do  *)
(* the tails of sessions that ApplyClose or the eviction has let go.       *)
ShownStays ==
  [][shot' = shot => \A c \in Conns :
       /\ Bytes(heap', shot[c].head) = Bytes(heap, shot[c].head)
       /\ shot[c].tail.arr \notin Rolling =>
            Bytes(heap', shot[c].tail) = Bytes(heap, shot[c].tail)]_vars
=============================================================================
