--------------------------- MODULE Owners_proofs ---------------------------
(***************************************************************************)
(* Whose plaintext is kept and shown: a proof about Tlstat that follows    *)
(* the captures of a pointer from the probe through the ring into the      *)
(* sample, the rows and the history.                                       *)
(***************************************************************************)
EXTENDS Tlstat_proofs

DataOf(e, x) == e.type = "data" /\ e.ssl = x
CloseOf(e, x) == e.type = "close" /\ e.ssl = x

(* The sessions whose plaintext stands at place i: 0 is the sample kept    *)
(* for x, the others are the records queued.                               *)
IdsAt(ev, smp, x, i) ==
  IF i = 0 THEN {c.id : c \in Kept(smp)} ELSE IF DataOf(ev[i], x) THEN {ev[i].id} ELSE {}

NoClose(ev, x, i, j) == \A k \in (i + 1)..j : ~CloseOf(ev[k], x)

(* With no close between them, two places hold plaintext of one session.   *)
OneEach(ev, smp, x) ==
  \A i \in 0..Len(ev), j \in 0..Len(ev) : i <= j /\ NoClose(ev, x, i, j) =>
    \A a \in IdsAt(ev, smp, x, i), b \in IdsAt(ev, smp, x, j) : a = b

(* What no close follows is of a session in L.                             *)
LastIn(ev, smp, x, L) ==
  \A i \in 0..Len(ev) : NoClose(ev, x, i, Len(ev)) => IdsAt(ev, smp, x, i) \subseteq L

Owned(ev, smp, x, L) == OneEach(ev, smp, x) /\ LastIn(ev, smp, x, L)

(* The sessions at x whose end SSL_free would report.                      *)
LiveIds(x) ==
  IF ssl_stats[x] = None THEN {} ELSE {sess[p][x].id : p \in {q \in Pids : sess[q][x] # None}}

OwnedInv == \A x \in Ptrs : Owned(events, plainBySSL[x], x, LiveIds(x))
-----------------------------------------------------------------------------
(* Records come and go.                                                    *)

(* A sample that keeps less, and sessions that stay.                       *)
LEMMA OwnedLess ==
  ASSUME NEW ev, Len(ev) \in Nat, NEW smp, NEW smp2, NEW x, NEW L, NEW L2, Owned(ev, smp, x, L),
         IdsAt(ev, smp2, x, 0) \subseteq IdsAt(ev, smp, x, 0), L \subseteq L2
  PROVE  Owned(ev, smp2, x, L2)
<1>1. \A i \in 0..Len(ev) : IdsAt(ev, smp2, x, i) \subseteq IdsAt(ev, smp, x, i)
  BY DEF IdsAt
<1>2. OneEach(ev, smp2, x)
  BY <1>1 DEF Owned, OneEach
<1>3. LastIn(ev, smp2, x, L2)
  BY <1>1 DEF Owned, LastIn
<1> QED
  BY <1>2, <1>3 DEF Owned

(* A record is queued: a close, one that is not about x, or data of the    *)
(* session that alone is live.                                             *)
LEMMA OwnedAppend ==
  ASSUME NEW S, NEW ev \in Seq(S), NEW e \in S, NEW smp, NEW x, NEW L, NEW L2,
         Owned(ev, smp, x, L), CloseOf(e, x) \/ L \subseteq L2,
         DataOf(e, x) => e.id \in L2 /\ L \subseteq {e.id}
  PROVE  Owned(Append(ev, e), smp, x, L2)
<1> DEFINE n == Len(ev)
           nv == Append(ev, e)
<1>1. /\ n \in Nat /\ Len(nv) = n + 1
      /\ \A i \in 0..n : IdsAt(nv, smp, x, i) = IdsAt(ev, smp, x, i)
      /\ \A i \in 0..n, j \in 0..n : NoClose(nv, x, i, j) => NoClose(ev, x, i, j)
      /\ \A i \in 0..n : NoClose(nv, x, i, n + 1) => NoClose(ev, x, i, n) /\ ~CloseOf(e, x)
      /\ IdsAt(nv, smp, x, n + 1) = IF DataOf(e, x) THEN {e.id} ELSE {}
  <2>1. n \in Nat /\ Len(nv) = n + 1 /\ nv[n + 1] = e /\ \A i \in 1..n : nv[i] = ev[i]
    OBVIOUS
  <2> HIDE DEF n, nv
  <2>2. ASSUME NEW i \in 0..n PROVE IdsAt(nv, smp, x, i) = IdsAt(ev, smp, x, i)
    <3>1. i = 0 \/ (i # 0 /\ i \in 1..n)
      BY <2>1
    <3> QED
      BY <2>1, <3>1 DEF IdsAt
  <2>3. ASSUME NEW i \in 0..n, NEW j \in 0..n, NoClose(nv, x, i, j) PROVE NoClose(ev, x, i, j)
    <3>1. \A k \in (i + 1)..j : k \in 1..n
      BY <2>1
    <3> QED
      BY <2>1, <2>3, <3>1 DEF NoClose
  <2>4. ASSUME NEW i \in 0..n, NoClose(nv, x, i, n + 1) PROVE NoClose(ev, x, i, n) /\ ~CloseOf(e, x)
    <3>1. /\ \A k \in (i + 1)..n : k \in 1..n /\ k \in (i + 1)..(n + 1)
          /\ n + 1 \in (i + 1)..(n + 1)
      BY <2>1
    <3> QED
      BY <2>1, <2>4, <3>1 DEF NoClose
  <2>5. IdsAt(nv, smp, x, n + 1) = IF DataOf(e, x) THEN {e.id} ELSE {}
    <3>1. n + 1 # 0
      BY <2>1
    <3> QED
      BY <2>1, <3>1 DEF IdsAt
  <2> QED
    BY <2>1, <2>2, <2>3, <2>4, <2>5
<1> HIDE DEF n, nv
<1>2. /\ \A i \in 0..n, j \in 0..n : i <= j /\ NoClose(ev, x, i, j) =>
           \A a \in IdsAt(ev, smp, x, i), b \in IdsAt(ev, smp, x, j) : a = b
      /\ \A i \in 0..n : NoClose(ev, x, i, n) => IdsAt(ev, smp, x, i) \subseteq L
  BY DEF Owned, OneEach, LastIn, n
<1>3. \A i \in 0..(n + 1) : i \in 0..n \/ i = n + 1
  BY <1>1
<1>4. OneEach(nv, smp, x)
  <2> SUFFICES ASSUME NEW i \in 0..(n + 1), NEW j \in 0..(n + 1), i <= j, NoClose(nv, x, i, j),
                      NEW a \in IdsAt(nv, smp, x, i), NEW b \in IdsAt(nv, smp, x, j)
               PROVE  a = b
    BY <1>1 DEF OneEach
  <2>1. CASE i \in 0..n /\ j \in 0..n
    BY <1>1, <1>2, <2>1
  <2>2. CASE i \in 0..n /\ j = n + 1
    <3>1. b = e.id /\ DataOf(e, x)
      BY <1>1, <2>2
    <3>2. a \in L
      BY <1>1, <1>2, <2>2
    <3> QED
      BY <3>1, <3>2
  <2>3. CASE i = n + 1 /\ j = n + 1
    BY <1>1, <2>3
  <2>4. i = n + 1 => j = n + 1
    BY <1>1
  <2> QED
    BY <1>3, <2>1, <2>2, <2>3, <2>4
<1>5. LastIn(nv, smp, x, L2)
  <2> SUFFICES ASSUME NEW i \in 0..(n + 1), NoClose(nv, x, i, n + 1)
               PROVE  IdsAt(nv, smp, x, i) \subseteq L2
    BY <1>1 DEF LastIn
  <2>1. CASE i \in 0..n
    BY <1>1, <1>2, <2>1
  <2>2. CASE i = n + 1
    BY <1>1, <2>2
  <2> QED
    BY <1>3, <2>1, <2>2
<1> QED
  BY <1>4, <1>5 DEF Owned, nv

(* The oldest record is read: after a close nothing is kept, and otherwise *)
(* what is kept was there or is the record's.                              *)
LEMMA OwnedTail ==
  ASSUME NEW S, NEW ev \in Seq(S), ev # <<>>, NEW smp, NEW smp2, NEW x, NEW L, Owned(ev, smp, x, L),
         IdsAt(ev, smp2, x, 0) \subseteq (IF CloseOf(Head(ev), x) THEN {}
                                          ELSE IdsAt(ev, smp, x, 0) \cup IdsAt(ev, smp, x, 1))
  PROVE  Owned(Tail(ev), smp2, x, L)
<1> DEFINE n == Len(ev)
           nv == Tail(ev)
<1>1. n \in Nat \ {0} /\ Len(nv) = n - 1 /\ Head(ev) = ev[1] /\ \A i \in 1..(n - 1) : nv[i] = ev[i + 1]
  OBVIOUS
<1> HIDE DEF n, nv
<1>2. /\ \A i \in 0..n, j \in 0..n : i <= j /\ NoClose(ev, x, i, j) =>
           \A a \in IdsAt(ev, smp, x, i), b \in IdsAt(ev, smp, x, j) : a = b
      /\ \A i \in 0..n : NoClose(ev, x, i, n) => IdsAt(ev, smp, x, i) \subseteq L
  BY DEF Owned, OneEach, LastIn, n
<1>3. ASSUME NEW i \in 1..(n - 1)
      PROVE  IdsAt(nv, smp2, x, i) = IdsAt(ev, smp, x, i + 1)
  <2>1. i # 0 /\ i + 1 # 0
    BY <1>1
  <2> QED
    BY <1>1, <2>1 DEF IdsAt
<1>4. ASSUME NEW i \in 0..(n - 1), NEW j \in 0..(n - 1), NoClose(nv, x, i, j)
      PROVE  NoClose(ev, x, i + 1, j + 1)
  <2> SUFFICES ASSUME NEW k \in (i + 2)..(j + 1) PROVE ~CloseOf(ev[k], x)
    BY <1>1 DEF NoClose
  <2>1. k - 1 \in (i + 1)..j /\ k - 1 \in 1..(n - 1) /\ (k - 1) + 1 = k
    BY <1>1
  <2> QED
    BY <1>1, <1>4, <2>1 DEF NoClose
<1>5. ASSUME NEW j \in 0..(n - 1), NoClose(nv, x, 0, j), ~CloseOf(ev[1], x)
      PROVE  NoClose(ev, x, 0, j + 1) /\ NoClose(ev, x, 1, j + 1)
  <2>1. NoClose(ev, x, 1, j + 1)
    BY <1>1, <1>4, <1>5
  <2>2. \A k \in 1..(j + 1) : k = 1 \/ k \in 2..(j + 1)
    BY <1>1
  <2> QED
    BY <1>5, <2>1, <2>2 DEF NoClose
<1>6. ASSUME NEW a \in IdsAt(nv, smp2, x, 0)
      PROVE  ~CloseOf(ev[1], x) /\ \E i \in {0, 1} : a \in IdsAt(ev, smp, x, i)
  <2>1. a \in IdsAt(ev, smp2, x, 0)
    BY DEF IdsAt
  <2> QED
    BY <1>1, <2>1
(* Where a place of the new queue was in the old one.                      *)
<1> DEFINE Was(i, k) == k \in 0..n /\ (k = i + 1 \/ (i = 0 /\ k = 0))
<1>7. ASSUME NEW i \in 0..(n - 1), NEW a \in IdsAt(nv, smp2, x, i), NEW j \in i..(n - 1),
             NoClose(nv, x, i, j)
      PROVE  \E k \in 0..n : Was(i, k) /\ a \in IdsAt(ev, smp, x, k) /\ NoClose(ev, x, k, j + 1)
  <2>1. CASE i = 0
    <3>1. PICK k \in {0, 1} : a \in IdsAt(ev, smp, x, k)
      BY <1>6, <1>7, <2>1
    <3>2. NoClose(ev, x, k, j + 1)
      BY <1>5, <1>6, <1>7, <2>1, <3>1
    <3> QED
      BY <1>1, <2>1, <3>1, <3>2
  <2>2. CASE i # 0
    <3>1. i \in 1..(n - 1) /\ i + 1 \in 0..n
      BY <1>1, <2>2
    <3>2. a \in IdsAt(ev, smp, x, i + 1)
      BY <1>3, <1>7, <3>1
    <3>3. NoClose(ev, x, i + 1, j + 1)
      BY <1>1, <1>4, <1>7
    <3> QED
      BY <3>1, <3>2, <3>3
  <2> QED
    BY <2>1, <2>2
<1>8. OneEach(nv, smp2, x)
  <2> SUFFICES ASSUME NEW i \in 0..(n - 1), NEW j \in 0..(n - 1), i <= j, NoClose(nv, x, i, j),
                      NEW a \in IdsAt(nv, smp2, x, i), NEW b \in IdsAt(nv, smp2, x, j)
               PROVE  a = b
    BY <1>1 DEF OneEach
  <2>0. j \in i..(n - 1) /\ j \in j..(n - 1) /\ NoClose(nv, x, j, j)
    BY <1>1 DEF NoClose
  <2>1. PICK k \in 0..n : Was(i, k) /\ a \in IdsAt(ev, smp, x, k) /\ NoClose(ev, x, k, j + 1)
    BY <1>7, <2>0
  <2>2. PICK m \in 0..n : Was(j, m) /\ b \in IdsAt(ev, smp, x, m)
    BY <1>7, <2>0
  <2>3. m <= j + 1 /\ k <= i + 1
    BY <1>1, <2>1, <2>2
  <2>4. NoClose(ev, x, k, m)
    <3>1. \A l \in (k + 1)..m : l \in (k + 1)..(j + 1)
      BY <1>1, <2>3
    <3> QED
      BY <2>1, <3>1 DEF NoClose
  <2>5. CASE k <= m
    BY <1>2, <2>1, <2>2, <2>4, <2>5
  <2>6. CASE m < k
    <3>1. i = 0 /\ j = 0 /\ m = 0 /\ k = 1
      BY <1>1, <2>1, <2>2, <2>6
    <3>2. ~CloseOf(ev[1], x)
      BY <1>6, <3>1
    <3>3. NoClose(ev, x, 0, 1)
      BY <3>2 DEF NoClose
    <3> QED
      BY <1>1, <1>2, <2>1, <2>2, <3>1, <3>3
  <2> QED
    BY <1>1, <2>5, <2>6
<1>9. LastIn(nv, smp2, x, L)
  <2> SUFFICES ASSUME NEW i \in 0..(n - 1), NoClose(nv, x, i, n - 1), NEW a \in IdsAt(nv, smp2, x, i)
               PROVE  a \in L
    BY <1>1 DEF LastIn
  <2>1. n - 1 \in i..(n - 1) /\ (n - 1) + 1 = n
    BY <1>1
  <2>2. PICK k \in 0..n : a \in IdsAt(ev, smp, x, k) /\ NoClose(ev, x, k, n)
    BY <1>7, <2>1
  <2> QED
    BY <1>2, <2>2
<1> QED
  BY <1>8, <1>9 DEF Owned, nv
-----------------------------------------------------------------------------
(* What the theorem assumes of the host and of the ring.                   *)

(* No two processes use the same pointer value at the same time.           *)
OneUser ==
  \A ptr \in Ptrs, p \in Pids, q \in Pids : sess[p][ptr] # None /\ sess[q][ptr] # None => p = q

(* A session that has an entry ends by an SSL_free whose close event finds *)
(* room in the ring.                                                       *)
CloseReported ==
  \A p \in Pids, ptr \in Ptrs :
    sess[p][ptr] # None /\ sess'[p][ptr] = None /\ ssl_stats[ptr] # None => events' # events
-----------------------------------------------------------------------------
(* The probes.                                                             *)

(* A step after which every session and every entry is still there.        *)
Stays ==
  /\ \A q \in Pids, y \in Ptrs : sess[q][y] # None => sess'[q][y] # None /\ sess'[q][y].id = sess[q][y].id
  /\ \A y \in Ptrs : ssl_stats[y] # None => ssl_stats'[y] # None

(* After it the sessions whose end will be reported are still among them.  *)
LEMMA StaysLive ==
  ASSUME Stays, NEW x \in Ptrs
  PROVE  LiveIds(x) \subseteq LiveIds(x)'
<1> SUFFICES ASSUME NEW p \in Pids, ssl_stats[x] # None, sess[p][x] # None
             PROVE  sess[p][x].id \in LiveIds(x)'
  BY DEF LiveIds
<1>1. ssl_stats'[x] # None /\ sess'[p][x] # None /\ sess'[p][x].id = sess[p][x].id
  BY DEF Stays
<1> QED
  BY <1>1 DEF LiveIds

(* A call keeps the session it is made on.                                 *)
LEMMA MovedIds ==
  ASSUME STypeOK, NEW p \in Pids, NEW ptr \in Ptrs, NEW dir \in Dirs, NEW n \in Nat,
         sess[p][ptr] # None, Moved(p, ptr, dir, n)
  PROVE  \A q \in Pids, y \in Ptrs : sess[q][y] # None => sess'[q][y] # None /\ sess'[q][y].id = sess[q][y].id
<1> DEFINE s == sess[p][ptr]
           r == [s EXCEPT !.k[dir] = @ + 1, !.prx = @ + n]
<1>1. s \in Session
  BY DEF STypeOK
<1>2. sess' = [sess EXCEPT ![p] = [sess[p] EXCEPT ![ptr] = r]]
  BY <1>1 DEF Moved, STypeOK, Session
<1>3. r.id = s.id
  BY <1>1 DEF Session
<1> HIDE DEF r
<1>4. sess'[p][ptr] = r /\ \A q \in Pids, y \in Ptrs : ~(q = p /\ y = ptr) => sess'[q][y] = sess[q][y]
  BY <1>2 DEF STypeOK
<1>5. \A q \in Pids, y \in Ptrs : sess'[q][y] = None <=> sess[q][y] = None
  BY MovedSess
<1> QED
  BY <1>3, <1>4, <1>5

(* SSL_set_fd makes a session or points one elsewhere.                     *)
LEMMA BindIds ==
  ASSUME WTypeOK, STypeOK, NEW p \in Pids, NEW ptr \in Ptrs, NEW sk \in Socks, Bind(p, ptr, sk)
  PROVE  \A q \in Pids, y \in Ptrs : sess[q][y] # None => sess'[q][y] # None /\ sess'[q][y].id = sess[q][y].id
<1>0. \A q \in Pids, y \in Ptrs : sess[q][y] # None => sess'[q][y] # None
  BY BindSess
<1>1. CASE sess[p][ptr] = None
  <2> DEFINE r == [id |-> nsess + 1, sk |-> sk, prx |-> 0, k |-> [d \in Dirs |-> 0]]
  <2>1. sess' = [sess EXCEPT ![p] = [sess[p] EXCEPT ![ptr] = r]]
    BY <1>1 DEF Bind
  <2> HIDE DEF r
  <2>2. \A q \in Pids, y \in Ptrs : ~(q = p /\ y = ptr) => sess'[q][y] = sess[q][y]
    BY <2>1 DEF STypeOK
  <2> QED
    BY <1>0, <1>1, <2>2
<1>2. CASE sess[p][ptr] # None
  <2> DEFINE r == [sess[p][ptr] EXCEPT !.sk = sk]
  <2>1. sess' = [sess EXCEPT ![p] = [sess[p] EXCEPT ![ptr] = r]]
    BY <1>2 DEF Bind
  <2>2. r.id = sess[p][ptr].id
    BY <1>2 DEF STypeOK, Session
  <2> HIDE DEF r
  <2>3. sess'[p][ptr] = r /\ \A q \in Pids, y \in Ptrs : ~(q = p /\ y = ptr) => sess'[q][y] = sess[q][y]
    BY <2>1 DEF STypeOK
  <2> QED
    BY <1>0, <2>2, <2>3
<1> QED
  BY <1>1, <1>2

(* emit_plaintext leaves an entry behind whenever it queues a capture, and *)
(* the capture is of the session of its process.                           *)
LEMMA EmitOwner ==
  ASSUME STypeOK, NEW t \in Threads, NEW ptr \in Ptrs, NEW b, NEW n \in Nat, NEW dir \in Dirs,
         sess[PidOf[t]][ptr] # None, emit_plaintext(t, ptr, b, n, dir)
  PROVE  /\ \A y \in Ptrs : ssl_stats[y] # None => ssl_stats'[y] # None
         /\ \/ UNCHANGED events
            \/ \E e \in DataEvent : /\ e.ssl = ptr /\ e.id = sess[PidOf[t]][ptr].id
                                    /\ events' = Append(events, e) /\ ssl_stats'[ptr] # None
<1> DEFINE s == ssl_stat_get(ptr, PidOf[t])
           e == data_event(s, t, ptr, n, dir)
           s2 == IF dir = DIR_OUT THEN [s EXCEPT !.ptx = @ + n] ELSE [s EXCEPT !.prx = @ + n]
<1>1. PidOf[t] \in Pids
  BY WireAssumption
<1>2. s # None => s \in Stat
  BY <1>1, StatGet
<1>3. \/ UNCHANGED <<ssl_stats, events>>
      \/ /\ n > 0 /\ s # None /\ ssl_stats' = [ssl_stats EXCEPT ![ptr] = s2]
         /\ UNCHANGED events \/ events' = Append(events, e)
  <2> HIDE DEF s, e
  <2> QED
    BY DEF emit_plaintext, bpf_ringbuf_submit, s, e
<1> HIDE DEF s
<1>4. s # None => s2 \in Stat
  BY <1>2 DEF Stat
<1>5. s # None => s2 # None
  BY <1>4, SessionAssumption
<1>6. n > 0 /\ s # None => e \in DataEvent
  <2> SUFFICES ASSUME n > 0, s # None PROVE e \in DataEvent
    OBVIOUS
  <2>1. sess[PidOf[t]][ptr] \in Session
    BY <1>1 DEF STypeOK
  <2>2. Capped(n, DataCap) \in Nat
    BY CappedRange, SslAssumption
  <2> QED
    BY <1>1, <1>2, <2>1, <2>2 DEF data_event, DataEvent, Session, Stat
<1>7. e.ssl = ptr /\ e.id = sess[PidOf[t]][ptr].id
  BY DEF data_event
<1> HIDE DEF e, s2
<1> QED
  BY <1>3, <1>5, <1>6, <1>7 DEF STypeOK

(* A capture of ptr by process p, or none.                                 *)
LEMMA CaptureOwned ==
  ASSUME TInv, OwnedInv, OneUser, UNCHANGED plainBySSL, Stays,
         NEW p \in Pids, NEW ptr \in Ptrs, sess[p][ptr] # None,
         \/ UNCHANGED events
         \/ \E e \in DataEvent : /\ e.ssl = ptr /\ e.id = sess[p][ptr].id
                                 /\ events' = Append(events, e) /\ ssl_stats'[ptr] # None
  PROVE  OwnedInv'
<1> SUFFICES ASSUME NEW x \in Ptrs PROVE Owned(events', plainBySSL[x], x, LiveIds(x)')
  BY DEF OwnedInv
<1>1. Owned(events, plainBySSL[x], x, LiveIds(x)) /\ LiveIds(x) \subseteq LiveIds(x)'
  BY StaysLive DEF OwnedInv
<1>2. events \in Seq(QueuedEvent) /\ Len(events) \in Nat
  BY DEF TInv
<1>3. CASE UNCHANGED events
  BY <1>1, <1>2, <1>3, OwnedLess
<1>4. ASSUME NEW e \in DataEvent, e.ssl = ptr, e.id = sess[p][ptr].id,
             events' = Append(events, e), ssl_stats'[ptr] # None
      PROVE  Owned(events', plainBySSL[x], x, LiveIds(x)')
  <2>1. e \in QueuedEvent
    BY DEF QueuedEvent
  <2>2. DataOf(e, x) => e.id \in LiveIds(x)' /\ LiveIds(x) \subseteq {e.id}
    <3> SUFFICES ASSUME x = ptr PROVE e.id \in LiveIds(x)' /\ LiveIds(x) \subseteq {e.id}
      BY <1>4 DEF DataOf
    <3>1. sess'[p][ptr] # None /\ sess'[p][ptr].id = e.id
      BY <1>4 DEF Stays
    <3>2. e.id \in LiveIds(x)'
      BY <1>4, <3>1 DEF LiveIds
    <3>3. \A q \in Pids : sess[q][ptr] # None => sess[q][ptr].id = e.id
      BY <1>4 DEF OneUser
    <3> QED
      BY <3>2, <3>3 DEF LiveIds
  <2> QED
    BY <1>1, <1>2, <1>4, <2>1, <2>2, OwnedAppend
<1> QED
  BY <1>3, <1>4

(* A session ends: SSL_free has put a close behind what it left in the     *)
(* ring, or it has left nothing.                                           *)
LEMMA EndOwned ==
  ASSUME TInv, OwnedInv, OneUser, CloseReported, UNCHANGED plainBySSL, NEW p \in Pids, NEW ptr \in Ptrs,
         u_ssl_free(p, ptr) \/ UnseenFree(p, ptr) \/ Abandon(p, ptr)
  PROVE  OwnedInv'
<1> SUFFICES ASSUME NEW x \in Ptrs PROVE Owned(events', plainBySSL[x], x, LiveIds(x)')
  BY DEF OwnedInv
<1>1. Owned(events, plainBySSL[x], x, LiveIds(x))
  BY DEF OwnedInv
<1>2. events \in Seq(QueuedEvent) /\ Len(events) \in Nat /\ SInv /\ STypeOK
  BY DEF TInv, SInv
<1>3. Ends(p, ptr) /\ sess[p][ptr] # None /\ sess'[p][ptr] = None
  BY <1>2 DEF u_ssl_free, UnseenFree, Abandon, Frees, Ends, STypeOK
<1>4. x # ptr => LiveIds(x)' = LiveIds(x)
  <2> SUFFICES ASSUME x # ptr PROVE LiveIds(x)' = LiveIds(x)
    OBVIOUS
  <2>1. \A q \in Pids : sess'[q][x] = sess[q][x]
    BY <1>2, <1>3, EndsSess
  <2>2. ssl_stats'[x] = ssl_stats[x]
    BY <1>2 DEF u_ssl_free, UnseenFree, Abandon, STypeOK
  <2> QED
    BY <2>1, <2>2 DEF LiveIds
<1>5. x = ptr /\ ssl_stats[ptr] = None => LiveIds(x) = {}
  BY DEF LiveIds
<1>6. \/ UNCHANGED events /\ ssl_stats[ptr] = None
      \/ \E e \in CloseEvent : e.ssl = ptr /\ events' = Append(events, e)
  <2>1. UNCHANGED events => ssl_stats[ptr] = None
    BY <1>3 DEF CloseReported
  <2> DEFINE s == ssl_stats[ptr]
             e == [type |-> "close", pid |-> p, fd |-> s.fd, ssl |-> ptr,
                   ptx |-> s.ptx, prx |-> s.prx, id |-> sess[p][ptr].id]
  <2>2. UNCHANGED events \/ (s # None /\ events' = Append(events, e))
    BY DEF u_ssl_free, UnseenFree, Abandon, close_event, bpf_ringbuf_submit
  <2>3. s # None => e \in CloseEvent
    <3>1. sess[p][ptr] \in Session
      BY <1>2, <1>3 DEF STypeOK
    <3>2. s # None => s \in Stat
      BY <1>2 DEF STypeOK
    <3> QED
      BY <3>1, <3>2 DEF CloseEvent, Session, Stat
  <2>4. e.ssl = ptr
    OBVIOUS
  <2> HIDE DEF e
  <2> QED
    BY <2>1, <2>2, <2>3, <2>4
<1>7. CASE UNCHANGED events /\ ssl_stats[ptr] = None
  <2>1. LiveIds(x) \subseteq LiveIds(x)'
    BY <1>4, <1>5, <1>7
  <2> QED
    BY <1>1, <1>2, <1>7, <2>1, OwnedLess
<1>8. ASSUME NEW e \in CloseEvent, e.ssl = ptr, events' = Append(events, e)
      PROVE  Owned(events', plainBySSL[x], x, LiveIds(x)')
  <2>1. e \in QueuedEvent /\ e.type = "close"
    BY DEF QueuedEvent, CloseEvent
  <2>2. CloseOf(e, x) \/ LiveIds(x) \subseteq LiveIds(x)'
    BY <1>4, <1>8, <2>1 DEF CloseOf
  <2>3. ~DataOf(e, x)
    BY <2>1 DEF DataOf
  <2> QED
    BY <1>1, <1>2, <1>8, <2>1, <2>2, <2>3, OwnedAppend
<1> QED
  BY <1>6, <1>7, <1>8

(* Every call of the library keeps the order of owners.                    *)
LEMMA SslOwned ==
  ASSUME TInv, OwnedInv, OneUser, CloseReported, SNext, UNCHANGED plainBySSL
  PROVE  OwnedInv'
<1>0. Sessions /\ SInv /\ STypeOK /\ WTypeOK
  BY DEF SNext, TInv, SInv, WInv
<1>1. ASSUME NEW p \in Pids, NEW ptr \in Ptrs, NEW sk \in Socks,
             u_ssl_set_fd(p, ptr, sk) \/ SSL_set_bio(p, ptr, sk)
      PROVE  OwnedInv'
  <2>1. Bind(p, ptr, sk) /\ UNCHANGED <<ssl_stats, events>>
    BY <1>1 DEF u_ssl_set_fd, SSL_set_bio
  <2>2. Stays
    BY <1>0, <2>1, BindIds DEF Stays
  <2> SUFFICES ASSUME NEW x \in Ptrs PROVE Owned(events, plainBySSL[x], x, LiveIds(x)')
    BY <2>1 DEF OwnedInv
  <2>3. Owned(events, plainBySSL[x], x, LiveIds(x)) /\ LiveIds(x) \subseteq LiveIds(x)'
    BY <2>2, StaysLive DEF OwnedInv
  <2>4. Len(events) \in Nat
    BY DEF TInv
  <2> QED
    BY <2>3, <2>4, OwnedLess
<1>2. ASSUME NEW p \in Pids, NEW ptr \in Ptrs,
             u_ssl_free(p, ptr) \/ UnseenFree(p, ptr) \/ Abandon(p, ptr)
      PROVE  OwnedInv'
  BY <1>2, EndOwned
<1>3. ASSUME NEW t \in Threads, NEW ptr \in Ptrs, NEW b \in SslBufs, NEW n \in PlainSizes,
             u_ssl_write(t, ptr, b, n)
      PROVE  OwnedInv'
  <2> DEFINE p == PidOf[t]
  <2>1. p \in Pids /\ n \in Nat /\ DIR_OUT \in Dirs /\ sess[p][ptr] # None /\ Moved(p, ptr, DIR_OUT, 0)
    BY <1>3, WireAssumption, SslAssumption DEF Dirs, u_ssl_write
  <2>2. UNCHANGED <<ssl_stats, events>> \/ emit_plaintext(t, ptr, b, n, DIR_OUT)
    BY <1>3 DEF u_ssl_write
  <2>3. /\ \A y \in Ptrs : ssl_stats[y] # None => ssl_stats'[y] # None
        /\ \/ UNCHANGED events
           \/ \E e \in DataEvent : /\ e.ssl = ptr /\ e.id = sess[p][ptr].id
                                   /\ events' = Append(events, e) /\ ssl_stats'[ptr] # None
    BY <1>0, <2>1, <2>2, EmitOwner
  <2> HIDE DEF p
  <2>4. Stays
    BY <1>0, <2>1, <2>3, MovedIds DEF Stays
  <2> QED
    BY <2>1, <2>3, <2>4, CaptureOwned
<1>4. ASSUME NEW t \in Threads, NEW ptr \in Ptrs, NEW b \in SslBufs, NEW hooked \in BOOLEAN,
             u_ssl_read(t, ptr, b, hooked)
      PROVE  OwnedInv'
  <2>1. UNCHANGED <<ssl_stats, sess, events>>
    BY <1>4 DEF u_ssl_read
  <2> QED
    BY <2>1 DEF OwnedInv, LiveIds
<1>5. ASSUME NEW t \in Threads, NEW ret \in PlainSizes \cup {0}, ur_ssl_read(t, ret)
      PROVE  OwnedInv'
  <2> DEFINE p == PidOf[t]
             b == ssl_ctxs[t].buf
  <2>1. p \in Pids /\ ret \in Nat /\ DIR_IN \in Dirs
    BY WireAssumption, SslAssumption DEF Dirs
  <2>2. sslcall[t] # None
    BY <1>5 DEF ur_ssl_read
  <2> PICK ptr \in Ptrs : ptr = sslcall[t].ssl
    BY <1>0, <2>2 DEF STypeOK
  <2>3. Moved(p, ptr, DIR_IN, ret) /\ sess[p][ptr] # None
    BY <1>0, <1>5, <2>2 DEF ur_ssl_read, SInv, SslCallOpen
  <2>4. UNCHANGED <<ssl_stats, events>> \/ emit_plaintext(t, ptr, b, ret, DIR_IN)
    <3>1. CASE sslcall[t].hooked /\ ssl_ctxs[t] # None
      <4>1. ssl_ctxs[t].ssl = ptr
        BY <1>0, <2>2, <3>1 DEF SInv, SslPaired
      <4> QED
        BY <1>5, <3>1, <4>1 DEF ur_ssl_read
    <3>2. CASE ~(sslcall[t].hooked /\ ssl_ctxs[t] # None)
      BY <1>5, <3>2 DEF ur_ssl_read
    <3> QED
      BY <3>1, <3>2
  <2>5. /\ \A y \in Ptrs : ssl_stats[y] # None => ssl_stats'[y] # None
        /\ \/ UNCHANGED events
           \/ \E e \in DataEvent : /\ e.ssl = ptr /\ e.id = sess[p][ptr].id
                                   /\ events' = Append(events, e) /\ ssl_stats'[ptr] # None
    BY <1>0, <2>1, <2>3, <2>4, EmitOwner
  <2> HIDE DEF p
  <2>6. Stays
    BY <1>0, <2>1, <2>3, <2>5, MovedIds DEF Stays
  <2> QED
    BY <2>1, <2>3, <2>5, <2>6, CaptureOwned
<1> QED
  BY <1>0, <1>1, <1>2, <1>3, <1>4, <1>5 DEF Sessions

(* The wire probes queue records that are about no session.                *)
LEMMA TrafficOwned ==
  ASSUME TInv, OwnedInv, Traffic, UNCHANGED <<svars, plainBySSL>>
  PROVE  OwnedInv'
<1> SUFFICES ASSUME NEW x \in Ptrs PROVE Owned(events', plainBySSL[x], x, LiveIds(x))
  BY DEF OwnedInv, svars, LiveIds
<1>1. Owned(events, plainBySSL[x], x, LiveIds(x)) /\ events \in Seq(QueuedEvent)
  BY DEF OwnedInv, TInv
<1>2. UNCHANGED events \/ \E e \in WireEvent : events' = Append(events, e)
  BY TrafficEntry DEF TInv, EntryStep, Captures
<1>3. ASSUME NEW e \in WireEvent, events' = Append(events, e)
      PROVE  Owned(events', plainBySSL[x], x, LiveIds(x))
  <2>1. e \in QueuedEvent /\ e.type = "wire"
    BY DEF QueuedEvent, WireEvent
  <2>2. ~DataOf(e, x)
    BY <2>1 DEF DataOf
  <2> QED
    BY <1>1, <1>3, <2>1, <2>2, OwnedAppend
<1> QED
  BY <1>1, <1>2, <1>3
-----------------------------------------------------------------------------
(* The reader and the poller.                                              *)

(* ApplyData adds its own chunk to what is kept, and no other.             *)
LEMMA KeptMore ==
  ASSUME NEW old \in Sample \cup {None}, NEW d \in Dirs, NEW chunk
  PROVE  LET smp == IF old = None THEN NoSample ELSE old IN
         Kept([smp EXCEPT ![d] = [head |-> IF @.head = None THEN chunk ELSE @.head,
                                  tail |-> appendTail(chunk)]]) \subseteq Kept(old) \cup {chunk}
<1> DEFINE smp == IF old = None THEN NoSample ELSE old
           one == [head |-> IF smp[d].head = None THEN chunk ELSE smp[d].head,
                   tail |-> appendTail(chunk)]
           new == [smp EXCEPT ![d] = one]
<1>1. smp \in Sample
  BY NewRow
<1>2. \A c \in Dirs : smp[c].head \in Kept(old) \cup {None} /\ smp[c].tail \in Kept(old) \cup {None}
  <2>1. CASE old = None
    BY <2>1 DEF NoSample, NoPlain
  <2>2. CASE old # None
    BY <2>2 DEF Kept
  <2> QED
    BY <2>1, <2>2
<1> HIDE DEF smp
<1>3. one.head \in Kept(old) \cup {chunk} /\ one.tail \in {chunk, None}
  BY <1>2 DEF appendTail
<1> HIDE DEF one
<1>4. \A c \in Dirs : new[c] = IF c = d THEN one ELSE smp[c]
  BY <1>1 DEF Sample
<1>5. \A c \in Dirs : /\ new[c].head \in Kept(old) \cup {chunk, None}
                    /\ new[c].tail \in Kept(old) \cup {chunk, None}
  BY <1>2, <1>3, <1>4
<1> HIDE DEF new
<1>6. Kept(new) \subseteq Kept(old) \cup {chunk}
  BY <1>5 DEF Kept
<1> QED
  BY <1>6 DEF new, one, smp

(* Each record read moves its chunk into the sample or ends the sample.    *)
LEMMA ReaderOwned ==
  ASSUME TInv, OwnedInv, Reader
  PROVE  OwnedInv'
<1> DEFINE e == Head(events)
<1>1. /\ events \in Seq(QueuedEvent) /\ events # <<>> /\ events' = Tail(events) /\ UNCHANGED svars
      /\ e \in QueuedEvent /\ e = events[1]
  <2>1. events \in Seq(QueuedEvent) /\ events # <<>> /\ events' = Tail(events) /\ UNCHANGED svars
    BY DEF TInv, Reader, ReadWire, ReadData, ReadClose, Read
  <2> QED
    BY <2>1
<1> SUFFICES ASSUME NEW x \in Ptrs PROVE Owned(Tail(events), plainBySSL'[x], x, LiveIds(x))
  BY <1>1 DEF OwnedInv, svars, LiveIds
<1>2. Owned(events, plainBySSL[x], x, LiveIds(x))
  BY DEF OwnedInv
<1> DEFINE P(smp2) == IdsAt(events, smp2, x, 0) \subseteq
                        (IF CloseOf(e, x) THEN {}
                         ELSE IdsAt(events, plainBySSL[x], x, 0) \cup IdsAt(events, plainBySSL[x], x, 1))
<1>3. SUFFICES P(plainBySSL'[x])
  BY <1>1, <1>2, OwnedTail
<1>4. CASE ~CloseOf(e, x) /\ plainBySSL'[x] = plainBySSL[x]
  BY <1>4
<1>5. plainBySSL \in [Ptrs -> Sample \cup {None}]
  BY DEF TInv, StoreType
<1>6. CASE ReadWire
  <2>1. e.type = "wire" /\ UNCHANGED plainBySSL
    BY <1>6 DEF ReadWire, Read, ApplyWire
  <2> QED
    BY <1>4, <2>1 DEF CloseOf
<1>7. CASE ReadData
  <2>1. e.type = "data" /\ ApplyData(e)
    BY <1>7 DEF ReadData, Read
  <2>2. e \in DataEvent
    BY <1>1, <2>1, EventTypes
  <2>3. e.ssl \in Ptrs /\ e.direction \in Dirs
    BY <2>2 DEF DataEvent
  <2>4. CASE x # e.ssl
    <3>1. plainBySSL'[x] = plainBySSL[x]
      BY <1>5, <2>1, <2>4 DEF ApplyData
    <3> QED
      BY <1>4, <2>1, <3>1 DEF CloseOf
  <2>5. CASE x = e.ssl
    <3> DEFINE old == plainBySSL[x]
               smp == IF old = None THEN NoSample ELSE old
               chunk == [id |-> e.id, k |-> e.k]
               new == [smp EXCEPT ![e.direction] = [head |-> IF @.head = None THEN chunk ELSE @.head,
                                                    tail |-> appendTail(chunk)]]
    <3>1. plainBySSL'[x] = new
      BY <1>5, <2>1, <2>3, <2>5 DEF ApplyData
    <3>2. Kept(new) \subseteq Kept(old) \cup {chunk}
      BY <1>5, <2>3, KeptMore
    <3>3. chunk.id = e.id
      OBVIOUS
    <3> HIDE DEF new, chunk
    <3>4. \A a \in IdsAt(events, new, x, 0) : a \in IdsAt(events, old, x, 0) \/ a = e.id
      BY <3>2, <3>3 DEF IdsAt
    <3>5. IdsAt(events, old, x, 1) = {e.id}
      BY <1>1, <2>1, <2>5 DEF IdsAt, DataOf
    <3>6. ~CloseOf(e, x)
      BY <2>1 DEF CloseOf
    <3> HIDE DEF e, old
    <3>7. P(new)
      BY <3>4, <3>5, <3>6 DEF old
    <3> QED
      BY <3>1, <3>7
  <2> QED
    BY <2>4, <2>5
<1>8. CASE ReadClose
  <2>1. e.type = "close" /\ plainBySSL' = [plainBySSL EXCEPT ![e.ssl] = None]
    BY <1>8 DEF ReadClose, Read, ApplyClose
  <2>2. e.ssl \in Ptrs
    BY <1>1, <2>1, EventTypes DEF CloseEvent
  <2>3. CASE x # e.ssl
    <3>1. plainBySSL'[x] = plainBySSL[x]
      BY <1>5, <2>1, <2>3
    <3> QED
      BY <1>4, <2>3, <3>1 DEF CloseOf
  <2>4. CASE x = e.ssl
    <3>1. plainBySSL'[x] = None
      BY <1>5, <2>1, <2>2, <2>4
    <3>2. IdsAt(events, None, x, 0) = {}
      BY DEF IdsAt, Kept
    <3> QED
      BY <3>1, <3>2
  <2> QED
    BY <2>3, <2>4
<1> QED
  BY <1>6, <1>7, <1>8 DEF Reader

(* The poller only ever drops samples.                                     *)
LEMMA PollerOwned ==
  ASSUME TInv, OwnedInv, Poller
  PROVE  OwnedInv'
<1>1. UNCHANGED <<events, svars>>
  BY DEF Poller, ScanFlow, DeleteClosed, DeleteFlow, MergeFlows, StartStats, ScanStat, RestartScan,
         AbortScan, BeginJoin, JoinOne, EndJoin
<1>2. \A x \in Ptrs : plainBySSL'[x] \in {plainBySSL[x], None}
  <2>1. UNCHANGED plainBySSL \/ EvictSamples(todo)
    BY DEF Poller, ScanFlow, DeleteClosed, MergeFlows, UpdateFlows, StartStats, ScanStat, RestartScan,
           AbortScan, BeginJoin, ZeroPlain, JoinOne, JoinStat, EndJoin, stvars
  <2> QED
    BY <2>1 DEF EvictSamples
<1> SUFFICES ASSUME NEW x \in Ptrs PROVE Owned(events, plainBySSL'[x], x, LiveIds(x))
  BY <1>1 DEF OwnedInv, svars, LiveIds
<1>3. Owned(events, plainBySSL[x], x, LiveIds(x)) /\ Len(events) \in Nat
  BY DEF OwnedInv, TInv
<1>4. IdsAt(events, None, x, 0) = {}
  BY DEF IdsAt, Kept
<1>5. IdsAt(events, plainBySSL'[x], x, 0) \subseteq IdsAt(events, plainBySSL[x], x, 0)
  BY <1>2, <1>4
<1> QED
  BY <1>3, <1>5, OwnedLess
-----------------------------------------------------------------------------
(* What the rows and the history show.                                     *)

(* At the front of the queue the sample is of one session.                 *)
LEMMA SamplesOne ==
  ASSUME OwnedInv, Len(events) \in Nat, NEW x \in Ptrs
  PROVE  OneOwner(plainBySSL[x])
<1>1. 0 \in 0..Len(events) /\ NoClose(events, x, 0, 0)
  BY DEF NoClose
<1>2. \A a \in IdsAt(events, plainBySSL[x], x, 0), b \in IdsAt(events, plainBySSL[x], x, 0) : a = b
  <2>1. OneEach(events, plainBySSL[x], x)
    BY DEF OwnedInv, Owned
  <2> QED
    BY ONLY <1>1, <2>1, Len(events) \in Nat DEF OneEach
<1>3. \A c \in Kept(plainBySSL[x]) : c.id \in IdsAt(events, plainBySSL[x], x, 0)
  BY DEF IdsAt
<1> QED
  BY <1>2, <1>3 DEF OneOwner

RowsOne ==
  /\ \A sk \in Socks : conns[sk] # None => OneOwner(conns[sk].plain)
  /\ \A i \in DOMAIN history : OneOwner(history[i].plain)

(* Where a row has its plaintext from: itself, nowhere, or a sample.       *)
PlainFrom(sk) ==
  \/ conns[sk] # None /\ conns'[sk].plain = conns[sk].plain
  \/ conns'[sk].plain = NoSample
  \/ \E x \in Ptrs : conns'[sk].plain = plainBySSL[x]

(* Joining a sample, and writing totals, to a row.                         *)
LEMMA JoinPlain ==
  ASSUME NEW c \in Conn, NEW ptr \in Ptrs, NEW a, NEW b,
         plainBySSL \in [Ptrs -> Sample \cup {None}]
  PROVE  LET j == JoinSample(c, ptr) IN
         /\ [j EXCEPT !.ptx = a, !.prx = b, !.plainFinal = TRUE].plain \in {c.plain, plainBySSL[ptr]}
         /\ [j EXCEPT !.ptx = @ + a, !.prx = @ + b].plain \in {c.plain, plainBySSL[ptr]}
<1> DEFINE j == JoinSample(c, ptr)
<1>1. j \in Conn /\ j.plain \in {c.plain, plainBySSL[ptr]}
  BY DEF JoinSample, Conn
<1> HIDE DEF j
<1>2. /\ [j EXCEPT !.ptx = a, !.prx = b, !.plainFinal = TRUE].plain = j.plain
      /\ [j EXCEPT !.ptx = @ + a, !.prx = @ + b].plain = j.plain
  BY <1>1 DEF Conn
<1> QED
  BY <1>1, <1>2 DEF j

(* The row resolve() finds takes a sample or keeps what it had.            *)
LEMMA JoinedFrom ==
  ASSUME TInv, NEW pid \in Pids, NEW fd \in Fds \cup {None}, NEW ok, NEW r \in resolve(pid, fd, ok),
         NEW ptr \in Ptrs, NEW row, r.conn # None => row.plain \in {conns[r.conn].plain, plainBySSL[ptr]},
         conns' = IF r.conn = None THEN conns ELSE [conns EXCEPT ![r.conn] = row],
         NEW sk \in Socks, conns'[sk] # None
  PROVE  PlainFrom(sk)
<1>1. r.conn = None \/ (r.conn \in Socks /\ conns[r.conn] # None)
  BY ResolveOK DEF TInv, StoreType
<1>2. conns \in [Socks -> Conn \cup {None}]
  BY DEF TInv, StoreType
<1>3. conns'[sk] = IF r.conn = sk THEN row ELSE conns[sk]
  BY <1>1, <1>2, WireAssumption
<1> QED
  BY <1>1, <1>3, WireAssumption DEF PlainFrom

(* Every step of the goroutines: a row keeps its plaintext, or takes a     *)
(* whole sample.                                                           *)
LEMMA StepFrom ==
  ASSUME TInv, Reader \/ Poller, NEW sk \in Socks, conns'[sk] # None
  PROVE  PlainFrom(sk)
<1>0. /\ conns \in [Socks -> Conn \cup {None}] /\ plainBySSL \in [Ptrs -> Sample \cup {None}]
      /\ stats \in Seq(StatEntry)
  BY DEF TInv, StoreType, PollType
<1>1. CASE conns'[sk] = conns[sk]
  BY <1>1 DEF PlainFrom
<1>2. CASE ReadWire
  <2> DEFINE w == Head(events)
             c == ConnAt(w.sk)
  <2>1. w \in WireEvent
    BY <1>2, ReadHead, EventTypes DEF ReadWire
  <2>2. conns' = [conns EXCEPT ![w.sk] = WireRow(c, w)]
    BY <1>2 DEF ReadWire, ApplyWire, WireRow
  <2>3. w.sk \in Socks /\ w.direction \in Dirs
    BY <2>1 DEF WireEvent
  <2>4. c \in Conn /\ c.plain = IF conns[w.sk] = None THEN NoSample ELSE conns[w.sk].plain
    BY <1>0, <2>3, NewRow DEF ConnAt, NewConn
  <2>5. WireRow(c, w).plain = c.plain
    <3> HIDE DEF c, w
    <3> QED
      BY <2>4 DEF WireRow, Conn
  <2>6. CASE sk = w.sk
    <3>1. conns'[sk].plain = c.plain
      BY <1>0, <2>2, <2>5, <2>6
    <3> QED
      BY <2>4, <2>6, <3>1 DEF PlainFrom
  <2>7. CASE sk # w.sk
    BY <1>0, <1>1, <2>2, <2>7
  <2> QED
    BY <2>6, <2>7
<1>3. CASE ReadClose
  <2> DEFINE e == Head(events)
  <2>1. e \in CloseEvent
    BY <1>3, ReadHead, EventTypes DEF ReadClose
  <2>2. PICK ok \in ProcOutcomes : \E r \in resolve(e.pid, e.fd, ok) : ApplyClose(e, r)
    BY <1>3 DEF ReadClose
  <2>3. PICK r \in resolve(e.pid, e.fd, ok) : ApplyClose(e, r)
    BY <2>2
  <2>4. e.pid \in Pids /\ e.fd \in Fds \cup {None} /\ e.ssl \in Ptrs
    BY <2>1 DEF CloseEvent
  <2> HIDE DEF e
  <2> DEFINE row == [JoinSample(conns[r.conn], e.ssl) EXCEPT
                       !.ptx = e.ptx, !.prx = e.prx, !.plainFinal = TRUE]
  <2>5. conns' = IF r.conn = None THEN conns ELSE [conns EXCEPT ![r.conn] = row]
    BY <2>3 DEF ApplyClose
  <2>6. r.conn # None => conns[r.conn] \in Conn
    BY <1>0, <2>4, ResolveOK DEF TInv, StoreType
  <2>7. r.conn # None => row.plain \in {conns[r.conn].plain, plainBySSL[e.ssl]}
    BY <1>0, <2>4, <2>6, JoinPlain
  <2> HIDE DEF row
  <2> QED
    BY <2>4, <2>5, <2>7, JoinedFrom
<1>4. CASE MergeFlows
  <2>1. conns'[sk] = IF snap[sk] # None THEN Merge(ConnAt(sk), snap[sk])
                     ELSE IF sk \in Retired(snap) THEN None ELSE conns[sk]
    BY <1>4 DEF MergeFlows, UpdateFlows
  <2>2. CASE snap[sk] # None
    <3> DEFINE c == ConnAt(sk)
               f == snap[sk]
    <3>1. c \in Conn /\ c.plain = IF conns[sk] = None THEN NoSample ELSE conns[sk].plain
      BY <1>0, NewRow DEF ConnAt, NewConn
    <3>2. conns'[sk] = Merge(c, f)
      BY <2>1, <2>2
    <3> HIDE DEF c, f
    <3>3. Merge(c, f).plain = c.plain
      BY <3>1 DEF Merge, Conn
    <3> QED
      BY <3>1, <3>2, <3>3 DEF PlainFrom
  <2>3. CASE snap[sk] = None
    BY <1>1, <2>1, <2>3
  <2> QED
    BY <2>2, <2>3
<1>5. CASE BeginJoin
  <2>1. conns'[sk] = IF conns[sk] # None /\ ~conns[sk].plainFinal
                     THEN [conns[sk] EXCEPT !.ptx = 0, !.prx = 0] ELSE conns[sk]
    BY <1>5 DEF BeginJoin, ZeroPlain
  <2>2. conns[sk] # None => /\ conns[sk] \in Conn
                            /\ [conns[sk] EXCEPT !.ptx = 0, !.prx = 0].plain = conns[sk].plain
    BY <1>0 DEF Conn
  <2> QED
    BY <2>1, <2>2 DEF PlainFrom
<1>6. CASE JoinOne
  <2> DEFINE e == Head(stats)
  <2>1. e \in StatEntry
    BY <1>0, <1>6 DEF JoinOne
  <2>2. PICK ok \in ProcOutcomes : \E r \in resolve(e.pid, e.fd, ok) : JoinStat(e, r)
    BY <1>6 DEF JoinOne
  <2>3. PICK r \in resolve(e.pid, e.fd, ok) : JoinStat(e, r)
    BY <2>2
  <2>4. e.pid \in Pids /\ e.fd \in Fds \cup {None} /\ e.ssl \in Ptrs
    BY <2>1 DEF StatEntry
  <2> HIDE DEF e
  <2> DEFINE row == [JoinSample(conns[r.conn], e.ssl) EXCEPT !.ptx = @ + e.ptx, !.prx = @ + e.prx]
  <2>5. conns' = IF r.conn = None THEN conns ELSE [conns EXCEPT ![r.conn] = row]
    BY <2>3 DEF JoinStat
  <2>6. r.conn # None => conns[r.conn] \in Conn
    BY <1>0, <2>4, ResolveOK DEF TInv, StoreType
  <2>7. r.conn # None => row.plain \in {conns[r.conn].plain, plainBySSL[e.ssl]}
    BY <1>0, <2>4, <2>6, JoinPlain
  <2> HIDE DEF row
  <2> QED
    BY <2>4, <2>5, <2>7, JoinedFrom
<1>7. UNCHANGED conns \/ ReadWire \/ ReadClose \/ MergeFlows \/ BeginJoin \/ JoinOne
  BY DEF Reader, ReadData, ApplyData, Poller, ScanFlow, DeleteClosed, StartStats, ScanStat,
         RestartScan, AbortScan, EndJoin, EvictSamples, stvars
<1> QED
  BY <1>1, <1>2, <1>3, <1>4, <1>5, <1>6, <1>7

(* A row of the history was there, or has just been retired.               *)
LEMMA RetiredFrom ==
  ASSUME TInv, NEW q \in Orders(Retired(snap)), retire(q), NEW i \in DOMAIN history'
  PROVE  \/ \E j \in DOMAIN history : history'[i].plain = history[j].plain
         \/ \E sk \in Socks : conns[sk] # None /\ history'[i].plain = conns[sk].plain
<1> DEFINE S == Retired(snap)
           n == Cardinality(S)
           row(k) == [conns[q[k]] EXCEPT !.wire = NewConn.wire]
           add == [k \in 1..n |-> row(k)]
           all == history \o add
           From(c) == \/ \E j \in DOMAIN history : c.plain = history[j].plain
                      \/ \E sk \in Socks : conns[sk] # None /\ c.plain = conns[sk].plain
<1>1. n \in Nat /\ history \in Seq(Conn) /\ conns \in [Socks -> Conn \cup {None}] /\ MaxHistory \in Nat
  BY RetireOK, StoreAssumption DEF TInv, StoreType
<1>2. q \in [1..n -> S] /\ DOMAIN q = 1..n
  BY DEF Orders
<1>3. \A k \in 1..n : row(k) \in Conn /\ From(row(k))
  <2> TAKE k \in 1..n
  <2>1. q[k] \in S
    BY <1>2
  <2>2. q[k] \in Socks /\ conns[q[k]] # None
    BY <2>1 DEF Retired
  <2>3. conns[q[k]] \in Conn /\ NewConn.wire \in [Dirs -> [chunks : Seq(WireChunk), len : Nat]]
    BY <1>1, <2>2, NewRow DEF Conn
  <2>4. row(k) \in Conn /\ row(k).plain = conns[q[k]].plain
    BY <2>3 DEF Conn
  <2> QED
    BY <2>2, <2>4
<1>4. history' = LastN(all, MaxHistory)
  BY <1>2 DEF retire
<1> HIDE DEF n, S, row, From
<1>5. add \in Seq(Conn) /\ Len(add) = n /\ \A k \in 1..n : From(add[k])
  BY <1>1, <1>3
<1> HIDE DEF add
<1>6. /\ all \in Seq(Conn) /\ Len(all) = Len(history) + n
      /\ \A k \in 1..(Len(history) + n) : all[k] = IF k <= Len(history) THEN history[k]
                                                  ELSE add[k - Len(history)]
  BY <1>1, <1>5, ConcatProperties
<1>7. \A k \in 1..Len(all) : From(all[k])
  <2> TAKE k \in 1..Len(all)
  <2>1. Len(history) \in Nat /\ DOMAIN history = 1..Len(history)
    BY <1>1
  <2>2. CASE k <= Len(history)
    <3>1. all[k] = history[k] /\ k \in DOMAIN history
      BY <1>1, <1>6, <2>1, <2>2
    <3> QED
      BY <3>1 DEF From
  <2>3. CASE ~(k <= Len(history))
    <3>1. k - Len(history) \in 1..n
      BY <1>1, <1>6, <2>1, <2>3
    <3>2. all[k] = add[k - Len(history)]
      BY <1>6, <2>3
    <3> QED
      BY <1>5, <3>1, <3>2
  <2> QED
    BY <2>2, <2>3
<1> HIDE DEF all
<1>8. Len(all) \in Nat
  BY <1>6
<1>9. CASE Len(all) > MaxHistory
  <2> DEFINE m == Len(all) - MaxHistory + 1
  <2>1. history' = SubSeq(all, m, Len(all)) /\ m \in 1..(Len(all) + 1)
    BY <1>1, <1>4, <1>8, <1>9 DEF LastN
  <2>2. \A k \in m..Len(all) : all[k] \in Conn
    BY <1>6, <1>8, <2>1
  <2>3. /\ history' \in Seq(Conn)
        /\ Len(history') = IF m <= Len(all) THEN Len(all) - m + 1 ELSE 0
        /\ \A k \in 1..(Len(all) - m + 1) : history'[k] = all[m + k - 1]
    <3>1. m \in Int /\ Len(all) \in Int
      BY <1>1, <1>8
    <3> HIDE DEF m
    <3> QED
      BY <2>1, <2>2, <3>1, SubSeqProperties
  <2>4. i \in 1..(Len(all) - m + 1) /\ m + i - 1 \in 1..Len(all)
    BY <1>1, <1>8, <1>9, <2>3
  <2>5. From(history'[i])
    BY <1>7, <2>3, <2>4
  <2> QED
    BY <2>5 DEF From
<1>10. CASE ~(Len(all) > MaxHistory)
  <2>1. history' = all
    BY <1>4, <1>10 DEF LastN
  <2>2. i \in 1..Len(all)
    BY <1>6, <2>1
  <2>3. From(history'[i])
    BY <1>7, <2>1, <2>2
  <2> QED
    BY <2>3 DEF From
<1> QED
  BY <1>9, <1>10

(* Rows and history take whole samples, each of one session.               *)
LEMMA RowsOneStep ==
  ASSUME TInv, OwnedInv, RowsOne, Reader \/ Poller
  PROVE  RowsOne'
<1>1. \A x \in Ptrs : OneOwner(plainBySSL[x])
  BY SamplesOne DEF TInv
<1>2. OneOwner(NoSample)
  BY DEF OneOwner, Kept, NoSample, NoPlain
<1>3. ASSUME NEW sk \in Socks, conns'[sk] # None PROVE OneOwner(conns'[sk].plain)
  <2>1. PlainFrom(sk)
    BY <1>3, StepFrom
  <2> QED
    BY <1>1, <1>2, <2>1 DEF PlainFrom, RowsOne
<1>4. ASSUME NEW i \in DOMAIN history' PROVE OneOwner(history'[i].plain)
  <2>1. CASE UNCHANGED history
    BY <1>4, <2>1 DEF RowsOne
  <2>2. CASE MergeFlows
    <3>1. PICK q \in Orders(Retired(snap)) : retire(q)
      BY <2>2 DEF MergeFlows, UpdateFlows
    <3>2. \/ \E j \in DOMAIN history : history'[i].plain = history[j].plain
          \/ \E sk \in Socks : conns[sk] # None /\ history'[i].plain = conns[sk].plain
      BY <1>4, <3>1, RetiredFrom
    <3> QED
      BY <3>2 DEF RowsOne
  <2>3. UNCHANGED history \/ MergeFlows
    BY DEF Reader, ReadWire, ApplyWire, ReadData, ApplyData, ReadClose, ApplyClose, Poller, ScanFlow,
           DeleteClosed, StartStats, ScanStat, RestartScan, AbortScan, BeginJoin, ZeroPlain, JoinOne,
           JoinStat, EndJoin, EvictSamples, stvars
  <2> QED
    BY <2>1, <2>2, <2>3
<1> QED
  BY <1>3, <1>4 DEF RowsOne
-----------------------------------------------------------------------------
(* The two together are kept by every step, under the assumptions.         *)
LEMMA OwnersNext ==
  TInv /\ OwnedInv /\ RowsOne /\ OneUser /\ [Next]_vars /\ [CloseReported]_vars => OwnedInv' /\ RowsOne'
<1> SUFFICES ASSUME TInv, OwnedInv, RowsOne, OneUser, [Next]_vars, [CloseReported]_vars
             PROVE  OwnedInv' /\ RowsOne'
  OBVIOUS
<1>1. CASE UNCHANGED vars
  BY <1>1 DEF vars, stvars, svars, OwnedInv, LiveIds, RowsOne
<1>2. CASE Traffic /\ UNCHANGED <<svars, stvars, pvars>>
  <2>1. OwnedInv'
    BY <1>2, TrafficOwned DEF stvars
  <2> QED
    BY <1>2, <2>1 DEF stvars, RowsOne
<1>3. CASE SNext /\ UNCHANGED <<wvars, stvars, pvars>> /\ CloseReported
  <2>1. OwnedInv'
    BY <1>3, SslOwned DEF stvars
  <2> QED
    BY <1>3, <2>1 DEF stvars, RowsOne
<1>4. CASE Reader \/ Poller
  BY <1>4, ReaderOwned, PollerOwned, RowsOneStep
<1> QED
  BY <1>1, <1>2, <1>3, <1>4 DEF Next

(* As long as no two processes use a pointer at once and no session ends   *)
(* unreported, all plaintext kept for a pointer, and all that a row of the *)
(* table or the history shows, is of one session: whatever is queued when  *)
(* the pointer is reused, however the reader and the poller interleave,    *)
(* and whenever a walk restarts, is aborted or evicts a sample.            *)
THEOREM SamplesOfOneSession ==
  Spec /\ []OneUser /\ [][CloseReported]_vars => []SampleOneOwner
<1>1. Init => OwnedInv /\ RowsOne
  <2> SUFFICES ASSUME Init PROVE OwnedInv /\ RowsOne
    OBVIOUS
  <2>1. /\ events = <<>> /\ history = <<>> /\ \A sk \in Socks : conns[sk] = None
        /\ \A x \in Ptrs : plainBySSL[x] = None
    BY DEF Init, WInit, StInit
  <2>2. RowsOne
    BY <2>1 DEF RowsOne
  <2>3. \A x \in Ptrs, i \in 0..Len(events) : IdsAt(events, plainBySSL[x], x, i) = {}
    BY <2>1 DEF IdsAt, Kept
  <2> QED
    BY <2>2, <2>3 DEF OwnedInv, Owned, OneEach, LastIn
<1>2. TInv /\ OwnedInv /\ RowsOne => SampleOneOwner
  BY SamplesOne DEF TInv, RowsOne, SampleOneOwner
<1> QED
  BY <1>1, <1>2, OwnersNext, TInvariance, PTL DEF Spec
=============================================================================
