----------------------------- MODULE Ui_proofs -----------------------------
(***************************************************************************)
(* Proofs about Ui, for any connections, keys and heights of the terminal: *)
(* the selection is always one of the rows shown, a refresh loses no       *)
(* connection although it takes the mutex of the store twice, and rows     *)
(* sorted by process stay where they are.                                  *)
(***************************************************************************)
EXTENDS Ui, FiniteSetTheorems, FunctionTheorems, SequenceTheorems, WellFoundedInduction, TLAPS
-----------------------------------------------------------------------------
(* The inductive invariant.                                                *)

LiveConn == [ep : BOOLEAN, tls : BOOLEAN]

UType ==
  /\ live \in [Conns -> LiveConn \cup {None}] /\ history \in Seq(Conns) /\ known \subseteq Conns
  /\ rows \in Seq(Row) /\ sel \in Int /\ h \in Nat
  /\ part \subseteq Row /\ IsFiniteSet(part)

(* Only an empty list leaves the selection out of range.                   *)
SelectedRow == rows # <<>> => sel \in 0..(Len(rows) - 1)

(* A connection is in the table or in the history, never in both.          *)
StoreSound ==
  /\ \A c \in Conns : live[c] # None => c \in known
  /\ \A i \in DOMAIN history : history[i] \in known /\ live[history[i]] = None

(* Between the snapshots: what was there is in the first one, or it has    *)
(* left the table for good.                                                *)
RefreshSound ==
  /\ there \subseteq known
  /\ pc = "refresh" /\ view = "all" =>
       \A c \in there : live[c] = None \/ \E r \in part : r.conn = c

UInv == UType /\ SelectedRow /\ StoreSound /\ RefreshSound
-----------------------------------------------------------------------------
(* Snapshot() gives finitely many rows, one for each listed connection.    *)
LEMMA SnapshotRows ==
  ASSUME UType
  PROVE  /\ Snapshot \subseteq Row /\ IsFiniteSet(Snapshot)
         /\ \A c \in Listed : \E r \in Snapshot : r.conn = c
<1> DEFINE row(c) == [conn |-> c, tls |-> live[c].tls, retired |-> FALSE]
           f == [c \in Listed |-> row(c)]
<1>1. \A c \in Listed : row(c) \in Row /\ row(c).conn = c
  BY DEF UType, Listed, LiveConn, Row
<1> HIDE DEF row
<1>2. Snapshot = {row(c) : c \in Listed}
  BY DEF Snapshot, row
<1>3. f \in [Listed -> Snapshot] /\ \A r \in Snapshot : \E c \in Listed : f[c] = r
  BY <1>2
<1>4. f \in Surjection(Listed, Snapshot)
  BY <1>3, Fun_IsSurj
<1>5. IsFiniteSet(Listed)
  <2>1. Listed \in SUBSET Conns
    BY DEF Listed
  <2> QED
    BY <2>1, FS_Subset, UiAssumption
<1>6. IsFiniteSet(Snapshot)
  BY <1>4, <1>5, FS_Surjection
<1> QED
  BY <1>1, <1>2, <1>6

(* sortConns drops no row.                                                 *)
LEMMA SortedRows ==
  ASSUME NEW S, IsFiniteSet(S), NEW q \in sortConns(S)
  PROVE  q \in Seq(S) /\ \A r \in S : \E i \in DOMAIN q : q[i] = r
<1> DEFINE n == Cardinality(S)
<1>1. n \in Nat
  BY FS_CardinalityType
<1>2. q \in [1..n -> S] /\ \A i, j \in 1..n : i < j => q[i] # q[j]
  BY DEF sortConns
<1>3. \A i, j \in 1..n : q[i] = q[j] => i = j
  <2> HIDE DEF n
  <2> QED
    BY <1>1, <1>2
<1>4. q \in Injection(1..n, S)
  BY <1>2, <1>3, Fun_IsInj
<1>5. Cardinality(1..n) = n
  <2> HIDE DEF n
  <2> QED
    BY <1>1, FS_Interval
<1>6. q \in Surjection(1..n, S)
  <2>1. Cardinality(1..n) = Cardinality(S) <=> q \in Surjection(1..n, S)
    BY <1>4, FS_Injection, Zenon
  <2> QED
    BY <1>5, <2>1
<1>7. \A r \in S : \E i \in 1..n : q[i] = r
  BY <1>6 DEF Surjection
<1> HIDE DEF n
<1> QED
  BY <1>1, <1>2, <1>7

(* The rows of the history, and those after the live ones.                 *)
LEMMA HistoryRows ==
  ASSUME UType
  PROVE  /\ SnapshotHistory \in Seq(Row)
         /\ \A c \in Past : \E i \in DOMAIN SnapshotHistory : SnapshotHistory[i].conn = c
<1> DEFINE L == Len(history)
           H == SnapshotHistory
           row(c) == [conn |-> c, tls |-> TRUE, retired |-> TRUE]
<1>1. L \in Nat /\ DOMAIN history = 1..L /\ \A i \in 1..L : history[i] \in Conns
  BY DEF UType
<1>2. H = [i \in 1..L |-> row(history[L + 1 - i])]
  BY <1>1 DEF SnapshotHistory
<1>3. \A c \in Conns : row(c) \in Row /\ row(c).conn = c
  BY DEF Row
<1> HIDE DEF L, H, row
<1>4. \A i \in 1..L : L + 1 - i \in 1..L /\ L + 1 - (L + 1 - i) = i
  BY <1>1
<1>5. H \in [1..L -> Row]
  BY <1>1, <1>2, <1>3, <1>4
<1>6. ASSUME NEW c \in Past PROVE \E i \in DOMAIN H : H[i].conn = c
  <2>1. PICK i \in 1..L : history[i] = c
    BY <1>1 DEF Past
  <2>2. H[L + 1 - i].conn = c /\ L + 1 - i \in DOMAIN H
    BY <1>1, <1>2, <1>3, <1>4, <2>1
  <2> QED
    BY <2>2
<1> QED
  BY <1>1, <1>5, <1>6 DEF H

(* What a refresh puts into the rows.                                      *)
ShownRows(q) == IF view = "active" THEN q ELSE q \o SnapshotHistory

(* The rows keep both parts.                                               *)
LEMMA ShownRowsOK ==
  ASSUME UType, NEW q \in sortConns(part)
  PROVE  /\ ShownRows(q) \in Seq(Row)
         /\ \A r \in part : \E i \in DOMAIN ShownRows(q) : ShownRows(q)[i] = r
         /\ view # "active" => \A c \in Past : \E i \in DOMAIN ShownRows(q) : ShownRows(q)[i].conn = c
<1> DEFINE H == SnapshotHistory
           z == q \o H
<1>1. q \in Seq(part) /\ q \in Seq(Row) /\ \A r \in part : \E i \in DOMAIN q : q[i] = r
  <2>1. q \in Seq(part) /\ \A r \in part : \E i \in DOMAIN q : q[i] = r
    BY SortedRows DEF UType
  <2> QED
    BY <2>1 DEF UType
<1>2. H \in Seq(Row) /\ \A c \in Past : \E i \in DOMAIN H : H[i].conn = c
  BY HistoryRows
<1> HIDE DEF H
<1>3. /\ z \in Seq(Row) /\ DOMAIN z = 1..(Len(q) + Len(H)) /\ Len(q) \in Nat /\ Len(H) \in Nat
      /\ \A i \in 1..Len(q) : i \in DOMAIN z /\ z[i] = q[i]
      /\ \A i \in 1..Len(H) : Len(q) + i \in DOMAIN z /\ z[Len(q) + i] = H[i]
  BY <1>1, <1>2
<1>4. DOMAIN q = 1..Len(q) /\ DOMAIN H = 1..Len(H)
  BY <1>1, <1>2
<1> HIDE DEF z
<1>5. CASE view = "active"
  BY <1>1, <1>5 DEF ShownRows
<1>6. CASE view # "active"
  <2>1. ShownRows(q) = z
    BY <1>6 DEF ShownRows, z, H
  <2>2. \A r \in part : \E i \in DOMAIN z : z[i] = r
    BY <1>1, <1>3, <1>4
  <2>3. \A c \in Past : \E i \in DOMAIN z : z[i].conn = c
    BY <1>2, <1>3, <1>4
  <2> QED
    BY <1>3, <2>1, <2>2, <2>3
<1> QED
  BY <1>5, <1>6
-----------------------------------------------------------------------------
(* The store goes on, the rows wait.                                       *)
LEMMA StoreStep ==
  ASSUME UInv, NEW c \in Conns,
         (\E ep, tls \in BOOLEAN : Appear(c, ep, tls)) \/ Learn(c) \/ Retire(c)
  PROVE  UInv'
<1>1. UNCHANGED ui
  BY DEF Appear, Learn, Retire
<1>2. UNCHANGED <<rows, sel, h, part, there, pc, view>>
  BY <1>1 DEF ui
<1>3. SelectedRow'
  BY <1>2 DEF UInv, SelectedRow
<1>4. /\ live \in [Conns -> LiveConn \cup {None}] /\ history \in Seq(Conns) /\ known \subseteq Conns
      /\ StoreSound /\ there \subseteq known
  BY DEF UInv, UType, RefreshSound
<1>5. UType' = (live' \in [Conns -> LiveConn \cup {None}] /\ history' \in Seq(Conns) /\ known' \subseteq Conns)
  BY <1>2 DEF UInv, UType
<1>6. ASSUME NEW ep \in BOOLEAN, NEW tls \in BOOLEAN, Appear(c, ep, tls) PROVE UInv'
  <2> DEFINE v == [ep |-> ep, tls |-> tls]
  <2>1. /\ c \notin known /\ known' = known \cup {c} /\ UNCHANGED history
        /\ live' = [live EXCEPT ![c] = v] /\ v \in LiveConn
    BY <1>6 DEF Appear, LiveConn
  <2> HIDE DEF v
  <2>2. UType'
    BY <1>4, <1>5, <2>1
  <2>3. StoreSound'
    BY <1>4, <2>1 DEF StoreSound
  <2>4. RefreshSound'
    BY <1>2, <1>4, <2>1 DEF UInv, RefreshSound
  <2> QED
    BY <1>3, <2>2, <2>3, <2>4 DEF UInv
<1>7. CASE Learn(c)
  <2>1. PICK v \in LiveConn : live' = [live EXCEPT ![c] = v]
    BY <1>7 DEF Learn, LiveConn
  <2>2. live[c] # None /\ UNCHANGED <<history, known>>
    BY <1>7 DEF Learn
  <2>3. UType'
    BY <1>4, <1>5, <2>1, <2>2
  <2>4. StoreSound'
    BY <1>4, <2>1, <2>2 DEF StoreSound
  <2>5. RefreshSound'
    BY <1>2, <1>4, <2>1, <2>2 DEF UInv, RefreshSound
  <2> QED
    BY <1>3, <2>3, <2>4, <2>5 DEF UInv
<1>8. CASE Retire(c)
  <2> DEFINE q == Append(history, c)
             m == IF Len(q) > MaxHistory THEN Len(q) - MaxHistory + 1 ELSE 1
  <2>1. live[c] # None /\ live' = [live EXCEPT ![c] = None] /\ UNCHANGED known
    BY <1>8 DEF Retire
  <2>2. history' = SubSeq(q, m, Len(q))
    BY <1>8 DEF Retire
  <2>3. q \in Seq(Conns) /\ \A i \in DOMAIN q : q[i] = c \/ \E j \in DOMAIN history : q[i] = history[j]
    BY <1>4
  <2>4. Len(q) \in Nat /\ DOMAIN q = 1..Len(q)
    BY <2>3
  <2> HIDE DEF q
  <2>5. m \in Nat \ {0}
    BY <2>4, UiAssumption
  <2> HIDE DEF m
  <2>6. history' \in Seq(Conns) /\ \A i \in DOMAIN history' : \E j \in DOMAIN q : history'[i] = q[j]
    BY <2>2, <2>3, <2>4, <2>5
  <2>7. UType'
    BY <1>4, <1>5, <2>1, <2>6
  <2>8. c \in known
    BY <1>4, <2>1 DEF StoreSound
  <2>9. StoreSound'
    <3>1. \A j \in DOMAIN q : q[j] \in known /\ live'[q[j]] = None
      BY <1>4, <2>1, <2>3, <2>8 DEF StoreSound
    <3>2. \A x \in Conns : live'[x] # None => x \in known
      BY <1>4, <2>1 DEF StoreSound
    <3> QED
      BY <2>1, <2>6, <3>1, <3>2 DEF StoreSound
  <2>10. RefreshSound'
    BY <1>2, <1>4, <2>1 DEF UInv, RefreshSound
  <2> QED
    BY <1>3, <2>7, <2>9, <2>10 DEF UInv
<1> QED
  BY <1>6, <1>7, <1>8

(* refresh: the first snapshot, and later the rows.                        *)
LEMMA RefreshStep ==
  ASSUME UInv, refresh
  PROVE  UInv'
<1>1. UNCHANGED <<live, history, known, h>>
  BY DEF refresh, Begin, Show, store
<1>2. StoreSound'
  BY <1>1 DEF UInv, StoreSound
<1>3. CASE Begin(IF view = "closed" THEN {} ELSE Snapshot)
  <2> DEFINE S == IF view = "closed" THEN {} ELSE Snapshot
  <2>1. part' = S /\ there' = Listed \cup Past /\ UNCHANGED <<rows, sel, view>>
    BY <1>3 DEF Begin
  <2>2. S \subseteq Row /\ IsFiniteSet(S)
    BY SnapshotRows, FS_EmptySet DEF UInv
  <2>3. view = "all" => S = Snapshot
    OBVIOUS
  <2> HIDE DEF S
  <2>4. UType' /\ SelectedRow'
    BY <1>1, <2>1, <2>2 DEF UInv, UType, SelectedRow
  <2>5. \A c \in Listed : c \in known /\ \E r \in Snapshot : r.conn = c
    BY SnapshotRows DEF UInv, StoreSound, Listed
  <2>6. \A c \in Past : c \in known /\ live[c] = None
    BY DEF UInv, StoreSound, Past
  <2>7. RefreshSound'
    BY <1>1, <2>1, <2>3, <2>5, <2>6 DEF RefreshSound
  <2> QED
    BY <1>2, <2>4, <2>7 DEF UInv
<1>4. ASSUME NEW q \in sortConns(part), Show(ShownRows(q)) PROVE UInv'
  <2> DEFINE z == ShownRows(q)
  <2>1. /\ rows' = z /\ sel' = clamp(sel, Len(z)) /\ part' = {} /\ there' = {} /\ pc' = "idle"
    BY <1>4 DEF Show
  <2>2. z \in Seq(Row)
    BY ShownRowsOK DEF UInv
  <2> HIDE DEF z
  <2>3. sel \in Int /\ Len(z) \in Nat /\ (z # <<>> => Len(z) > 0)
    BY <2>2 DEF UInv, UType
  <2>4. clamp(sel, Len(z)) \in Int /\ (z # <<>> => clamp(sel, Len(z)) \in 0..(Len(z) - 1))
    BY <2>3 DEF clamp
  <2>5. UType' /\ SelectedRow'
    BY <1>1, <2>1, <2>2, <2>4, FS_EmptySet DEF UInv, UType, SelectedRow
  <2>6. RefreshSound'
    BY <1>1, <2>1 DEF RefreshSound
  <2> QED
    BY <1>2, <2>5, <2>6 DEF UInv
<1> QED
  BY <1>3, <1>4 DEF refresh, ShownRows

(* Keys.                                                                   *)
LEMMA KeyStep ==
  ASSUME UInv, \/ Up \/ Down \/ Top \/ Bottom \/ Enter \/ Tab \/ Sort \/ Quit
               \/ \E height \in Heights : WindowSize(height)
  PROVE  UInv'
<1>1. UNCHANGED <<live, history, known, rows, pc, part, there>> /\ pc = "idle"
  BY DEF Up, Down, Top, Bottom, Select, Enter, Tab, Sort, Quit, WindowSize, Idle, store
<1>2. h' \in Nat
  BY UiAssumption DEF UInv, UType, Up, Down, Top, Bottom, Select, Enter, Tab, Sort, Quit, WindowSize
<1>3. Len(rows) \in Nat /\ sel \in Int /\ (rows # <<>> => Len(rows) > 0)
  BY DEF UInv, UType
<1>4. \/ sel' = sel \/ sel' = 0 \/ sel' = Len(rows) - 1
      \/ sel > 0 /\ sel' = sel - 1
      \/ sel < Len(rows) - 1 /\ sel' = sel + 1
  BY DEF Up, Down, Top, Bottom, Select, Enter, Tab, Sort, Quit, WindowSize
<1>5. sel' \in Int /\ SelectedRow'
  BY <1>1, <1>3, <1>4 DEF UInv, SelectedRow
<1>6. UType' /\ StoreSound' /\ RefreshSound'
  BY <1>1, <1>2, <1>5 DEF UInv, UType, StoreSound, RefreshSound
<1> QED
  BY <1>5, <1>6 DEF UInv

(* The invariant holds at the start ...                                    *)
LEMMA UInit == Init => UInv
<1> SUFFICES ASSUME Init PROVE UInv
  OBVIOUS
<1>1. UType
  BY FS_EmptySet DEF Init, UType
<1> QED
  BY <1>1 DEF Init, UInv, SelectedRow, StoreSound, RefreshSound

(* ... and after every step.                                               *)
LEMMA UNextInv == UInv /\ [Next]_vars => UInv'
<1>1. ASSUME UInv, UNCHANGED vars PROVE UInv'
  BY <1>1 DEF vars, store, ui, UInv, UType, SelectedRow, StoreSound, RefreshSound
<1> QED
  BY <1>1, StoreStep, RefreshStep, KeyStep DEF Next

(* The selection is in the window of rows that View draws.                 *)
LEMMA SelectedIsShown == UInv => SelectionShown
<1> SUFFICES ASSUME UInv, rows # <<>>
             PROVE  sel >= 0 /\ sel \in start..(start + maxRows - 1) /\ sel < Len(rows)
  BY DEF SelectionShown
<1>1. sel \in 0..(Len(rows) - 1) /\ Len(rows) \in Nat
  BY DEF UInv, UType, SelectedRow
<1>2. maxRows \in Nat \ {0}
  BY UiAssumption DEF UInv, UType, maxRows
<1> HIDE DEF maxRows
<1> QED
  BY <1>1, <1>2 DEF start

(* Whatever keys are pressed while rows come and go, renderDetail does not *)
(* index the rows out of range, and the selected row is one that is shown. *)
THEOREM SelectionVisible == Spec => []SelectionShown
BY UInit, UNextInv, SelectedIsShown, PTL DEF Spec

(* A connection that is listed all through a refresh is in its rows, also  *)
(* if the poller retires it between the two critical sections.             *)
THEOREM RefreshLosesNothing == Spec => NothingLost
<1> DEFINE Kept == pc = "refresh" /\ pc' = "idle" /\ view = "all" =>
                     there \cap (Listed \cup Past) \subseteq {rows'[i].conn : i \in DOMAIN rows'}
<1>1. UInv /\ [Next]_vars => [Kept]_vars
  <2> SUFFICES ASSUME UInv, Next, pc = "refresh", pc' = "idle", view = "all",
                      NEW c \in there, c \in Listed \cup Past
               PROVE  \E i \in DOMAIN rows' : rows'[i].conn = c
    OBVIOUS
  <2>1. refresh
    BY DEF Next, Appear, Learn, Retire, Up, Down, Top, Bottom, Select, Enter, Tab, Sort, Quit,
           WindowSize, Idle, ui
  <2>2. PICK q \in sortConns(part) : Show(ShownRows(q))
    BY <2>1 DEF refresh, Begin, ShownRows
  <2>3. /\ \A r \in part : \E i \in DOMAIN rows' : rows'[i] = r
        /\ \A x \in Past : \E i \in DOMAIN rows' : rows'[i].conn = x
    BY <2>2, ShownRowsOK DEF Show, UInv
  <2>4. CASE c \in Past
    BY <2>3, <2>4
  <2>5. CASE c \in Listed
    <3>1. PICK r \in part : r.conn = c
      BY <2>5 DEF UInv, RefreshSound, Listed
    <3> QED
      BY <2>3, <3>1
  <2> QED
    BY <2>4, <2>5
<1> QED
  BY <1>1, UInit, UNextInv, PTL DEF Spec, NothingLost
-----------------------------------------------------------------------------
(* The order of the rows.                                                  *)

Strict(R, S) == \A x \in S, y \in S : ~(<<x, y>> \in R /\ <<y, x>> \in R)
InOrder(q, R) == \A i \in DOMAIN q, j \in DOMAIN q : i < j => <<q[i], q[j]>> \in R
Within(q, z) == \A i \in DOMAIN q : \E j \in DOMAIN z : z[j] = q[i]

(* Two lists of the same elements in the same strict order are equal: the  *)
(* elements at a first difference would each come before the other.        *)
LEMMA OneOrder ==
  ASSUME NEW S, NEW R, NEW q \in Seq(S), NEW z \in Seq(S),
         Strict(R, S), InOrder(q, R), InOrder(z, R), Within(q, z), Within(z, q)
  PROVE  q = z
<1> DEFINE m == Len(q)
           n == Len(z)
           r(x, y) == <<x, y>> \in R
           T == {i \in Nat : /\ i \in 1..m \/ i \in 1..n
                             /\ ~(i \in 1..m /\ i \in 1..n /\ q[i] = z[i])}
<1>1. m \in Nat /\ n \in Nat /\ DOMAIN q = 1..m /\ DOMAIN z = 1..n
  OBVIOUS
<1>2. /\ \A i \in 1..m : q[i] \in S
      /\ \A i \in 1..n : z[i] \in S
  OBVIOUS
<1>3. /\ \A x \in S, y \in S : ~(r(x, y) /\ r(y, x))
      /\ \A i \in 1..m, j \in 1..m : i < j => r(q[i], q[j])
      /\ \A i \in 1..n, j \in 1..n : i < j => r(z[i], z[j])
  BY <1>1 DEF Strict, InOrder
<1> HIDE DEF m, n, r
<1>4. ASSUME T # {} PROVE FALSE
  <2>1. PICK i \in T : \A k \in T : ~(<<k, i>> \in OpToRel(<, Nat))
    <3>1. T \subseteq Nat
      OBVIOUS
    <3> HIDE DEF T
    <3> QED
      BY <1>4, <3>1, WFMin, NatLessThanWellFounded
  <2>2. i \in Nat /\ (i \in 1..m \/ i \in 1..n) /\ ~(i \in 1..m /\ i \in 1..n /\ q[i] = z[i])
    OBVIOUS
  <2>3. \A k \in 1..(i - 1) : k \in 1..m /\ k \in 1..n /\ q[k] = z[k]
    <3> SUFFICES ASSUME NEW k \in 1..(i - 1) PROVE k \in 1..m /\ k \in 1..n /\ q[k] = z[k]
      OBVIOUS
    <3>1. k \in Nat /\ k < i /\ (k \in 1..m \/ k \in 1..n)
      BY <1>1, <2>2
    <3>2. <<k, i>> \in OpToRel(<, Nat)
      BY <2>2, <3>1 DEF OpToRel
    <3>3. k \notin T
      BY <2>1, <3>2
    <3> QED
      BY <3>1, <3>3
  <2> HIDE DEF T
  <2>4. CASE i \in 1..m
    <3>1. PICK j \in 1..n : z[j] = q[i]
      BY <1>1, <2>4 DEF Within
    <3>2. ~(j < i)
      <4> SUFFICES ASSUME j < i PROVE FALSE
        OBVIOUS
      <4>1. j \in 1..m /\ q[j] = q[i]
        BY <1>1, <2>2, <2>3, <3>1
      <4> QED
        BY <1>2, <1>3, <2>4, <4>1
    <3>3. i \in 1..n
      BY <1>1, <2>4, <3>1, <3>2
    <3>4. q[i] # z[i]
      BY <2>2, <2>4, <3>3
    <3>5. r(z[i], q[i])
      <4>1. i < j
        BY <1>1, <3>1, <3>2, <3>3, <3>4
      <4> QED
        BY <1>3, <3>1, <3>3, <4>1
    <3>6. PICK k \in 1..m : q[k] = z[i]
      BY <1>1, <3>3 DEF Within
    <3>7. ~(k < i)
      <4> SUFFICES ASSUME k < i PROVE FALSE
        OBVIOUS
      <4>1. k \in 1..n /\ z[k] = z[i]
        BY <1>1, <2>2, <2>3, <3>6
      <4> QED
        BY <1>2, <1>3, <3>3, <4>1
    <3>8. r(q[i], z[i])
      <4>1. i < k
        BY <1>1, <2>4, <3>4, <3>6, <3>7
      <4> QED
        BY <1>3, <2>4, <3>6, <4>1
    <3> QED
      BY <1>2, <1>3, <2>4, <3>3, <3>5, <3>8
  <2>5. CASE i \notin 1..m
    <3>1. i \in 1..n
      BY <2>2, <2>5
    <3>2. PICK k \in 1..m : q[k] = z[i]
      BY <1>1, <3>1 DEF Within
    <3>3. k < i
      BY <1>1, <2>2, <2>5, <3>1, <3>2
    <3>4. k \in 1..n /\ z[k] = z[i]
      BY <1>1, <2>2, <2>3, <3>2, <3>3
    <3> QED
      BY <1>2, <1>3, <3>1, <3>3, <3>4
  <2> QED
    BY <2>4, <2>5
<1>5. m = n
  <2>1. m \notin T /\ n \notin T
    BY <1>4
  <2> QED
    BY <1>1, <2>1
<1>6. \A i \in 1..m : q[i] = z[i]
  BY <1>1, <1>4, <1>5
<1> QED
  BY <1>1, <1>5, <1>6

(* The order sortConns gives by process, whatever sortBy is by now.        *)
PidBefore(a, b) ==
  IF a.tls # b.tls THEN a.tls
  ELSE \/ PidOf[a.conn] < PidOf[b.conn]
       \/ PidOf[a.conn] = PidOf[b.conn] /\ a.conn < b.conn

(* In history hs, a has been retired after b, if it has both.              *)
Newer(hs, a, b) == \A m, n \in DOMAIN hs : hs[m] = a /\ hs[n] = b => m > n

(* Row a stands above row b in a list sorted by order.                     *)
Above(hs, order, a, b) ==
  /\ a.retired => b.retired /\ Newer(hs, a.conn, b.conn)
  /\ ~b.retired /\ order = "pid" => PidBefore(a, b)

(* Snapshot lists no connection twice, and none is retired twice.          *)
NoTwins ==
  /\ \A m, n \in DOMAIN history : history[m] = history[n] => m = n
  /\ \A r \in part : ~r.retired
  /\ \A r, s \in part : r.conn = s.conn => r = s

(* A row of the history is of a connection that does not come back.        *)
RetiredGone ==
  \A i \in DOMAIN rows : rows[i].retired =>
    rows[i].conn \in known /\ live[rows[i].conn] = None

(* Retired rows come last, the newest first, also by the present history;  *)
(* rows sorted by process are in its order.                                *)
RowsOrdered == \A i, j \in DOMAIN rows : i < j => Above(history, by, rows[i], rows[j])

OInv == NoTwins /\ RetiredGone /\ RowsOrdered

(* The store goes on: what is retired now is none of the retired rows.     *)
LEMMA OrderStoreStep ==
  ASSUME UInv, OInv, NEW c \in Conns,
         (\E ep, tls \in BOOLEAN : Appear(c, ep, tls)) \/ Learn(c) \/ Retire(c)
  PROVE  OInv'
<1>1. UNCHANGED ui
  BY DEF Appear, Learn, Retire
<1>2. UNCHANGED <<rows, part, by>>
  BY <1>1 DEF ui
<1>3. /\ live \in [Conns -> LiveConn \cup {None}] /\ history \in Seq(Conns) /\ known \subseteq Conns
      /\ rows \in Seq(Row) /\ StoreSound
  BY DEF UInv, UType
<1>4. \A i \in DOMAIN rows : rows[i] \in Row /\ rows[i].conn \in Conns
  <2>1. \A r \in Row : r.conn \in Conns
    BY DEF Row
  <2> QED
    BY <1>3, <2>1
<1>5. CASE UNCHANGED history
  <2>1. NoTwins' /\ RowsOrdered'
    BY <1>2, <1>5 DEF OInv, NoTwins, RowsOrdered, Above, Newer
  <2>2. RetiredGone'
    <3>1. ASSUME NEW ep \in BOOLEAN, NEW tls \in BOOLEAN, Appear(c, ep, tls) PROVE RetiredGone'
      <4>1. c \notin known /\ known' = known \cup {c} /\ \A x \in Conns \ {c} : live'[x] = live[x]
        BY <1>3, <3>1 DEF Appear
      <4> QED
        BY <1>2, <1>4, <4>1 DEF OInv, RetiredGone
    <3>2. CASE Learn(c) \/ Retire(c)
      <4>1. live[c] # None /\ known' = known /\ \A x \in Conns \ {c} : live'[x] = live[x]
        BY <1>3, <3>2 DEF Learn, Retire
      <4> QED
        BY <1>2, <1>4, <4>1 DEF OInv, RetiredGone
    <3> QED
      BY <3>1, <3>2
  <2> QED
    BY <2>1, <2>2 DEF OInv
<1>6. CASE Retire(c)
  <2> DEFINE q == Append(history, c)
             m == IF Len(q) > MaxHistory THEN Len(q) - MaxHistory + 1 ELSE 1
             L == Len(history)
  <2>1. live[c] # None /\ live' = [live EXCEPT ![c] = None] /\ UNCHANGED known
    BY <1>6 DEF Retire
  <2>2. history' = SubSeq(q, m, Len(q))
    BY <1>6 DEF Retire
  <2>3. /\ L \in Nat /\ DOMAIN history = 1..L /\ Len(q) = L + 1 /\ q[L + 1] = c
        /\ \A i \in 1..L : q[i] = history[i]
        /\ q \in Seq(Conns)
    BY <1>3
  <2> HIDE DEF q, L
  <2>4. m \in 1..(L + 2)
    BY <2>3, UiAssumption
  <2> HIDE DEF m
  <2>5. /\ DOMAIN history' = 1..(L + 2 - m)
        /\ \A i \in 1..(L + 2 - m) : history'[i] = q[m + i - 1] /\ m + i - 1 \in 1..(L + 1)
    BY <2>2, <2>3, <2>4
  <2>6. \A i \in 1..L : history[i] # c
    BY <1>3, <2>1, <2>3 DEF StoreSound
  <2>7. \A i, j \in 1..(L + 1) : q[i] = q[j] => i = j
    <3> SUFFICES ASSUME NEW i \in 1..(L + 1), NEW j \in 1..(L + 1), q[i] = q[j] PROVE i = j
      OBVIOUS
    <3>1. CASE i \in 1..L /\ j \in 1..L
      BY <2>3, <3>1 DEF OInv, NoTwins
    <3>2. CASE i = L + 1 \/ j = L + 1
      BY <2>3, <2>6, <3>2
    <3> QED
      BY <2>3, <3>1, <3>2
  <2>8. NoTwins'
    <3>1. \A i, j \in DOMAIN history' : history'[i] = history'[j] => i = j
      BY <2>3, <2>4, <2>5, <2>7
    <3> QED
      BY <1>2, <3>1 DEF OInv, NoTwins
  <2>9. RetiredGone'
    BY <1>2, <1>3, <1>4, <2>1 DEF OInv, RetiredGone
  <2>10. \A a, b : a # c /\ b # c /\ Newer(history, a, b) => Newer(history', a, b)
    <3> SUFFICES ASSUME NEW a, NEW b, a # c, b # c, Newer(history, a, b),
                        NEW i \in DOMAIN history', NEW j \in DOMAIN history',
                        history'[i] = a, history'[j] = b
                 PROVE  i > j
      BY DEF Newer
    <3> DEFINE x == m + i - 1
               y == m + j - 1
    <3>1. q[x] = a /\ q[y] = b /\ x \in 1..(L + 1) /\ y \in 1..(L + 1)
      BY <2>5
    <3>2. x > y => i > j
      BY <2>3, <2>4, <2>5
    <3> HIDE DEF x, y
    <3>3. x \in 1..L /\ y \in 1..L
      BY <2>3, <3>1
    <3>4. history[x] = a /\ history[y] = b
      BY <2>3, <3>1, <3>3
    <3> QED
      BY <2>3, <3>2, <3>3, <3>4 DEF Newer
  <2>11. \A i \in DOMAIN rows : rows[i].retired => rows[i].conn # c
    BY <2>1 DEF OInv, RetiredGone
  <2>12. RowsOrdered'
    <3> SUFFICES ASSUME NEW i \in DOMAIN rows, NEW j \in DOMAIN rows, i < j
                 PROVE  Above(history', by, rows[i], rows[j])
      BY <1>2 DEF RowsOrdered
    <3>1. Above(history, by, rows[i], rows[j])
      BY DEF OInv, RowsOrdered
    <3> QED
      BY <2>10, <2>11, <3>1, Zenon DEF Above
  <2> QED
    BY <2>8, <2>9, <2>12 DEF OInv
<1> QED
  BY <1>5, <1>6 DEF Appear, Learn

(* Snapshot() has one row for each connection, as one that is live.        *)
LEMMA SnapshotOnce ==
  /\ \A r \in Snapshot : ~r.retired
  /\ \A r, s \in Snapshot : r.conn = s.conn => r = s
<1> DEFINE row(c) == [conn |-> c, tls |-> live[c].tls, retired |-> FALSE]
<1>1. \A c : row(c).conn = c /\ ~row(c).retired
  OBVIOUS
<1> HIDE DEF row
<1>2. Snapshot = {row(c) : c \in Listed}
  BY DEF Snapshot, row
<1> QED
  BY <1>1, <1>2

(* The rows of a refresh are in order, and its retired ones are those of   *)
(* the history.                                                            *)
LEMMA ShownOrdered ==
  ASSUME UType, NoTwins, NEW q \in sortConns(part)
  PROVE  /\ \A i, j \in DOMAIN ShownRows(q) : i < j =>
              Above(history, sortBy, ShownRows(q)[i], ShownRows(q)[j])
         /\ \A i \in DOMAIN ShownRows(q) : ShownRows(q)[i].retired => ShownRows(q)[i].conn \in Past
<1> DEFINE L == Len(history)
           H == SnapshotHistory
           row(c) == [conn |-> c, tls |-> TRUE, retired |-> TRUE]
           n == Len(q)
           z == q \o H
<1>1. q \in Seq(part)
  BY SortedRows DEF UType
<1>2. n \in Nat /\ DOMAIN q = 1..n /\ \A i \in 1..n : q[i] \in part /\ q[i] \in Row /\ ~q[i].retired
  BY <1>1 DEF UType, NoTwins
<1>3. \A i, j \in 1..n : i < j => q[i] # q[j] /\ ~Before(q[j], q[i])
  <2>1. \A i, j \in DOMAIN q : i < j => q[i] # q[j] /\ ~Before(q[j], q[i])
    BY DEF sortConns
  <2> QED
    BY <1>2, <2>1
<1>4. L \in Nat /\ DOMAIN history = 1..L /\ \A i \in 1..L : history[i] \in Conns
  BY DEF UType
<1>5. H = [i \in 1..L |-> row(history[L + 1 - i])]
  BY <1>4 DEF SnapshotHistory
<1>6. \A c : row(c).conn = c /\ row(c).retired
  OBVIOUS
<1>7. H \in Seq(Row)
  BY HistoryRows
<1> HIDE DEF row, L
<1>8. \A i \in 1..L : H[i].retired /\ H[i].conn = history[L + 1 - i] /\ L + 1 - i \in 1..L
  BY <1>4, <1>5, <1>6
<1>9. Len(H) = L /\ DOMAIN H = 1..L
  BY <1>4, <1>5, <1>7
<1> HIDE DEF H
<1>10. \A i, j \in 1..n : i < j => Above(history, sortBy, q[i], q[j])
  <2> SUFFICES ASSUME NEW i \in 1..n, NEW j \in 1..n, i < j, sortBy = "pid"
               PROVE  PidBefore(q[i], q[j])
    BY <1>2 DEF Above
  <2> DEFINE a == q[i]
             b == q[j]
  <2>1. a \in Row /\ b \in Row /\ a.conn # b.conn /\ ~Before(b, a)
    BY <1>2, <1>3 DEF NoTwins
  <2> HIDE DEF a, b
  <2>2. /\ a.conn \in Nat /\ b.conn \in Nat /\ PidOf[a.conn] \in Nat /\ PidOf[b.conn] \in Nat
        /\ a.tls \in BOOLEAN /\ b.tls \in BOOLEAN
    BY <2>1, UiAssumption DEF Row
  <2>3. ASSUME a.tls # b.tls PROVE PidBefore(a, b)
    BY <2>1, <2>2, <2>3, Zenon DEF Before, PidBefore
  <2>4. ASSUME a.tls = b.tls PROVE PidBefore(a, b)
    <3>1. ~(PidOf[b.conn] < PidOf[a.conn] \/ (PidOf[b.conn] = PidOf[a.conn] /\ b.conn < a.conn))
      BY <2>1, <2>4, Zenon DEF Before
    <3>2. PidOf[a.conn] < PidOf[b.conn] \/ (PidOf[a.conn] = PidOf[b.conn] /\ a.conn < b.conn)
      BY <2>1, <2>2, <3>1
    <3> QED
      BY <2>4, <3>2, Zenon DEF PidBefore
  <2> QED
    BY <2>3, <2>4 DEF a, b
<1>11. \A i, j \in 1..L : i < j => Above(history, sortBy, H[i], H[j])
  <2> SUFFICES ASSUME NEW i \in 1..L, NEW j \in 1..L, i < j,
                      NEW m \in 1..L, NEW k \in 1..L,
                      history[m] = H[i].conn, history[k] = H[j].conn
               PROVE  m > k
    BY <1>4, <1>8 DEF Above, Newer
  <2>1. m = L + 1 - i /\ k = L + 1 - j
    BY <1>4, <1>8 DEF NoTwins
  <2> QED
    BY <1>4, <2>1
<1>12. CASE view = "active"
  BY <1>2, <1>10, <1>12 DEF ShownRows
<1>13. CASE view # "active"
  <2>1. ShownRows(q) = z
    BY <1>13 DEF ShownRows, H
  <2>2. q \in Seq(Row) /\ n = Len(q)
    BY <1>1 DEF UType
  <2>3. /\ DOMAIN z = 1..(n + L)
        /\ \A i \in 1..(n + L) : z[i] = IF i <= n THEN q[i] ELSE H[i - n]
    BY <1>4, <1>7, <1>9, <2>2
  <2> HIDE DEF z, n
  <2>4. \A i \in 1..(n + L) : \/ i \in 1..n /\ z[i] = q[i]
                              \/ i \notin 1..n /\ i - n \in 1..L /\ z[i] = H[i - n]
    BY <1>2, <1>4, <2>3
  <2>5. \A i \in 1..(n + L) : z[i].retired => z[i].conn \in Past
    <3>1. \A i \in 1..L : H[i].conn \in Past
      BY <1>4, <1>8 DEF Past
    <3> QED
      BY <1>2, <2>4, <3>1
  <2>6. ASSUME NEW i \in 1..(n + L), NEW j \in 1..(n + L), i < j
        PROVE  Above(history, sortBy, z[i], z[j])
    <3>1. CASE j \in 1..n
      <4>1. i \in 1..n /\ z[i] = q[i] /\ z[j] = q[j]
        BY <1>2, <2>4, <2>6, <3>1
      <4> QED
        BY <1>10, <2>6, <3>1, <4>1
    <3>2. CASE j \notin 1..n /\ i \in 1..n
      <4>1. ~z[i].retired /\ z[j].retired
        BY <1>2, <1>8, <2>4, <3>2
      <4> QED
        BY <4>1 DEF Above
    <3>3. CASE j \notin 1..n /\ i \notin 1..n
      <4>1. z[i] = H[i - n] /\ z[j] = H[j - n] /\ i - n \in 1..L /\ j - n \in 1..L /\ i - n < j - n
        BY <1>2, <1>4, <2>4, <2>6, <3>3
      <4> QED
        BY <1>11, <4>1
    <3> QED
      BY <3>1, <3>2, <3>3
  <2> QED
    BY <2>1, <2>3, <2>5, <2>6
<1> QED
  BY <1>12, <1>13

(* Every step keeps the order.                                             *)
LEMMA ONextInv == UInv /\ OInv /\ [Next]_vars => OInv'
<1> SUFFICES ASSUME UInv, OInv, [Next]_vars PROVE OInv'
  OBVIOUS
<1>1. CASE UNCHANGED <<live, history, known, rows, part, by>>
  BY <1>1 DEF OInv, NoTwins, RetiredGone, RowsOrdered, Above, Newer
<1>2. CASE Begin(IF view = "closed" THEN {} ELSE Snapshot)
  <2>1. UNCHANGED <<live, history, known, rows, by>> /\ (part' = {} \/ part' = Snapshot)
    BY <1>2 DEF Begin, store
  <2>2. NoTwins'
    BY <2>1, SnapshotOnce DEF OInv, NoTwins
  <2> QED
    BY <2>1, <2>2 DEF OInv, RetiredGone, RowsOrdered
<1>3. ASSUME NEW q \in sortConns(part), Show(ShownRows(q)) PROVE OInv'
  <2>1. UNCHANGED <<live, history, known>> /\ part' = {} /\ by' = sortBy /\ rows' = ShownRows(q)
    BY <1>3 DEF Show, store
  <2>2. NoTwins'
    BY <2>1 DEF OInv, NoTwins
  <2>3. \A c \in Past : c \in known /\ live[c] = None
    BY DEF UInv, StoreSound, Past
  <2> QED
    BY <2>1, <2>2, <2>3, ShownOrdered DEF UInv, OInv, RetiredGone, RowsOrdered
<1>4. CASE refresh
  BY <1>2, <1>3, <1>4 DEF refresh, ShownRows
<1>5. CASE \/ Up \/ Down \/ Top \/ Bottom \/ Enter \/ Tab \/ Sort \/ Quit
           \/ \E height \in Heights : WindowSize(height)
  <2>1. UNCHANGED <<live, history, known, rows, part, by>>
    BY <1>5 DEF Up, Down, Top, Bottom, Select, Enter, Tab, Sort, Quit, WindowSize, store
  <2> QED
    BY <1>1, <2>1
<1>6. CASE UNCHANGED vars
  BY <1>1, <1>6 DEF vars, store, ui
<1> QED
  BY <1>4, <1>5, <1>6, OrderStoreStep DEF Next

(* A list is one of any set that has its elements.                         *)
LEMMA ListOf ==
  ASSUME NEW A, NEW q \in Seq(A), NEW S, \A i \in DOMAIN q : q[i] \in S
  PROVE  q \in Seq(S)
OBVIOUS

(* Sorted by process, a refresh that shows the same rows shows them in the *)
(* same places: no two rows compare as equal, and rows of the history keep *)
(* the order in which they were retired.                                   *)
THEOREM PidOrderKept == Spec => PidOrderFixed
<1> DEFINE Fixed == /\ pc = "refresh" /\ pc' = "idle" /\ by = "pid" /\ by' = "pid"
                    /\ {rows[i] : i \in DOMAIN rows} = {rows'[i] : i \in DOMAIN rows'}
                    => rows' = rows
<1>1. UInv /\ OInv /\ [Next]_vars => [Fixed]_vars
  <2> DEFINE S == {rows[i] : i \in DOMAIN rows}
             P(a, b) == Above(history, "pid", a, b)
             R == {p \in S \X S : P(p[1], p[2])}
  <2> SUFFICES ASSUME UInv, OInv, Next, pc = "refresh", pc' = "idle", by = "pid", by' = "pid",
                      S = {rows'[i] : i \in DOMAIN rows'}
               PROVE  rows = rows'
    OBVIOUS
  <2>1. refresh
    BY DEF Next, Appear, Learn, Retire, Up, Down, Top, Bottom, Select, Enter, Tab, Sort, Quit,
           WindowSize, Idle, ui
  <2>2. PICK q \in sortConns(part) : Show(ShownRows(q))
    BY <2>1 DEF refresh, Begin, ShownRows
  <2>3. rows' = ShownRows(q) /\ sortBy = "pid"
    BY <2>2 DEF Show
  <2>4. rows \in Seq(Row) /\ rows' \in Seq(Row)
    BY <2>3, ShownRowsOK DEF UInv, UType
  <2>5. /\ \A i \in DOMAIN rows : rows[i] \in S /\ \E j \in DOMAIN rows' : rows'[j] = rows[i]
        /\ \A i \in DOMAIN rows' : rows'[i] \in S /\ \E j \in DOMAIN rows : rows[j] = rows'[i]
    OBVIOUS
  <2>6. \A a \in S : \E i \in DOMAIN rows' : rows'[i] = a
    OBVIOUS
  <2>7. /\ \A i, j \in DOMAIN rows : i < j => P(rows[i], rows[j])
        /\ \A i, j \in DOMAIN rows' : i < j => P(rows'[i], rows'[j])
        /\ \A i \in DOMAIN rows' : rows'[i].retired => rows'[i].conn \in Past
    BY <2>3, ShownOrdered DEF UInv, OInv, RowsOrdered
  <2> HIDE DEF S
  <2>8. \A a \in S : a.retired => a.conn \in Past
    BY <2>6, <2>7
  <2>9. \A a \in S : a \in Row
    <3>1. \A i \in DOMAIN rows' : rows'[i] \in Row
      BY <2>4
    <3> QED
      BY <2>6, <3>1
  <2>10. ASSUME NEW a \in S, NEW b \in S, P(a, b), P(b, a) PROVE FALSE
    <3>1. CASE a.retired
      <4>1. b.retired /\ Newer(history, a.conn, b.conn) /\ Newer(history, b.conn, a.conn)
        BY <2>10, <3>1 DEF Above
      <4>2. PICK m \in DOMAIN history : history[m] = a.conn
        BY <2>8, <3>1 DEF Past
      <4>3. PICK k \in DOMAIN history : history[k] = b.conn
        BY <2>8, <4>1 DEF Past
      <4>4. m > k /\ k > m /\ m \in Nat /\ k \in Nat
        BY <4>1, <4>2, <4>3 DEF Newer, UInv, UType
      <4> QED
        BY <4>4
    <3>2. CASE ~a.retired
      <4>1. ~b.retired /\ PidBefore(a, b) /\ PidBefore(b, a)
        BY <2>10, <3>2 DEF Above
      <4>2. a.conn \in Nat /\ b.conn \in Nat /\ PidOf[a.conn] \in Nat /\ PidOf[b.conn] \in Nat
        BY <2>9, UiAssumption DEF Row
      <4>3. a.tls \in BOOLEAN /\ b.tls \in BOOLEAN
        BY <2>9 DEF Row
      <4>4. a.tls = b.tls
        BY <4>1, <4>3, Zenon DEF PidBefore
      <4>5. /\ PidOf[a.conn] < PidOf[b.conn] \/ (PidOf[a.conn] = PidOf[b.conn] /\ a.conn < b.conn)
            /\ PidOf[b.conn] < PidOf[a.conn] \/ (PidOf[b.conn] = PidOf[a.conn] /\ b.conn < a.conn)
        BY <4>1, <4>4, Zenon DEF PidBefore
      <4> QED
        BY <4>2, <4>5
    <3> QED
      BY <3>1, <3>2
  <2> HIDE DEF P
  <2>11. \A a \in S, b \in S : <<a, b>> \in R <=> P(a, b)
    OBVIOUS
  <2> HIDE DEF R
  <2>12. rows \in Seq(S) /\ rows' \in Seq(S)
    BY <2>4, <2>5, ListOf, Zenon
  <2>13. Strict(R, S) /\ InOrder(rows, R) /\ InOrder(rows', R)
    BY <2>5, <2>7, <2>10, <2>11 DEF Strict, InOrder
  <2>14. Within(rows, rows') /\ Within(rows', rows)
    BY <2>5 DEF Within
  <2> QED
    BY <2>12, <2>13, <2>14, OneOrder
<1>2. Init => OInv
  BY DEF Init, OInv, NoTwins, RetiredGone, RowsOrdered
<1> QED
  BY <1>1, <1>2, UInit, UNextInv, ONextInv, PTL DEF Spec, PidOrderFixed
=============================================================================
