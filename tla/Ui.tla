--------------------------------- MODULE Ui ---------------------------------
(***************************************************************************)
(* internal/ui: the bubbletea model over the connection table.  Update     *)
(* handles one message at a time, a key or a tick; a tick rebuilds the     *)
(* rows from Snapshot() and SnapshotHistory(), two critical sections of    *)
(* the store between which the poller may retire connections; View shows a *)
(* window of the rows around the selection.                                *)
(*                                                                         *)
(* Of a connection the interface tells apart whether its endpoint is known *)
(* and whether it is TLS.  Byte counts and times change all the time: the  *)
(* orders "recent" and "bytes" are any order of the rows of a kind.        *)
(***************************************************************************)
EXTENDS Integers, Sequences, FiniteSets

CONSTANTS
  None,
  Conns,       \* connections, numbered by the addresses of their sockets
  PidOf,       \* their processes
  MaxHistory,  \* --history
  MinRows,     \* rows View shows in the smallest window (3 in the code)
  Heights      \* heights of the terminal

ASSUME UiAssumption ==
  /\ Conns \subseteq Nat /\ IsFiniteSet(Conns) /\ None \notin Conns /\ PidOf \in [Conns -> Nat]
  /\ MaxHistory \in Nat /\ MinRows \in Nat \ {0} /\ Heights \subseteq Nat

VARIABLES
  live,     \* Store.conns: [ep, tls] of a connection, or None
  history,  \* Store.history, oldest first
  known,    \* connections the store has had so far
  rows, sel, sortBy, view, peek, h,  \* the fields of Model
  pc,       \* "idle", or "refresh" between the two snapshots
  part,     \* rows from Snapshot(), while in "refresh"
  there,    \* connections to be listed when the refresh began
  by,       \* the order of the last refresh
  ticking,  \* is a tick on its way?
  quit

store == <<live, history, known>>
ui == <<rows, sel, sortBy, view, peek, h, pc, part, there, by, ticking, quit>>
vars == <<store, ui>>
-----------------------------------------------------------------------------
(* The store, as reader and poller change it.                              *)

Listed == {c \in Conns : live[c] # None /\ live[c].ep}
Past == {history[i] : i \in DOMAIN history}

(* A connection is first heard of from the flows map or from a wire event. *)
Appear(c, ep, tls) ==
  /\ c \notin known /\ known' = known \cup {c}
  /\ live' = [live EXCEPT ![c] = [ep |-> ep, tls |-> tls]]
  /\ UNCHANGED <<history, ui>>

Learn(c) ==
  /\ live[c] # None
  /\ \E ep, tls \in BOOLEAN : /\ live[c].ep => ep
                              /\ live[c].tls => tls
                              /\ live' = [live EXCEPT ![c] = [ep |-> ep, tls |-> tls]]
  /\ UNCHANGED <<history, known, ui>>

Retire(c) ==
  /\ live[c] # None
  /\ live' = [live EXCEPT ![c] = None]
  /\ history' = LET q == Append(history, c) IN
                SubSeq(q, IF Len(q) > MaxHistory THEN Len(q) - MaxHistory + 1 ELSE 1, Len(q))
  /\ UNCHANGED <<known, ui>>
-----------------------------------------------------------------------------
(* refresh.                                                                *)

Row == [conn : Conns, tls : BOOLEAN, retired : BOOLEAN]

Snapshot == {[conn |-> c, tls |-> live[c].tls, retired |-> FALSE] : c \in Listed}

SnapshotHistory ==
  [i \in DOMAIN history |->
     [conn |-> history[Len(history) + 1 - i], tls |-> TRUE, retired |-> TRUE]]

\* Seeded fault: connections of one process compare as equal.
Before_nosock(a, b) ==
  IF a.tls # b.tls THEN a.tls ELSE sortBy = "pid" /\ PidOf[a.conn] < PidOf[b.conn]

(* The comparison of sortConns, as far as it is fixed.                     *)
Before(a, b) ==
  IF a.tls # b.tls THEN a.tls
  ELSE /\ sortBy = "pid"
       /\ \/ PidOf[a.conn] < PidOf[b.conn]
          \/ PidOf[a.conn] = PidOf[b.conn] /\ a.conn < b.conn

\* What sort.Slice, which is not stable, may make of rows that come in any order.
sortConns(S) ==
  {q \in [1..Cardinality(S) -> S] :
     \A i, j \in DOMAIN q : i < j => q[i] # q[j] /\ ~Before(q[j], q[i])}

\* Seeded fault: a selection that is too small is left alone.
clamp_upper(s, n) == IF s >= n THEN n - 1 ELSE s

clamp(s, n) ==
  LET t == IF s >= n THEN n - 1 ELSE s IN IF t < 0 THEN 0 ELSE t

\* The first critical section gave S, the rows are q: the tick is done.
Show(q) ==
  /\ pc = "refresh" /\ pc' = "idle" /\ part' = {} /\ there' = {}
  /\ rows' = q /\ sel' = clamp(sel, Len(q)) /\ by' = sortBy
  /\ UNCHANGED <<store, sortBy, view, peek, h, ticking, quit>>

Begin(S) ==
  /\ pc = "idle" /\ ticking /\ ~quit /\ pc' = "refresh"
  /\ part' = S /\ there' = Listed \cup Past
  /\ UNCHANGED <<store, rows, sel, sortBy, view, peek, h, by, ticking, quit>>

\* Seeded fault: the history is copied before the live connections.
refresh_swapped ==
  \/ Begin(IF view = "active" THEN {} ELSE {SnapshotHistory})
  \/ \E q \in sortConns(IF view = "closed" THEN {} ELSE Snapshot) :
       Show(IF view = "active" THEN q ELSE q \o CHOOSE s \in part : TRUE)

\* Seeded fault: the tick is not asked for again.
refresh_once ==
  \/ Begin(IF view = "closed" THEN {} ELSE Snapshot)
  \/ /\ pc = "refresh" /\ pc' = "idle" /\ part' = {} /\ there' = {} /\ ticking' = FALSE
     /\ \E q \in sortConns(part) :
          rows' = IF view = "active" THEN q ELSE q \o SnapshotHistory
     /\ sel' = clamp(sel, Len(rows')) /\ by' = sortBy
     /\ UNCHANGED <<store, sortBy, view, peek, h, quit>>

(* The handler of tickMsg: refresh, and the next tick.                     *)
refresh ==
  \/ Begin(IF view = "closed" THEN {} ELSE Snapshot)
  \/ \E q \in sortConns(part) : Show(IF view = "active" THEN q ELSE q \o SnapshotHistory)
-----------------------------------------------------------------------------
(* Keys.                                                                   *)

Idle == pc = "idle" /\ ~quit

Select(s) ==
  /\ Idle /\ sel' = s
  /\ UNCHANGED <<store, rows, sortBy, view, peek, h, pc, part, there, by, ticking, quit>>

Up == sel > 0 /\ Select(sel - 1)
Down == sel < Len(rows) - 1 /\ Select(sel + 1)
Top == Select(0)
Bottom == Select(Len(rows) - 1)

Enter ==
  /\ Idle /\ peek' = ~peek
  /\ UNCHANGED <<store, rows, sel, sortBy, view, h, pc, part, there, by, ticking, quit>>

Tab ==
  /\ Idle /\ sel' = 0
  /\ view' = CASE view = "active" -> "closed" [] view = "closed" -> "all" [] OTHER -> "active"
  /\ UNCHANGED <<store, rows, sortBy, peek, h, pc, part, there, by, ticking, quit>>

Sort ==
  /\ Idle
  /\ sortBy' = CASE sortBy = "recent" -> "bytes" [] sortBy = "bytes" -> "pid" [] OTHER -> "recent"
  /\ UNCHANGED <<store, rows, sel, view, peek, h, pc, part, there, by, ticking, quit>>

WindowSize(height) ==
  /\ Idle /\ h' = height
  /\ UNCHANGED <<store, rows, sel, sortBy, view, peek, pc, part, there, by, ticking, quit>>

Quit ==
  /\ Idle /\ quit' = TRUE
  /\ UNCHANGED <<store, rows, sel, sortBy, view, peek, h, pc, part, there, by, ticking>>
-----------------------------------------------------------------------------
(* View: the rows start .. start + maxRows - 1, counted from 0.            *)

maxRows ==
  LET n == h - (4 + (IF peek THEN 22 ELSE 12) + 1) IN IF n < MinRows THEN MinRows ELSE n

start == IF sel >= maxRows THEN sel - maxRows + 1 ELSE 0
-----------------------------------------------------------------------------
Init ==
  /\ live = [c \in Conns |-> None] /\ history = <<>> /\ known = {}
  /\ rows = <<>> /\ sel = 0 /\ sortBy = "recent" /\ view = "active" /\ peek = FALSE /\ h = 0
  /\ pc = "idle" /\ part = {} /\ there = {} /\ by = "recent" /\ ticking = TRUE /\ quit = FALSE

Next ==
  \/ \E c \in Conns : \/ \E ep, tls \in BOOLEAN : Appear(c, ep, tls)
                      \/ Learn(c) \/ Retire(c)
  \/ refresh
  \/ Up \/ Down \/ Top \/ Bottom \/ Enter \/ Tab \/ Sort \/ Quit
  \/ \E height \in Heights : WindowSize(height)

(* A tick that is on its way arrives, and refresh ends.                    *)
Spec == Init /\ [][Next]_vars /\ WF_vars(refresh)
-----------------------------------------------------------------------------
(* Properties.                                                             *)

(* Whatever keys are pressed while rows come and go, renderDetail does not *)
(* index the rows out of range, and the selected row is one that is shown. *)
SelectionShown ==
  /\ ~(rows = <<>> \/ sel >= Len(rows)) => sel >= 0
  /\ rows # <<>> => sel \in start..(start + maxRows - 1) /\ sel < Len(rows)

(* A connection that is in the table or in the history all through a       *)
(* refresh is in its rows, also if it is retired between the snapshots.    *)
NothingLost ==
  [][pc = "refresh" /\ pc' = "idle" /\ view = "all" =>
       there \cap (Listed \cup Past) \subseteq {rows'[i].conn : i \in DOMAIN rows'}]_vars

(* Sorted by process, rows that stay the same stay where they are: a tick  *)
(* does not put another connection under the selection.                    *)
PidOrderFixed ==
  [][pc = "refresh" /\ pc' = "idle" /\ by = "pid" /\ by' = "pid"
       /\ {rows[i] : i \in DOMAIN rows} = {rows'[i] : i \in DOMAIN rows'} => rows' = rows]_vars

(* The rows that the view asks for.                                        *)
Wanted == CASE view = "active" -> Listed [] view = "closed" -> Past [] OTHER -> Listed \cup Past

(* The ticks never run dry: again and again the rows are what the table    *)
(* and the history hold for the view.                                      *)
RowsFollow == []<>(quit \/ {rows[i].conn : i \in DOMAIN rows} = Wanted)
=============================================================================
