--------------------------- MODULE FlowRace_proofs ---------------------------
(***************************************************************************)
(* Proofs about FlowRace, for any number of CPUs, calls and probes: races  *)
(* lose counts and never make any up, and a direction whose probes keep    *)
(* clear of each other is counted exactly and captured within its budget.  *)
(***************************************************************************)
EXTENDS FlowRace, TLAPS

Elem == [count : [Counters -> Nat], pid : BOOLEAN, direction : BOOLEAN, closed : BOOLEAN]

(* Where a probe has a pointer to an element.                              *)
Pointing == {"identity", "load", "store", "budget", "mark"}
Places == {"idle", "lookup", "update", "again"} \cup Pointing

Cpu == [at : Places, probe : Calls \cup Tracepoints \cup {""}, f : Nat,
        field : Counters \cup Tracepoints \cup {""}, n : Nat, reg : Nat]

(* A probe in its place: len elements are allocated, and the probes have   *)
(* added cd.                                                               *)
InPlace(r, len, cd) ==
  /\ r \in Cpu
  /\ r.at = "idle" => r = Idle
  /\ r.at \in Pointing => r.f \in 1..len
  /\ r.probe \in Calls => r.at # "mark" /\ r.field \in {r.probe, Cnt(r.probe)}
  /\ r.at \in {"identity", "load", "store", "budget"} => r.probe \in Calls
  /\ r.at = "store" => r.reg <= cd[r.field]
  /\ r.at \in {"load", "store"} /\ r.field = Cnt(r.probe) => r.n = 1
  /\ r.at \notin {"load", "store", "idle"} => r.field = r.probe

(* The first half of the invariant: every probe is in its place, and       *)
(* before the first entry nothing has been added.                          *)
RInv ==
  /\ elems \in Seq(Elem) /\ flows \in 0..Len(elems)
  /\ counted \in [Counters -> Nat] /\ raced \subseteq Calls
  /\ cpu \in [CPUs -> Cpu]
  /\ \A c \in CPUs : InPlace(cpu[c], Len(elems), counted)
  /\ flows = 0 => elems = <<>> /\ counted = Nothing
  /\ NothingInvented

(* The second half: as long as some direction is not raced, the pointers   *)
(* of the calls' probes are to the map's element, and a call that is about *)
(* to create the entry is alone, with nothing counted yet.                 *)
Alone(c) == \A o \in CPUs : Kprobe(o) => o = c

Sharing ==
  raced # Calls =>
    /\ \A c \in CPUs : Kprobe(c) /\ cpu[c].at \in Pointing => cpu[c].f = flows
    /\ \A c \in CPUs : Kprobe(c) /\ cpu[c].at = "update" => counted = Nothing /\ Alone(c)
    /\ \A c \in CPUs : Kprobe(c) /\ flows = 0 => Alone(c)

(* The counters of a direction that is not raced.                          *)
Clean(call) ==
  /\ \A c, o \in CPUs : cpu[c].probe = call /\ cpu[o].probe = call => c = o
  /\ flows # 0 => \A x \in {call, Cnt(call)} : elems[flows].count[x] = counted[x]
  /\ counted[Cnt(call)] <= MaxWireEvents
  /\ \A c \in CPUs : cpu[c].probe = call /\ cpu[c].at = "store" => cpu[c].reg = counted[cpu[c].field]
  /\ \A c \in CPUs : cpu[c].probe = call /\ cpu[c].at \in {"load", "store"}
                        /\ cpu[c].field = Cnt(call) => counted[Cnt(call)] < MaxWireEvents

CInv == Sharing /\ \A call \in Calls \ raced : Clean(call)
-----------------------------------------------------------------------------
(* The steps, as far as one CPU goes.                                      *)

(* The element of a new entry, the state of a CPU without a probe and the  *)
(* names of the counters.                                                  *)
LEMMA Basics ==
  /\ Nothing \in [Counters -> Nat] /\ zero \in Elem
  /\ Idle \in Cpu /\ Idle.at = "idle" /\ Idle.probe \notin Calls
  /\ \A call \in Calls : call \in Counters /\ Cnt(call) \in Counters /\ Cnt(call) \notin Calls
  /\ \A call, other \in Calls : Cnt(call) = Cnt(other) => call = other
BY DEF Nothing, zero, Elem, Idle, Cpu, Places, Pointing, Calls, Counters, Cnt, Tracepoints

(* A step of CPU c to the state r keeps the others in their places: the    *)
(* elements and what was added only become more.                           *)
LEMMA PlacesKept ==
  ASSUME RInv, NEW c \in CPUs, NEW r, cpu' = [cpu EXCEPT ![c] = r],
         Len(elems') \in Nat, Len(elems') >= Len(elems),
         counted' \in [Counters -> Nat], \A x \in Counters : counted'[x] >= counted[x],
         InPlace(r, Len(elems'), counted')
  PROVE  /\ cpu' \in [CPUs -> Cpu]
         /\ \A o \in CPUs : InPlace(cpu'[o], Len(elems'), counted')
<1>1. Len(elems) \in Nat
  BY DEF RInv
<1>2. ASSUME NEW o \in CPUs, o # c PROVE InPlace(cpu[o], Len(elems'), counted')
  <2> DEFINE s == cpu[o]
  <2>1. InPlace(s, Len(elems), counted)
    BY DEF RInv
  <2> HIDE DEF s
  <2>2. s.f \in Nat /\ (s.at \in Pointing => s.f \in 1..Len(elems'))
    <3>1. s.f \in Nat /\ (s.at \in Pointing => s.f \in 1..Len(elems))
      BY <2>1 DEF InPlace, Cpu
    <3>2. \A i \in 1..Len(elems) : i \in 1..Len(elems')
      BY <1>1
    <3> QED
      BY <3>1, <3>2
  <2>3. s.at = "store" => s.reg <= counted'[s.field]
    <3>1. s.at = "store" => s.field \in Counters
      BY <2>1, Basics DEF InPlace
    <3>2. s.reg \in Nat
      BY <2>1 DEF InPlace, Cpu
    <3>3. s.at = "store" => counted[s.field] \in Nat /\ counted'[s.field] \in Nat
                            /\ counted'[s.field] >= counted[s.field] /\ s.reg <= counted[s.field]
      BY <2>1, <3>1 DEF InPlace, RInv
    <3> QED
      BY <3>2, <3>3
  <2> QED
    BY <2>1, <2>2, <2>3 DEF InPlace, s
<1>3. r \in Cpu
  BY DEF InPlace
<1>4. \A o \in CPUs : cpu'[o] = IF o = c THEN r ELSE cpu[o]
  BY DEF RInv
<1> QED
  BY <1>2, <1>3, <1>4 DEF RInv

(* A step that touches no element.                                         *)
LEMMA QuietR ==
  ASSUME RInv, NEW c \in CPUs, NEW r, cpu' = [cpu EXCEPT ![c] = r],
         InPlace(r, Len(elems), counted),
         UNCHANGED <<flows, elems, counted>>, raced' \subseteq Calls
  PROVE  RInv'
<1>1. Len(elems) \in Nat /\ counted \in [Counters -> Nat]
  BY DEF RInv
<1>2. /\ cpu' \in [CPUs -> Cpu]
      /\ \A o \in CPUs : InPlace(cpu'[o], Len(elems'), counted')
  <2>1. /\ \A x \in Counters : counted'[x] >= counted[x]
        /\ Len(elems') \in Nat /\ Len(elems') >= Len(elems) /\ counted' \in [Counters -> Nat]
        /\ InPlace(r, Len(elems'), counted')
    BY <1>1
  <2> QED
    BY <1>1, <2>1, PlacesKept
<1> QED
  BY <1>2 DEF RInv, NothingInvented

(* A step that sets a flag of an element: the counters stay.               *)
LEMMA FlagR ==
  ASSUME RInv, NEW c \in CPUs, NEW r, cpu' = [cpu EXCEPT ![c] = r],
         InPlace(r, Len(elems), counted),
         NEW i \in 1..Len(elems), NEW e \in Elem, e.count = elems[i].count,
         elems' = [elems EXCEPT ![i] = e], UNCHANGED <<flows, counted, raced>>
  PROVE  /\ RInv'
         /\ \A j \in 1..Len(elems) : elems'[j].count = elems[j].count
<1>1. Len(elems) \in Nat /\ counted \in [Counters -> Nat] /\ elems \in Seq(Elem)
  BY DEF RInv
<1>2. /\ elems' \in Seq(Elem) /\ Len(elems') = Len(elems)
      /\ \A j \in 1..Len(elems) : elems'[j].count = elems[j].count
  BY <1>1
<1>3. /\ cpu' \in [CPUs -> Cpu]
      /\ \A o \in CPUs : InPlace(cpu'[o], Len(elems'), counted')
  <2>1. /\ \A x \in Counters : counted'[x] >= counted[x]
        /\ Len(elems') \in Nat /\ Len(elems') >= Len(elems) /\ counted' \in [Counters -> Nat]
        /\ InPlace(r, Len(elems'), counted')
    BY <1>1, <1>2
  <2> QED
    BY <2>1, PlacesKept
<1>4. NothingInvented'
  <2>1. DOMAIN elems' = 1..Len(elems) /\ DOMAIN elems = 1..Len(elems)
    BY <1>1, <1>2
  <2> QED
    BY <1>2, <2>1 DEF RInv, NothingInvented
<1>5. flows' \in 0..Len(elems') /\ (flows' = 0 => elems' = <<>> /\ counted' = Nothing)
  <2>1. flows \in 0..Len(elems) /\ (flows = 0 => Len(elems) = 0 /\ counted = Nothing)
    BY <1>1 DEF RInv
  <2> QED
    BY <1>1, <1>2, <2>1
<1> QED
  BY <1>1, <1>2, <1>3, <1>4, <1>5 DEF RInv

(* A probe starts.                                                         *)
LEMMA StartR ==
  ASSUME RInv, NEW c \in CPUs, NEW probe \in Calls \cup Tracepoints, NEW n \in Nat,
         Starts(c, probe, n), raced' \subseteq Calls
  PROVE  RInv'
<1> DEFINE r == [Idle EXCEPT !.at = "lookup", !.probe = probe, !.field = probe, !.n = n]
<1>1. cpu' = [cpu EXCEPT ![c] = r] /\ UNCHANGED <<flows, elems, counted>>
  BY DEF Starts
<1>2. r \in Cpu /\ r.at = "lookup" /\ r.field = r.probe
  BY Basics DEF Cpu, Places, Counters
<1> HIDE DEF r
<1>3. InPlace(r, Len(elems), counted)
  BY <1>2 DEF InPlace, Pointing
<1> QED
  BY <1>1, <1>3, QuietR

(* A lookup finds the entry, or not.                                       *)
LEMMA LookupR ==
  ASSUME RInv, NEW c \in CPUs, Lookup(c)
  PROVE  RInv'
<1> DEFINE s == cpu[c]
           g == [s EXCEPT !.f = flows, !.at = IF Kprobe(c) THEN "identity" ELSE "mark"]
           u == [s EXCEPT !.at = "update"]
<1>1. /\ cpu' = [cpu EXCEPT ![c] = g] /\ flows # 0
      \/ cpu' = [cpu EXCEPT ![c] = Idle]
      \/ cpu' = [cpu EXCEPT ![c] = u]
  BY DEF Lookup
<1>2. InPlace(s, Len(elems), counted) /\ s.at \in {"lookup", "again"} /\ UNCHANGED <<flows, elems, counted, raced>>
  BY DEF Lookup, RInv
<1>3. s \in Cpu /\ s.field = s.probe
  BY <1>2 DEF InPlace
<1>4. flows \in Nat /\ (flows # 0 => flows \in 1..Len(elems)) /\ raced' \subseteq Calls
  BY <1>2 DEF RInv
<1>5. Kprobe(c) <=> s.probe \in Calls
  BY DEF Kprobe
<1> HIDE DEF s
<1>6. /\ g \in Cpu /\ g.f = flows /\ g.probe = s.probe /\ g.field = s.field
      /\ g.at = IF Kprobe(c) THEN "identity" ELSE "mark"
  BY <1>3, <1>4 DEF Cpu, Places, Pointing
<1>7. u \in Cpu /\ u.probe = s.probe /\ u.field = s.field /\ u.at = "update"
  BY <1>3 DEF Cpu, Places
<1> HIDE DEF g, u
<1>8. flows # 0 => InPlace(g, Len(elems), counted)
  BY <1>3, <1>4, <1>5, <1>6 DEF InPlace
<1>9. InPlace(u, Len(elems), counted) /\ InPlace(Idle, Len(elems), counted)
  BY <1>3, <1>7, Basics DEF InPlace, Pointing
<1> QED
  BY <1>1, <1>2, <1>4, <1>8, <1>9, QuietR

(* An update puts a new element, without counts, in place of the entry.    *)
LEMMA UpdateR ==
  ASSUME RInv, NEW c \in CPUs, Update(c)
  PROVE  RInv'
<1> DEFINE s == cpu[c]
           r == [s EXCEPT !.at = "again"]
<1>1. cpu' = [cpu EXCEPT ![c] = r] /\ s.at = "update" /\ UNCHANGED <<counted, raced>>
  BY DEF Update
<1>2. InPlace(s, Len(elems), counted)
  BY DEF RInv
<1> HIDE DEF s
<1>3. r \in Cpu /\ r.at = "again" /\ r.probe = s.probe /\ r.field = s.field
  BY <1>2 DEF InPlace, Cpu, Places
<1> HIDE DEF r
<1>4. s.field = s.probe
  BY <1>1, <1>2 DEF InPlace
<1>5. \A len : InPlace(r, len, counted)
  BY <1>3, <1>4 DEF InPlace, Pointing
<1>6. CASE UNCHANGED <<flows, elems>>
  <2>1. raced' \subseteq Calls
    BY <1>1 DEF RInv
  <2> QED
    BY <1>1, <1>5, <1>6, <2>1, QuietR
<1>7. CASE elems' = Append(elems, zero) /\ flows' = Len(elems) + 1
  <2>1. Len(elems) \in Nat /\ counted \in [Counters -> Nat] /\ elems \in Seq(Elem)
    BY DEF RInv
  <2>2. /\ elems' \in Seq(Elem) /\ Len(elems') = Len(elems) + 1
        /\ DOMAIN elems = 1..Len(elems) /\ DOMAIN elems' = 1..(Len(elems) + 1)
        /\ \A i \in 1..Len(elems) : elems'[i] = elems[i]
        /\ elems'[Len(elems) + 1] = zero
    BY <1>7, <2>1, Basics
  <2>3. /\ cpu' \in [CPUs -> Cpu]
        /\ \A o \in CPUs : InPlace(cpu'[o], Len(elems'), counted')
    <3>1. /\ \A x \in Counters : counted'[x] >= counted[x]
          /\ Len(elems') \in Nat /\ Len(elems') >= Len(elems) /\ counted' \in [Counters -> Nat]
          /\ InPlace(r, Len(elems'), counted')
      BY <1>1, <1>5, <2>1, <2>2
    <3> QED
      BY <1>1, <3>1, PlacesKept
  <2>4. NothingInvented'
    <3> SUFFICES ASSUME NEW i \in 1..(Len(elems) + 1), NEW x \in Counters
                 PROVE  elems'[i].count[x] <= counted[x]
      BY <1>1, <2>2 DEF NothingInvented
    <3>1. CASE i = Len(elems) + 1
      BY <2>1, <2>2, <3>1 DEF zero, Nothing
    <3>2. CASE i \in 1..Len(elems)
      BY <2>2, <3>2 DEF RInv, NothingInvented
    <3> QED
      BY <2>1, <3>1, <3>2
  <2>5. flows' \in 0..Len(elems') /\ flows' # 0
    BY <1>7, <2>1, <2>2
  <2> QED
    BY <1>1, <2>1, <2>2, <2>3, <2>4, <2>5 DEF RInv
<1> QED
  BY <1>6, <1>7 DEF Update

(* A probe sets a flag of the element it points to: the identity, the      *)
(* direction, or that the connection is closed.                            *)
LEMMA FlagStep ==
  ASSUME RInv, NEW c \in CPUs, Backfill(c) \/ Mark(c)
  PROVE  /\ RInv' /\ UNCHANGED <<flows, counted, raced>>
         /\ \A j \in 1..Len(elems) : elems'[j].count = elems[j].count
         /\ \/ cpu' = [cpu EXCEPT ![c] = Idle]
            \/ cpu[c].at = "identity" /\ cpu' = [cpu EXCEPT ![c].at = "load"]
<1> DEFINE s == cpu[c]
           i == s.f
           r == [s EXCEPT !.at = "load"]
<1>1. InPlace(s, Len(elems), counted) /\ elems \in Seq(Elem)
  BY DEF RInv
<1>2. i \in 1..Len(elems) /\ elems[i] \in Elem
  <2>1. i \in 1..Len(elems)
    BY <1>1 DEF Backfill, Mark, InPlace, Pointing
  <2> QED
    BY <1>1, <2>1
<1>3. UNCHANGED <<flows, counted, raced>>
  BY DEF Backfill, Mark
<1>4. CASE Backfill(c)
  <2> DEFINE e == [elems[i] EXCEPT !.pid = TRUE]
  <2>1. /\ elems' = [elems EXCEPT ![i] = e] /\ cpu' = [cpu EXCEPT ![c] = r] /\ s.at = "identity"
        /\ cpu' = [cpu EXCEPT ![c].at = "load"]
    BY <1>4 DEF Backfill
  <2>2. e \in Elem /\ e.count = elems[i].count
    BY <1>2 DEF Elem
  <2> HIDE DEF s
  <2>3. r \in Cpu /\ r.at = "load" /\ r.probe = s.probe /\ r.field = s.field /\ r.f = s.f
    BY <1>1 DEF InPlace, Cpu, Places, Pointing
  <2> HIDE DEF r, e
  <2>4. InPlace(r, Len(elems), counted)
    <3>1. s.field = s.probe /\ s.probe \in Calls /\ r.field # Cnt(r.probe)
      BY <1>1, <2>1, <2>3, Basics DEF InPlace
    <3> QED
      BY <1>2, <2>3, <3>1 DEF InPlace, Pointing
  <2> HIDE DEF i
  <2> QED
    BY <1>2, <1>3, <2>1, <2>2, <2>4, FlagR DEF s
<1>5. CASE Mark(c)
  <2> DEFINE d == [elems[i] EXCEPT !.direction = TRUE]
             e == [elems[i] EXCEPT !.closed = TRUE]
  <2>1. /\ elems' = [elems EXCEPT ![i] = d] \/ elems' = [elems EXCEPT ![i] = e]
        /\ cpu' = [cpu EXCEPT ![c] = Idle]
    BY <1>5 DEF Mark
  <2>2. e \in Elem /\ e.count = elems[i].count /\ d \in Elem /\ d.count = elems[i].count
    BY <1>2 DEF Elem
  <2>3. InPlace(Idle, Len(elems), counted)
    BY Basics DEF InPlace, Pointing
  <2> HIDE DEF d, e, s, i
  <2> QED
    BY <1>2, <1>3, <2>1, <2>2, <2>3, FlagR
<1> QED
  BY <1>4, <1>5

(* A load takes a value that was added, and a test of the budget nothing.  *)
LEMMA LoadR ==
  ASSUME RInv, NEW c \in CPUs, Load(c)
  PROVE  RInv'
<1> DEFINE s == cpu[c]
           v == elems[s.f].count[s.field]
           r == [s EXCEPT !.at = "store", !.reg = v]
<1>1. cpu' = [cpu EXCEPT ![c] = r] /\ s.at = "load" /\ UNCHANGED <<flows, elems, counted, raced>>
  BY DEF Load
<1>2. InPlace(s, Len(elems), counted) /\ elems \in Seq(Elem) /\ raced' \subseteq Calls
  BY <1>1 DEF RInv
<1>3. s.f \in 1..Len(elems) /\ s.probe \in Calls /\ s.field \in Counters
  BY <1>1, <1>2, Basics DEF InPlace, Pointing
<1>4. v \in Nat /\ v <= counted[s.field]
  <2>1. elems[s.f] \in Elem /\ s.f \in DOMAIN elems
    BY <1>2, <1>3
  <2> QED
    BY <1>3, <2>1 DEF Elem, RInv, NothingInvented
<1> HIDE DEF s, v
<1>5. /\ r \in Cpu /\ r.at = "store" /\ r.reg = v /\ r.probe = s.probe /\ r.field = s.field
      /\ r.f = s.f /\ r.n = s.n
  BY <1>2, <1>4 DEF InPlace, Cpu, Places, Pointing
<1> HIDE DEF r
<1>6. InPlace(r, Len(elems), counted)
  <2>1. s.field \in {s.probe, Cnt(s.probe)} /\ (s.field = Cnt(s.probe) => s.n = 1)
    BY <1>1, <1>2, <1>3 DEF InPlace
  <2> QED
    BY <1>3, <1>4, <1>5, <2>1 DEF InPlace, Pointing
<1> QED
  BY <1>1, <1>2, <1>6, QuietR

(* A store writes no more than has been added with it.                     *)
LEMMA StoreR ==
  ASSUME RInv, NEW c \in CPUs, Store(c)
  PROVE  /\ RInv' /\ cpu[c].field \in Counters /\ cpu[c].n \in Nat /\ cpu[c].f \in 1..Len(elems)
         /\ \A i \in 1..Len(elems), y \in Counters :
              elems'[i].count[y] = IF i = cpu[c].f /\ y = cpu[c].field THEN cpu[c].reg + cpu[c].n
                                   ELSE elems[i].count[y]
         /\ \A y \in Counters :
              counted'[y] = IF y = cpu[c].field THEN counted[y] + cpu[c].n ELSE counted[y]
<1> DEFINE s == cpu[c]
           x == s.field
           v == s.reg + s.n
           r == IF s.field \in Calls THEN [s EXCEPT !.at = "budget"] ELSE Idle
<1>1. /\ cpu' = [cpu EXCEPT ![c] = r] /\ s.at = "store" /\ UNCHANGED <<flows, raced>>
      /\ counted' = [counted EXCEPT ![x] = @ + s.n]
      /\ elems' = [elems EXCEPT ![s.f] = [elems[s.f] EXCEPT !.count = [elems[s.f].count EXCEPT ![x] = v]]]
  BY DEF Store, Stored
<1>2. InPlace(s, Len(elems), counted) /\ elems \in Seq(Elem) /\ counted \in [Counters -> Nat]
  BY DEF RInv
<1>3. /\ s.f \in 1..Len(elems) /\ s.probe \in Calls /\ x \in Counters
      /\ x \in {s.probe, Cnt(s.probe)} /\ s.reg <= counted[x]
  BY <1>1, <1>2, Basics DEF InPlace, Pointing
<1>4. s.reg \in Nat /\ s.n \in Nat /\ s \in Cpu /\ counted[x] \in Nat
  BY <1>2, <1>3 DEF InPlace, Cpu
<1> HIDE DEF s, x
<1>5. /\ counted' \in [Counters -> Nat] /\ counted'[x] = counted[x] + s.n
      /\ \A y \in Counters : y # x => counted'[y] = counted[y]
      /\ \A y \in Counters : counted'[y] >= counted[y]
  BY <1>1, <1>2, <1>3, <1>4
<1>6. v \in Nat /\ v <= counted'[x]
  BY <1>3, <1>4, <1>5
<1> HIDE DEF v
<1> DEFINE old == elems[s.f]
           K == [old.count EXCEPT ![x] = v]
           new == [old EXCEPT !.count = K]
<1>7. old \in Elem /\ old.count \in [Counters -> Nat]
  <2>1. old \in Elem
    BY <1>2, <1>3
  <2> QED
    BY <2>1 DEF Elem
<1>8. elems' = [elems EXCEPT ![s.f] = new]
  BY <1>1
<1> HIDE DEF old
<1>9. K \in [Counters -> Nat] /\ \A y \in Counters : K[y] = IF y = x THEN v ELSE old.count[y]
  BY <1>3, <1>6, <1>7
<1> HIDE DEF K
<1>10. new \in Elem /\ new.count = K
  BY <1>7, <1>9 DEF Elem
<1> HIDE DEF new
<1>11. /\ elems' \in Seq(Elem) /\ Len(elems') = Len(elems) /\ Len(elems) \in Nat
       /\ DOMAIN elems = 1..Len(elems) /\ DOMAIN elems' = 1..Len(elems)
       /\ \A i \in 1..Len(elems) : elems'[i] = IF i = s.f THEN new ELSE elems[i]
  BY <1>2, <1>3, <1>8, <1>10
<1>12. InPlace(r, Len(elems), counted')
  <2>1. CASE x \notin Calls
    BY <2>1, Basics DEF InPlace, Pointing, x
  <2>2. CASE x \in Calls
    <3> DEFINE q == [s EXCEPT !.at = "budget"]
    <3>1. q \in Cpu /\ q.at = "budget" /\ q.f = s.f /\ q.probe = s.probe /\ q.field = x
      BY <1>4 DEF Cpu, Places, Pointing, x
    <3>2. x = s.probe
      BY <1>3, <2>2, Basics
    <3> HIDE DEF q
    <3>3. InPlace(q, Len(elems), counted')
      BY <1>3, <3>1, <3>2 DEF InPlace, Pointing
    <3> QED
      BY <2>2, <3>3 DEF q, x
  <2> QED
    BY <2>1, <2>2
<1>13. /\ cpu' \in [CPUs -> Cpu]
       /\ \A o \in CPUs : InPlace(cpu'[o], Len(elems'), counted')
  <2>1. Len(elems') \in Nat /\ Len(elems') >= Len(elems) /\ InPlace(r, Len(elems'), counted')
    BY <1>11, <1>12
  <2> HIDE DEF r
  <2> QED
    BY <1>1, <1>5, <2>1, PlacesKept
<1>14. NothingInvented'
  <2> SUFFICES ASSUME NEW i \in 1..Len(elems), NEW y \in Counters
               PROVE  elems'[i].count[y] <= counted'[y]
    BY <1>11 DEF NothingInvented
  <2>1. elems[i].count[y] \in Nat /\ elems[i].count[y] <= counted[y]
    <3>1. elems[i] \in Elem /\ i \in DOMAIN elems
      BY <1>2, <1>11
    <3> QED
      BY <3>1 DEF Elem, RInv, NothingInvented
  <2>2. counted[y] \in Nat /\ counted'[y] \in Nat /\ counted'[y] >= counted[y]
    BY <1>2, <1>5
  <2>3. (elems'[i].count[y] = v /\ y = x) \/ elems'[i].count[y] = elems[i].count[y]
    BY <1>9, <1>10, <1>11 DEF old
  <2> QED
    BY <1>6, <2>1, <2>2, <2>3
<1>15. flows' \in 0..Len(elems') /\ flows' # 0
  <2>1. flows # 0 /\ flows \in 0..Len(elems)
    <3>1. flows = 0 => Len(elems) = 0
      BY DEF RInv
    <3> QED
      BY <1>3, <1>11, <3>1 DEF RInv
  <2> QED
    BY <1>1, <1>11, <2>1
<1>16. RInv'
  BY <1>1, <1>5, <1>11, <1>13, <1>14, <1>15 DEF RInv
<1>17. \A i \in 1..Len(elems), y \in Counters :
         elems'[i].count[y] = IF i = s.f /\ y = x THEN v ELSE elems[i].count[y]
  BY <1>9, <1>10, <1>11 DEF old
<1>18. \A y \in Counters : counted'[y] = IF y = x THEN counted[y] + s.n ELSE counted[y]
  BY <1>5
<1> QED
  BY <1>3, <1>4, <1>16, <1>17, <1>18 DEF s, x, v

(* The test of the budget ends the probe or goes on to the counter.        *)
LEMMA BudgetR ==
  ASSUME RInv, NEW c \in CPUs, NEW ok, capture_wire(c, ok)
  PROVE  RInv'
<1> DEFINE s == cpu[c]
           cnt == Cnt(s.probe)
           r == [s EXCEPT !.at = "load", !.field = cnt, !.n = 1]
<1>1. /\ cpu' = [cpu EXCEPT ![c] = r] \/ cpu' = [cpu EXCEPT ![c] = Idle]
      /\ s.at = "budget" /\ UNCHANGED <<flows, elems, counted, raced>>
  BY DEF capture_wire
<1>2. InPlace(s, Len(elems), counted) /\ raced' \subseteq Calls
  BY <1>1 DEF RInv
<1>3. s \in Cpu /\ s.f \in 1..Len(elems) /\ s.probe \in Calls /\ cnt \in Counters
  BY <1>1, <1>2, Basics DEF InPlace, Pointing
<1> HIDE DEF s, cnt
<1>4. r \in Cpu /\ r.at = "load" /\ r.field = cnt /\ r.n = 1 /\ r.probe = s.probe /\ r.f = s.f
  BY <1>3 DEF Cpu, Places, Pointing
<1> HIDE DEF r
<1>5. InPlace(r, Len(elems), counted) /\ InPlace(Idle, Len(elems), counted)
  BY <1>3, <1>4, Basics DEF InPlace, Pointing, cnt
<1> QED
  BY <1>1, <1>2, <1>5, QuietR

(* Every step keeps the first half of the invariant.                       *)
LEMMA NextR == RInv /\ [Next]_vars => RInv'
<1> SUFFICES ASSUME RInv, [Next]_vars PROVE RInv'
  OBVIOUS
<1>1. ASSUME NEW c \in CPUs, NEW call \in Calls, NEW n \in Sizes, StartCall(c, call, n) PROVE RInv'
  <2>1. n \in Nat
    BY RaceAssumption
  <2>2. Starts(c, call, n) /\ raced' \subseteq Calls
    BY <1>1 DEF StartCall, Clash, RInv
  <2> QED
    BY <2>1, <2>2, StartR
<1>2. ASSUME NEW c \in CPUs, NEW tp \in Tracepoints, StartTracepoint(c, tp) PROVE RInv'
  <2>1. Starts(c, tp, 0) /\ raced' \subseteq Calls
    BY <1>2 DEF StartTracepoint, RInv
  <2> QED
    BY <2>1, StartR
<1>3. CASE UNCHANGED vars
  BY <1>3 DEF vars, RInv, NothingInvented
<1>4. CASE Next
  BY <1>1, <1>2, <1>4, LookupR, UpdateR, FlagStep, LoadR, StoreR, BudgetR DEF Next
<1> QED
  BY <1>3, <1>4

(* Every probe is in its place at the start.                               *)
LEMMA InitR == Init => RInv
<1> SUFFICES ASSUME Init PROVE RInv
  OBVIOUS
<1>1. /\ flows = 0 /\ elems = <<>> /\ cpu = [c \in CPUs |-> Idle]
      /\ counted = Nothing /\ raced = {}
  BY DEF Init
<1>2. elems \in Seq(Elem) /\ Len(elems) = 0 /\ DOMAIN elems = {} /\ flows \in 0..Len(elems)
  BY <1>1
<1>3. InPlace(Idle, Len(elems), counted)
  BY Basics DEF InPlace, Pointing
<1>4. cpu \in [CPUs -> Cpu] /\ \A c \in CPUs : cpu[c] = Idle
  BY <1>1, Basics
<1> QED
  BY <1>1, <1>2, <1>3, <1>4, Basics DEF RInv, NothingInvented

(* Whatever the probes on different CPUs do to each other, they lose       *)
(* counts and make none up: no element ever shows more bytes, or more      *)
(* captures, than were added.                                              *)
THEOREM NoCountInvented == Spec => []NothingInvented
<1>1. RInv => NothingInvented
  BY DEF RInv
<1> QED
  BY <1>1, InitR, NextR, PTL DEF Spec
-----------------------------------------------------------------------------
(* The directions that are not raced.                                      *)

(* What CInv asks of CPU c when it goes to the state r.                    *)
Proper(c, r) ==
  /\ r.probe \in Calls => r.probe = cpu[c].probe
  /\ raced # Calls /\ r.probe \in Calls =>
       /\ r.at \in Pointing => r.f = flows
       /\ r.at = "update" => counted = Nothing /\ Alone(c)
  /\ r.probe \in Calls \ raced =>
       /\ r.at = "store" => r.reg = counted[r.field]
       /\ r.at \in {"load", "store"} /\ r.field = Cnt(r.probe) => counted[Cnt(r.probe)] < MaxWireEvents

(* A step that changes no counter keeps it.                                *)
LEMMA QuietC ==
  ASSUME RInv, CInv, NEW c \in CPUs, NEW r, cpu' = [cpu EXCEPT ![c] = r], Proper(c, r),
         UNCHANGED <<flows, counted, raced>>,
         \A i \in 1..Len(elems) : elems'[i].count = elems[i].count
  PROVE  CInv'
<1>1. \A o \in CPUs : cpu'[o] = IF o = c THEN r ELSE cpu[o]
  BY DEF RInv
<1>2. \A o \in CPUs : Kprobe(o)' => Kprobe(o)
  BY <1>1 DEF Kprobe, Proper
<1>3. \A o \in CPUs : Alone(o) => Alone(o)'
  BY <1>2 DEF Alone
<1>4. Sharing'
  <2> SUFFICES ASSUME raced # Calls, NEW o \in CPUs, Kprobe(o)'
               PROVE  /\ cpu'[o].at \in Pointing => cpu'[o].f = flows
                      /\ cpu'[o].at = "update" => counted = Nothing /\ Alone(o)'
                      /\ flows = 0 => Alone(o)'
    BY DEF Sharing
  <2>1. CASE o = c
    BY <1>1, <1>2, <1>3, <2>1 DEF Proper, CInv, Sharing, Kprobe
  <2>2. CASE o # c
    BY <1>1, <1>2, <1>3, <2>2 DEF CInv, Sharing
  <2> QED
    BY <2>1, <2>2
<1>5. ASSUME NEW call \in Calls \ raced PROVE Clean(call)'
  <2>1. Clean(call)
    BY DEF CInv
  <2>2. flows # 0 => flows \in 1..Len(elems)
    BY DEF RInv
  <2>3. flows # 0 => \A x \in {call, Cnt(call)} : elems'[flows].count[x] = counted[x]
    BY <2>1, <2>2 DEF Clean
  <2>4. \A o, p \in CPUs : cpu'[o].probe = call /\ cpu'[p].probe = call => o = p
    BY <1>1, <2>1 DEF Clean, Proper
  <2>5. ASSUME NEW o \in CPUs, cpu'[o].probe = call
        PROVE  /\ cpu'[o].at = "store" => cpu'[o].reg = counted[cpu'[o].field]
               /\ cpu'[o].at \in {"load", "store"} /\ cpu'[o].field = Cnt(call) =>
                    counted[Cnt(call)] < MaxWireEvents
    BY <1>1, <2>1, <2>5 DEF Clean, Proper
  <2> QED
    BY <2>1, <2>3, <2>4, <2>5 DEF Clean
<1> QED
  BY <1>4, <1>5 DEF CInv

(* A CPU that is done with its probe asks for nothing, nor does the        *)
(* tracepoint.                                                             *)
LEMMA OtherC ==
  ASSUME NEW c, NEW r, r.probe \notin Calls
  PROVE  Proper(c, r)
BY DEF Proper

(* A lookup leaves the probe with the map's element, or, where there is    *)
(* none, on its own.                                                       *)
LEMMA LookupC ==
  ASSUME RInv, CInv, NEW c \in CPUs, Lookup(c)
  PROVE  CInv'
<1> DEFINE s == cpu[c]
           g == [s EXCEPT !.f = flows, !.at = IF Kprobe(c) THEN "identity" ELSE "mark"]
           u == [s EXCEPT !.at = "update"]
<1>1. \/ cpu' = [cpu EXCEPT ![c] = g]
      \/ cpu' = [cpu EXCEPT ![c] = Idle]
      \/ cpu' = [cpu EXCEPT ![c] = u] /\ flows = 0
  BY DEF Lookup
<1>2. UNCHANGED <<flows, elems, counted, raced>> /\ s \in Cpu
  BY DEF Lookup, RInv
<1>3. flows = 0 => counted = Nothing /\ (raced # Calls /\ s.probe \in Calls => Alone(c))
  BY DEF RInv, CInv, Sharing, Kprobe
<1>4. Kprobe(c) <=> s.probe \in Calls
  BY DEF Kprobe
<1>5. /\ g.probe = s.probe /\ g.f = flows
      /\ g.at = IF Kprobe(c) THEN "identity" ELSE "mark"
  BY <1>2 DEF Cpu
<1>6. u.probe = s.probe /\ u.at = "update"
  BY <1>2 DEF Cpu
<1> HIDE DEF g, u
<1>7. Proper(c, g) /\ Proper(c, Idle) /\ (flows = 0 => Proper(c, u))
  <2>1. Proper(c, Idle)
    BY Basics, OtherC
  <2>2. Proper(c, g)
    BY <1>4, <1>5 DEF Proper
  <2>3. flows = 0 => Proper(c, u)
    BY <1>3, <1>6 DEF Proper, Pointing
  <2> QED
    BY <2>1, <2>2, <2>3
<1> QED
  BY <1>1, <1>2, <1>7, QuietC

(* A flag is set: the probe keeps its element, or is done.                 *)
LEMMA FlagC ==
  ASSUME RInv, CInv, NEW c \in CPUs, Backfill(c) \/ Mark(c)
  PROVE  CInv'
<1> DEFINE s == cpu[c]
           r == [s EXCEPT !.at = "load"]
<1>1. /\ UNCHANGED <<flows, counted, raced>>
      /\ \A j \in 1..Len(elems) : elems'[j].count = elems[j].count
      /\ \/ cpu' = [cpu EXCEPT ![c] = Idle]
         \/ s.at = "identity" /\ cpu' = [cpu EXCEPT ![c] = r]
  BY FlagStep
<1>2. InPlace(s, Len(elems), counted)
  BY DEF RInv
<1>3. s.probe \in Calls /\ raced # Calls /\ s.at \in Pointing => s.f = flows
  BY DEF CInv, Sharing, Kprobe
<1> HIDE DEF s
<1>4. r.at = "load" /\ r.probe = s.probe /\ r.f = s.f /\ r.field = s.field
  BY <1>2 DEF InPlace, Cpu
<1> HIDE DEF r
<1>5. s.at = "identity" => Proper(c, r)
  <2>1. s.at = "identity" => s.probe \in Calls /\ s.field = s.probe
    BY <1>2 DEF InPlace
  <2>2. s.at = "identity" => r.field # Cnt(r.probe)
    BY <1>4, <2>1, Basics
  <2> QED
    BY <1>3, <1>4, <2>1, <2>2 DEF Proper, Pointing, s
<1> QED
  BY <1>1, <1>5, Basics, OtherC, QuietC

(* A load through the map's element takes what has been added.             *)
LEMMA LoadC ==
  ASSUME RInv, CInv, NEW c \in CPUs, Load(c)
  PROVE  CInv'
<1> DEFINE s == cpu[c]
           v == elems[s.f].count[s.field]
           r == [s EXCEPT !.at = "store", !.reg = v]
<1>1. cpu' = [cpu EXCEPT ![c] = r] /\ s.at = "load" /\ UNCHANGED <<flows, elems, counted, raced>>
  BY DEF Load
<1>2. InPlace(s, Len(elems), counted)
  BY DEF RInv
<1>3. s.probe \in Calls /\ s.f \in 1..Len(elems) /\ s.field \in {s.probe, Cnt(s.probe)}
  BY <1>1, <1>2 DEF InPlace, Pointing
<1>4. raced # Calls => s.f = flows
  BY <1>1, <1>3 DEF CInv, Sharing, Kprobe, Pointing
<1>5. s.probe \notin raced =>
        /\ v = counted[s.field]
        /\ s.field = Cnt(s.probe) => counted[Cnt(s.probe)] < MaxWireEvents
  <2> SUFFICES ASSUME s.probe \notin raced
               PROVE  /\ v = counted[s.field]
                      /\ s.field = Cnt(s.probe) => counted[Cnt(s.probe)] < MaxWireEvents
    OBVIOUS
  <2>1. Clean(s.probe) /\ raced # Calls
    BY <1>3 DEF CInv
  <2>2. flows # 0 /\ s.f = flows
    BY <1>3, <1>4, <2>1 DEF RInv
  <2> QED
    BY <1>1, <1>3, <2>1, <2>2 DEF Clean
<1> HIDE DEF v
<1>6. r.at = "store" /\ r.reg = v /\ r.probe = s.probe /\ r.field = s.field /\ r.f = s.f
  BY <1>2 DEF InPlace, Cpu
<1> HIDE DEF r
<1>7. Proper(c, r)
  BY <1>3, <1>4, <1>5, <1>6 DEF Proper
<1> QED
  BY <1>1, <1>7, QuietC

(* The budget is tested on what has been submitted.                        *)
LEMMA BudgetC ==
  ASSUME RInv, CInv, NEW c \in CPUs, NEW ok, capture_wire(c, ok)
  PROVE  CInv'
<1> DEFINE s == cpu[c]
           cnt == Cnt(s.probe)
           r == [s EXCEPT !.at = "load", !.field = cnt, !.n = 1]
<1>1. /\ \/ cpu' = [cpu EXCEPT ![c] = r] /\ elems[s.f].count[cnt] < MaxWireEvents
         \/ cpu' = [cpu EXCEPT ![c] = Idle]
      /\ s.at = "budget" /\ UNCHANGED <<flows, elems, counted, raced>>
  BY DEF capture_wire
<1>2. InPlace(s, Len(elems), counted)
  BY DEF RInv
<1>3. s.probe \in Calls /\ s.f \in 1..Len(elems)
  BY <1>1, <1>2 DEF InPlace, Pointing
<1>4. raced # Calls => s.f = flows
  BY <1>1, <1>3 DEF CInv, Sharing, Kprobe, Pointing
<1>5. s.probe \notin raced => elems[s.f].count[cnt] = counted[cnt]
  <2> SUFFICES ASSUME s.probe \notin raced PROVE elems[s.f].count[cnt] = counted[cnt]
    OBVIOUS
  <2>1. Clean(s.probe) /\ raced # Calls
    BY <1>3 DEF CInv
  <2>2. flows # 0 /\ s.f = flows
    BY <1>3, <1>4, <2>1 DEF RInv
  <2> QED
    BY <2>1, <2>2 DEF Clean
<1> HIDE DEF cnt
<1>6. r.at = "load" /\ r.probe = s.probe /\ r.field = cnt /\ r.f = s.f
  BY <1>2 DEF InPlace, Cpu
<1> HIDE DEF r
<1>7. elems[s.f].count[cnt] < MaxWireEvents => Proper(c, r)
  BY <1>3, <1>4, <1>5, <1>6 DEF Proper, cnt
<1> QED
  BY <1>1, <1>7, Basics, OtherC, QuietC

(* A call whose probe starts while another's is in its way is raced.       *)
LEMMA StartC ==
  ASSUME RInv, CInv, NEW c \in CPUs, NEW call \in Calls, NEW n, StartCall(c, call, n)
  PROVE  CInv'
<1> DEFINE r == [Idle EXCEPT !.at = "lookup", !.probe = call, !.field = call, !.n = n]
<1>1. /\ cpu' = [cpu EXCEPT ![c] = r] /\ UNCHANGED <<flows, elems, counted>>
      /\ raced' = raced \cup Clash(c, call) /\ cpu[c] = Idle
  BY DEF StartCall, Starts
<1>2. r.at = "lookup" /\ r.probe = call
  BY DEF Idle
<1> HIDE DEF r
<1>3. \A o \in CPUs : cpu'[o] = IF o = c THEN r ELSE cpu[o]
  BY <1>1 DEF RInv
<1>4. Clash(c, call) # Calls =>
        \A o \in CPUs : o # c /\ Kprobe(o) => flows # 0 /\ cpu[o].at # "update"
  BY DEF Clash
<1>5. call \notin Clash(c, call) => \A o \in CPUs : cpu[o].probe = call => o = c
  BY DEF Clash, Kprobe
<1>6. raced \subseteq Calls /\ Clash(c, call) \subseteq Calls
  BY DEF RInv, Clash
<1>7. Sharing'
  <2> SUFFICES ASSUME raced' # Calls, NEW o \in CPUs, Kprobe(o)'
               PROVE  /\ cpu'[o].at \in Pointing => cpu'[o].f = flows
                      /\ cpu'[o].at # "update"
                      /\ flows = 0 => Alone(o)'
    BY <1>1 DEF Sharing
  <2>1. raced # Calls /\ Clash(c, call) # Calls
    BY <1>1, <1>6
  <2>2. \A p \in CPUs : Kprobe(p)' /\ p # c => Kprobe(p)
    BY <1>3 DEF Kprobe
  <2>3. flows = 0 => \A p \in CPUs : Kprobe(p)' => p = c
    BY <1>4, <2>1, <2>2
  <2>4. CASE o = c
    BY <1>2, <1>3, <2>3, <2>4 DEF Pointing, Alone
  <2>5. CASE o # c
    BY <1>3, <1>4, <2>1, <2>2, <2>3, <2>5 DEF CInv, Sharing
  <2> QED
    BY <2>4, <2>5
<1>8. ASSUME NEW k \in Calls \ raced' PROVE Clean(k)'
  <2>1. k \in Calls \ raced /\ k \notin Clash(c, call) /\ Clean(k)
    BY <1>1 DEF CInv
  <2>2. \A o, p \in CPUs : cpu'[o].probe = k /\ cpu'[p].probe = k => o = p
    BY <1>2, <1>3, <1>5, <2>1 DEF Clean
  <2>3. ASSUME NEW o \in CPUs, cpu'[o].probe = k
        PROVE  /\ cpu'[o].at = "store" => cpu'[o].reg = counted[cpu'[o].field]
               /\ cpu'[o].at \in {"load", "store"} /\ cpu'[o].field = Cnt(k) =>
                    counted[Cnt(k)] < MaxWireEvents
    BY <1>2, <1>3, <2>1, <2>3 DEF Clean
  <2> QED
    BY <1>1, <2>1, <2>2, <2>3 DEF Clean
<1> QED
  BY <1>7, <1>8 DEF CInv

(* A call that makes the entry is alone, and nothing is counted before it; *)
(* the tracepoint makes one only where there is none.                      *)
LEMMA UpdateC ==
  ASSUME RInv, CInv, NEW c \in CPUs, Update(c)
  PROVE  CInv'
<1> DEFINE s == cpu[c]
           r == [s EXCEPT !.at = "again"]
<1>1. cpu' = [cpu EXCEPT ![c] = r] /\ s.at = "update" /\ UNCHANGED <<counted, raced>>
  BY DEF Update
<1>2. s \in Cpu /\ (Kprobe(c) <=> s.probe \in Calls)
  BY DEF RInv, Kprobe
<1>3. r.at = "again" /\ r.probe = s.probe
  BY <1>2 DEF Cpu
<1> HIDE DEF r
<1>4. Proper(c, r)
  BY <1>3 DEF Proper, Pointing
<1>5. CASE UNCHANGED <<flows, elems>>
  BY <1>1, <1>4, <1>5, QuietC
<1>6. CASE raced = Calls
  BY <1>1, <1>6 DEF CInv, Sharing
<1>7. CASE raced # Calls /\ (Kprobe(c) \/ flows = 0)
           /\ elems' = Append(elems, zero) /\ flows' = Len(elems) + 1
  <2>1. \A o \in CPUs : cpu'[o] = IF o = c THEN r ELSE cpu[o]
    BY <1>1 DEF RInv
  <2>2. \A o \in CPUs : Kprobe(o)' <=> Kprobe(o)
    BY <1>3, <2>1 DEF Kprobe
  <2>3. counted = Nothing
    BY <1>1, <1>7 DEF RInv, CInv, Sharing
  <2>4. \A o \in CPUs : Kprobe(o) /\ o # c => flows = 0
    BY <1>1, <1>7 DEF CInv, Sharing, Alone
  <2>5. \A o \in CPUs : Kprobe(o) /\ o # c => cpu[o].at \notin Pointing
    <3>1. flows = 0 => Len(elems) = 0
      BY DEF RInv
    <3>2. \A o \in CPUs : cpu[o].at \in Pointing => cpu[o].f \in 1..Len(elems)
      BY DEF RInv, InPlace
    <3> QED
      BY <2>4, <3>1, <3>2
  <2>6. flows' # 0 /\ elems'[flows'].count = Nothing
    <3>1. Len(elems) \in Nat /\ elems \in Seq(Elem)
      BY DEF RInv
    <3>2. flows' # 0 /\ elems'[flows'] = zero
      BY <1>7, <3>1
    <3> QED
      BY <3>2 DEF zero
  <2>7. Sharing'
    <3> SUFFICES ASSUME NEW o \in CPUs, Kprobe(o)'
                 PROVE  /\ cpu'[o].at \notin Pointing
                        /\ cpu'[o].at = "update" => counted' = Nothing /\ Alone(o)'
      BY <2>6 DEF Sharing
    <3>1. CASE o = c
      BY <1>3, <2>1, <3>1 DEF Pointing
    <3>2. CASE o # c
      BY <1>1, <1>7, <2>1, <2>2, <2>3, <2>5, <3>2 DEF CInv, Sharing, Alone
    <3> QED
      BY <3>1, <3>2
  <2>8. ASSUME NEW k \in Calls \ raced PROVE Clean(k)'
    <3>1. Clean(k)
      BY DEF CInv
    <3>2. \A o, p \in CPUs : cpu'[o].probe = k /\ cpu'[p].probe = k => o = p
      BY <1>3, <2>1, <3>1 DEF Clean
    <3>3. ASSUME NEW o \in CPUs, cpu'[o].probe = k
          PROVE  /\ cpu'[o].at = "store" => cpu'[o].reg = counted[cpu'[o].field]
                 /\ cpu'[o].at \in {"load", "store"} /\ cpu'[o].field = Cnt(k) =>
                      counted[Cnt(k)] < MaxWireEvents
      BY <1>3, <2>1, <3>1, <3>3 DEF Clean
    <3> QED
      BY <1>1, <2>3, <2>6, <3>1, <3>2, <3>3 DEF Clean
  <2> QED
    BY <1>1, <2>7, <2>8 DEF CInv
<1> QED
  BY <1>5, <1>6, <1>7 DEF Update

(* A store of a direction that is not raced puts into the map's element    *)
(* what has been added, and leaves the other direction's counters alone.   *)
LEMMA StoreC ==
  ASSUME RInv, CInv, NEW c \in CPUs, Store(c)
  PROVE  CInv'
<1> DEFINE s == cpu[c]
           x == s.field
           r == IF s.field \in Calls THEN [s EXCEPT !.at = "budget"] ELSE Idle
<1>1. cpu' = [cpu EXCEPT ![c] = r] /\ s.at = "store" /\ UNCHANGED <<flows, raced>>
  BY DEF Store, Stored
<1>2. InPlace(s, Len(elems), counted)
  BY DEF RInv
<1>3. s.f \in 1..Len(elems) /\ s.probe \in Calls /\ x \in {s.probe, Cnt(s.probe)}
  BY <1>1, <1>2 DEF InPlace, Pointing
<1>4. CASE raced = Calls
  BY <1>1, <1>4 DEF CInv, Sharing
<1>5. CASE raced # Calls
  <2>1. s.f = flows /\ flows # 0
    BY <1>1, <1>3, <1>5 DEF CInv, Sharing, Kprobe, Pointing
  <2>2. \/ r.probe = s.probe /\ r.at = "budget" /\ r.f = s.f
        \/ r.probe \notin Calls
    BY <1>2, Basics DEF InPlace, Cpu
  <2>3. /\ \A y \in Counters : elems'[flows].count[y] =
              IF y = x THEN s.reg + s.n ELSE elems[flows].count[y]
        /\ \A y \in Counters : counted'[y] = IF y = x THEN counted[y] + s.n ELSE counted[y]
    BY <1>3, <2>1, StoreR
  <2> HIDE DEF r
  <2>4. \A o \in CPUs : cpu'[o] = IF o = c THEN r ELSE cpu[o]
    BY <1>1 DEF RInv
  <2>5. \A o \in CPUs : Kprobe(o)' => Kprobe(o)
    BY <1>3, <2>4 DEF Kprobe
  <2>6. \A o \in CPUs : Kprobe(o) => cpu[o].at # "update"
    BY <1>1, <1>3, <1>5 DEF CInv, Sharing, Alone, Kprobe
  <2>7. Sharing'
    <3> SUFFICES ASSUME NEW o \in CPUs, Kprobe(o)'
                 PROVE  /\ cpu'[o].at \in Pointing => cpu'[o].f = flows
                        /\ cpu'[o].at # "update"
      BY <1>1, <2>1 DEF Sharing
    <3>1. CASE o = c
      BY <2>1, <2>2, <2>4, <3>1 DEF Kprobe
    <3>2. CASE o # c
      BY <1>5, <2>4, <2>5, <2>6, <3>2 DEF CInv, Sharing
    <3> QED
      BY <3>1, <3>2
  <2>8. ASSUME NEW k \in Calls \ raced PROVE Clean(k)'
    <3>1. Clean(k)
      BY DEF CInv
    <3>2. \A o, p \in CPUs : cpu'[o].probe = k /\ cpu'[p].probe = k => o = p
      BY <1>3, <2>2, <2>4, <3>1 DEF Clean
    <3>3. CASE k = s.probe
      <4>1. s.reg = counted[x] /\ counted[x] \in Nat /\ s.n \in Nat
        <5>1. counted \in [Counters -> Nat]
          BY DEF RInv
        <5> QED
          BY <1>1, <1>3, <3>1, <3>3, <5>1, StoreR DEF Clean
      <4>2. \A y \in {k, Cnt(k)} : elems'[flows].count[y] = counted'[y]
        BY <2>1, <2>3, <3>1, <3>3, <4>1, Basics DEF Clean
      <4>3. counted'[Cnt(k)] <= MaxWireEvents
        <5>1. CASE x = Cnt(k)
          <6>1. s.n = 1 /\ counted[x] < MaxWireEvents /\ counted'[x] = counted[x] + s.n
            BY <1>1, <1>2, <2>3, <3>1, <3>3, <5>1, Basics DEF Clean, InPlace
          <6> QED
            BY <4>1, <5>1, <6>1, RaceAssumption
        <5>2. CASE x # Cnt(k)
          BY <2>3, <3>1, <5>2, Basics DEF Clean
        <5> QED
          BY <5>1, <5>2
      <4>4. \A o \in CPUs : cpu'[o].probe = k => o = c /\ cpu'[o].at = "budget"
        BY <2>2, <2>4, <3>1, <3>3 DEF Clean
      <4> QED
        BY <1>1, <3>2, <4>2, <4>3, <4>4 DEF Clean
    <3>4. CASE k # s.probe
      <4>1. x \notin {k, Cnt(k)}
        BY <1>3, <3>4, Basics
      <4>2. \A y \in {k, Cnt(k)} : y \in Counters /\ counted'[y] = counted[y]
                                   /\ elems'[flows].count[y] = elems[flows].count[y]
        BY <2>3, <4>1, Basics
      <4>3. \A o \in CPUs : cpu'[o].probe = k => o # c /\ cpu'[o] = cpu[o]
        BY <2>2, <2>4, <3>4
      <4>4. \A o \in CPUs : cpu[o].probe = k /\ cpu[o].at = "store" => cpu[o].field \in {k, Cnt(k)}
        BY DEF RInv, InPlace
      <4> QED
        BY <1>1, <3>1, <3>2, <4>2, <4>3, <4>4 DEF Clean
    <3> QED
      BY <3>3, <3>4
  <2> QED
    BY <1>1, <2>7, <2>8 DEF CInv
<1> QED
  BY <1>4, <1>5

(* Every step keeps the second half of the invariant.                      *)
LEMMA NextC == RInv /\ CInv /\ [Next]_vars => CInv'
<1> SUFFICES ASSUME RInv, CInv, [Next]_vars PROVE CInv'
  OBVIOUS
<1>1. ASSUME NEW c \in CPUs, NEW tp \in Tracepoints, StartTracepoint(c, tp) PROVE CInv'
  <2> DEFINE r == [Idle EXCEPT !.at = "lookup", !.probe = tp, !.field = tp, !.n = 0]
  <2>1. cpu' = [cpu EXCEPT ![c] = r] /\ UNCHANGED <<flows, elems, counted, raced>>
    BY <1>1 DEF StartTracepoint, Starts
  <2>2. r.probe \notin Calls
    BY DEF Idle, Calls, Tracepoints
  <2> HIDE DEF r
  <2> QED
    BY <2>1, <2>2, OtherC, QuietC
<1>2. CASE UNCHANGED vars
  BY <1>2 DEF vars, CInv, Sharing, Clean, Alone, Kprobe
<1>3. CASE Next
  BY <1>1, <1>3, StartC, LookupC, UpdateC, FlagC, LoadC, StoreC, BudgetC DEF Next
<1> QED
  BY <1>2, <1>3

(* Nothing is raced before the first probe.                                *)
LEMMA InitC == Init => CInv
<1> SUFFICES ASSUME Init PROVE CInv
  OBVIOUS
<1>1. flows = 0 /\ counted = Nothing /\ \A c \in CPUs : cpu[c] = Idle
  BY DEF Init
<1>2. Sharing
  BY <1>1, Basics DEF Sharing, Kprobe
<1>3. \A call \in Calls : counted[Cnt(call)] <= MaxWireEvents
  BY <1>1, Basics, RaceAssumption DEF Nothing
<1>4. \A call \in Calls : Clean(call)
  BY <1>1, <1>3, Basics DEF Clean
<1> QED
  BY <1>2, <1>4 DEF CInv

(* A direction whose probes keep clear of each other is counted exactly,   *)
(* and captured within MAX_WIRE_EVENTS, on any number of CPUs and however  *)
(* the other direction and the tracepoint interleave with it.              *)
THEOREM ExactWithoutRace == Spec => []ExactUnlessRaced
<1>1. RInv /\ CInv => ExactUnlessRaced
  BY DEF RInv, CInv, Clean, ExactUnlessRaced
<1> QED
  BY <1>1, InitR, NextR, InitC, NextC, PTL DEF Spec
=============================================================================
