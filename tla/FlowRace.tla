------------------------------ MODULE FlowRace ------------------------------
(***************************************************************************)
(* The probes of one socket address on several CPUs at a time, at the      *)
(* grain of the map operations and of the plain loads and stores through   *)
(* the pointer that bpf_map_lookup_elem returns.  WireProbes takes each    *)
(* probe as one step; here are the steps that shape the counters of an     *)
(* entry, its identity, direction and closed mark, and what capture_wire   *)
(* submits.  (is_tls, which is only ever set, is left to WireProbes.)      *)
(*                                                                         *)
(* bpf_map_update_elem puts a new element in the place of the old one; a   *)
(* CPU that still has a pointer to the old one writes where nobody reads.  *)
(* (The kernel may also give the old element to another key; here not.)    *)
(* The map has room, and the poller does not delete the entry.             *)
(***************************************************************************)
EXTENDS Naturals, Sequences

CONSTANTS
  CPUs,
  Sizes,          \* bytes of a tcp_sendmsg or tcp_recvmsg call
  MaxWireEvents,  \* MAX_WIRE_EVENTS
  MaxProbes       \* bound: probes that ever start

ASSUME RaceAssumption ==
  Sizes \subseteq Nat /\ MaxWireEvents \in Nat /\ MaxProbes \in Nat

VARIABLES
  flows,    \* the element the map has for the key, 0 for none
  elems,    \* the elements allocated so far
  cpu,      \* what each CPU is doing
  counted,  \* what the probes have added to each counter, and submitted
  raced,    \* the calls whose probes got in each other's way (see Clash)
  probes    \* probes started so far (bounded by MaxProbes)

vars == <<flows, elems, cpu, counted, raced, probes>>
-----------------------------------------------------------------------------
(* The probes that count: k_tcp_sendmsg and kr_tcp_recvmsg with its stash, *)
(* each by the byte counter it adds to; the tracepoint at TCP_ESTABLISHED  *)
(* and at TCP_CLOSE or TCP_CLOSE_WAIT.                                     *)
Calls == {"tx", "rx"}
Tracepoints == {"direction", "closed"}

\* f->wire_out, f->wire_in: the capture counter of the call's direction.
Cnt(call) == IF call = "tx" THEN "out" ELSE "in"
Counters == Calls \cup {"out", "in"}

Nothing == [x \in Counters |-> 0]
zero == [count |-> Nothing, pid |-> FALSE, direction |-> FALSE, closed |-> FALSE]

Idle == [at |-> "idle", probe |-> "", f |-> 0, field |-> "", n |-> 0, reg |-> 0]

Init ==
  /\ flows = 0 /\ elems = <<>> /\ cpu = [c \in CPUs |-> Idle]
  /\ counted = Nothing /\ raced = {} /\ probes = 0

Kprobe(c) == cpu[c].probe \in Calls

(* The calls that a call starting now on CPU c may disturb: the ones of    *)
(* its own direction if such a probe is under way; both directions if some *)
(* call's probe is under way and has found, or may find, no entry.         *)
Clash(c, call) ==
  LET others == {o \in CPUs \ {c} : Kprobe(o)} IN
  IF \E o \in others : flows = 0 \/ cpu[o].at = "update" THEN Calls
  ELSE IF \E o \in others : cpu[o].probe = call THEN {call} ELSE {}
-----------------------------------------------------------------------------
(* The steps of a probe.                                                   *)

Starts(c, probe, n) ==
  /\ cpu[c] = Idle /\ probes < MaxProbes /\ probes' = probes + 1
  /\ cpu' = [cpu EXCEPT ![c] = [Idle EXCEPT !.at = "lookup", !.probe = probe,
                                            !.field = probe, !.n = n]]
  /\ UNCHANGED <<flows, elems, counted>>

StartCall(c, call, n) == Starts(c, call, n) /\ raced' = raced \cup Clash(c, call)
StartTracepoint(c, tp) == Starts(c, tp, 0) /\ UNCHANGED raced

(* bpf_map_lookup_elem, the first one and, after an update, the second.    *)
(* The tracepoint at the end of a connection makes no entry.               *)
Lookup(c) ==
  /\ cpu[c].at = "lookup" \/ (cpu[c].at = "again" /\ flows # 0)
  /\ cpu' = [cpu EXCEPT ![c] =
       IF flows # 0 THEN [@ EXCEPT !.f = flows, !.at = IF Kprobe(c) THEN "identity" ELSE "mark"]
       ELSE IF @.probe = "closed" THEN Idle ELSE [@ EXCEPT !.at = "update"]]
  /\ UNCHANGED <<flows, elems, counted, raced, probes>>

\* Seeded fault: BPF_ANY in the tracepoint, too.
Update_any(c) ==
  /\ cpu[c].at = "update"
  /\ cpu' = [cpu EXCEPT ![c].at = "again"]
  /\ elems' = Append(elems, zero) /\ flows' = Len(elems) + 1
  /\ UNCHANGED <<counted, raced, probes>>

(* The miss: BPF_ANY in flow_get, BPF_NOEXIST in the tracepoint.           *)
Update(c) ==
  /\ cpu[c].at = "update"
  /\ cpu' = [cpu EXCEPT ![c].at = "again"]
  /\ IF Kprobe(c) \/ flows = 0
     THEN elems' = Append(elems, zero) /\ flows' = Len(elems) + 1
     ELSE UNCHANGED <<flows, elems>>
  /\ UNCHANGED <<counted, raced, probes>>

(* flow_get's backfill of pid, comm and tuple.                             *)
Backfill(c) ==
  /\ cpu[c].at = "identity"
  /\ elems' = [elems EXCEPT ![cpu[c].f].pid = TRUE]
  /\ cpu' = [cpu EXCEPT ![c].at = "load"]
  /\ UNCHANGED <<flows, counted, raced, probes>>

(* f->tx += size, f->rx += ret and the increment of *cnt: a load and a     *)
(* store.                                                                  *)
Load(c) ==
  /\ cpu[c].at = "load"
  /\ cpu' = [cpu EXCEPT ![c].at = "store", ![c].reg = elems[cpu[c].f].count[cpu[c].field]]
  /\ UNCHANGED <<flows, elems, counted, raced, probes>>

\* After the bytes comes the capture; after its counter, bpf_ringbuf_submit.
Stored(c) ==
  cpu' = [cpu EXCEPT ![c] = IF @.field \in Calls THEN [@ EXCEPT !.at = "budget"] ELSE Idle]

\* Seeded fault: a store that finds the counter changed adds, and tries again.
Store_retry(c) ==
  LET now == elems[cpu[c].f].count[cpu[c].field] IN
  /\ cpu[c].at = "store"
  /\ elems' = [elems EXCEPT ![cpu[c].f].count[cpu[c].field] = now + cpu[c].n]
  /\ IF now = cpu[c].reg
     THEN counted' = [counted EXCEPT ![cpu[c].field] = @ + cpu[c].n] /\ Stored(c)
     ELSE counted' = counted /\ cpu' = [cpu EXCEPT ![c].at = "load"]
  /\ UNCHANGED <<flows, raced, probes>>

Store(c) ==
  /\ cpu[c].at = "store"
  /\ elems' = [elems EXCEPT ![cpu[c].f].count[cpu[c].field] = cpu[c].reg + cpu[c].n]
  /\ counted' = [counted EXCEPT ![cpu[c].field] = @ + cpu[c].n]
  /\ Stored(c)
  /\ UNCHANGED <<flows, raced, probes>>

(* capture_wire tests *cnt; `ok' stands for all else that must hold before *)
(* it gets to the increment: the look at a first chunk, the reservation,   *)
(* the copy.  All of that happens between the test and the increment.      *)
capture_wire(c, ok) ==
  /\ cpu[c].at = "budget"
  /\ LET cnt == Cnt(cpu[c].probe) IN
       cpu' = [cpu EXCEPT ![c] =
         IF ok /\ elems[cpu[c].f].count[cnt] < MaxWireEvents
         THEN [@ EXCEPT !.at = "load", !.field = cnt, !.n = 1] ELSE Idle]
  /\ UNCHANGED <<flows, elems, counted, raced, probes>>

(* f->direction = ..., f->closed = 1.                                      *)
Mark(c) ==
  /\ cpu[c].at = "mark"
  /\ elems' = IF cpu[c].probe = "closed" THEN [elems EXCEPT ![cpu[c].f].closed = TRUE]
              ELSE [elems EXCEPT ![cpu[c].f].direction = TRUE]
  /\ cpu' = [cpu EXCEPT ![c] = Idle]
  /\ UNCHANGED <<flows, counted, raced, probes>>

Next ==
  \E c \in CPUs :
    \/ \E call \in Calls, n \in Sizes : StartCall(c, call, n)
    \/ \E tp \in Tracepoints : StartTracepoint(c, tp)
    \/ Lookup(c) \/ Update(c) \/ Backfill(c) \/ Load(c) \/ Store(c)
    \/ \E ok \in BOOLEAN : capture_wire(c, ok)
    \/ Mark(c)

Spec == Init /\ [][Next]_vars
-----------------------------------------------------------------------------
(* Properties.                                                             *)

(* Whatever the races, no counter of any element runs ahead of what the    *)
(* probes added: bytes and captures get lost, none are made up.            *)
NothingInvented ==
  \A i \in DOMAIN elems, x \in Counters : elems[i].count[x] <= counted[x]

(* Where the probes of one direction keep clear of each other, its byte    *)
(* counter is exact and its captures keep to MAX_WIRE_EVENTS, whatever the *)
(* other direction and the tracepoint do meanwhile: the directions share   *)
(* no counter, and BPF_NOEXIST never takes away an entry that a call made. *)
ExactUnlessRaced ==
  \A call \in Calls \ raced :
    /\ flows # 0 => elems[flows].count[call] = counted[call]
    /\ counted[Cnt(call)] <= MaxWireEvents
=============================================================================
