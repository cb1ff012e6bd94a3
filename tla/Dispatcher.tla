----------------------------- MODULE Dispatcher -----------------------------
(***************************************************************************)
(* The dispatcher of crates/graphrefly/src/dispatcher.rs: every node fn is *)
(* registered in a pool (LocalSync or LocalAsync) and addressed by a       *)
(* pure-data Handle (pool_id, handle_id, generation).  A pool is a slotmap *)
(* whose freed slots are recycled, so a handle that outlives its           *)
(* registration must never reach the fn that took over its slot.  The two  *)
(* pools share nothing: this is one of them, so a handle has no pool_id.   *)
(*                                                                         *)
(* A fn is identified by the number of its registration: the k-th call of  *)
(* register registers fn k.  Invokes nest: a fn may register, unregister   *)
(* (even itself) and invoke other handles while it runs, and Dispatcher    *)
(* keeps no borrow of the pool meanwhile.                                  *)
(***************************************************************************)
EXTENDS Integers, Sequences, FiniteSets

CONSTANTS
    GenMod,     \* number of values of Slot::generation (2^32 for the u32)
    MaxRegs,    \* bound: registrations in a behaviour
    MaxDepth    \* bound: nesting of invokes

ASSUME GenModAssumption == GenMod \in Nat \ {0}
ASSUME MaxRegsAssumption == MaxRegs \in Nat
ASSUME MaxDepthAssumption == MaxDepth \in Nat

VARIABLES
    slots,      \* Pool::slots, a sequence of [f, generation]
    free,       \* Pool::free, a stack of slot ids
    issued,     \* the handles returned by register, in order of registration
    running,    \* the nested invokes: the handle's registration, the fn that
                \* runs and whether the recorder was on when it was called
    recording,  \* the opt-in profile recorder
    stats       \* the handles (by registration) that have a ProfileStat

vars == <<slots, free, issued, running, recording, stats>>

Reg == 1..MaxRegs
NoFn == 0
Slot == [f : Reg \cup {NoFn}, generation : 0..(GenMod - 1)]
\* Slot ids count from 1 here (a TLA+ sequence), from 0 in the code (a Vec).
Handle == [id : Reg, generation : 0..(GenMod - 1)]

TypeOK ==
    /\ slots \in Seq(Slot)
    /\ free \in Seq(Reg)
    /\ issued \in Seq(Handle)
    /\ Len(issued) <= MaxRegs
    /\ running \in Seq([via : Reg, fn : Reg, profiled : BOOLEAN])
    /\ recording \in BOOLEAN
    /\ stats \subseteq Reg

Init ==
    /\ slots = <<>>
    /\ free = <<>>
    /\ issued = <<>>
    /\ running = <<>>
    /\ recording = FALSE
    /\ stats = {}

-----------------------------------------------------------------------------
(* Plausible slips of the slotmap, each caught by a property below.        *)

\* The freed slot keeps its generation.
Unregister_NoBump(k) ==
    LET h == issued[k] IN
    /\ k <= Len(issued)
    /\ IF /\ h.id <= Len(slots)
          /\ slots[h.id].generation = h.generation
          /\ slots[h.id].f # NoFn
         THEN /\ slots' = [slots EXCEPT ![h.id].f = NoFn]
              /\ free' = Append(free, h.id)
         ELSE UNCHANGED <<slots, free>>
    /\ stats' = stats \ {k}
    /\ UNCHANGED <<issued, running, recording>>

-----------------------------------------------------------------------------
(* Pool::register through register_in: pop a recycled slot, keeping the    *)
(* generation its last free left there, or push a new one.                 *)
RecycleSlot(k) ==
    /\ free # <<>>
    /\ LET id == free[Len(free)] IN
         /\ free' = SubSeq(free, 1, Len(free) - 1)
         /\ slots' = [slots EXCEPT ![id] = [f |-> k, generation |-> @.generation]]
         /\ issued' = Append(issued, [id |-> id,
                                      generation |-> slots[id].generation])

PushSlot(k) ==
    /\ free = <<>>
    /\ slots' = Append(slots, [f |-> k, generation |-> 0])
    /\ issued' = Append(issued, [id |-> Len(slots) + 1, generation |-> 0])
    /\ UNCHANGED free

Register ==
    /\ Len(issued) < MaxRegs
    /\ RecycleSlot(Len(issued) + 1) \/ PushSlot(Len(issued) + 1)
    /\ UNCHANGED <<running, recording, stats>>

\* Pool::get, as a predicate: the handle's slot is live and its generation
\* is the handle's.
Resolves(h) ==
    /\ h.id <= Len(slots)
    /\ slots[h.id].generation = h.generation
    /\ slots[h.id].f # NoFn

\* Dispatcher::unregister: a stale handle is a no-op for the pool; the
\* handle's profile counters are dropped in any case.
Unregister(k) ==
    LET h == issued[k] IN
    /\ k <= Len(issued)
    /\ IF Resolves(h)
         THEN /\ slots' = [slots EXCEPT ![h.id] =
                   [f |-> NoFn, generation |-> (@.generation + 1) % GenMod]]
              /\ free' = Append(free, h.id)
         ELSE UNCHANGED <<slots, free>>
    /\ stats' = stats \ {k}
    /\ UNCHANGED <<issued, running, recording>>

(* Dispatcher::invoke clones the fn out of the pool and then calls it: the *)
(* fn runs on even if its slot is freed meanwhile.  A handle that does not *)
(* resolve is a silent no-op (no step).                                    *)
Invoke(k) ==
    /\ k <= Len(issued)
    /\ Len(running) < MaxDepth
    /\ Resolves(issued[k])
    /\ running' = Append(running,
         [via |-> k, fn |-> slots[issued[k].id].f, profiled |-> recording])
    /\ UNCHANGED <<slots, free, issued, recording, stats>>

\* The innermost fn returns (or unwinds): InvokeProfileGuard::drop counts the
\* call, also for a handle that was unregistered while its fn ran.
Return ==
    /\ running # <<>>
    /\ LET top == running[Len(running)] IN
         stats' = IF top.profiled THEN stats \cup {top.via} ELSE stats
    /\ running' = SubSeq(running, 1, Len(running) - 1)
    /\ UNCHANGED <<slots, free, issued, recording>>

SetRecording ==
    /\ recording' = ~recording
    /\ UNCHANGED <<slots, free, issued, running, stats>>

Next ==
    \/ Register
    \/ \E k \in Reg : Unregister(k) \/ Invoke(k)
    \/ Return
    \/ SetRecording

Spec == Init /\ [][Next]_vars

-----------------------------------------------------------------------------
(* A handle reaches only the fn it was issued for, however many times its  *)
(* slot has been freed and recycled ("never a recycled-slot misfire").     *)
NoMisfire == \A i \in 1..Len(running) : running[i].fn = running[i].via

(* The free list of a pool names exactly its empty slots, each once: a     *)
(* double unregister never hands one slot to two registrations, and no     *)
(* slot is lost.                                                           *)
FreeListExact ==
    /\ \A i, j \in 1..Len(free) : i # j => free[i] # free[j]
    /\ \A id \in 1..Len(slots) :
           slots[id].f = NoFn <=> \E i \in 1..Len(free) : free[i] = id

=============================================================================
