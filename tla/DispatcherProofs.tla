-------------------------- MODULE DispatcherProofs --------------------------
(***************************************************************************)
(* For every number of generations and every length of behaviour: as long  *)
(* as no more fns are registered in a pool than a generation has values    *)
(* (2^32), a handle reaches only the fn it was issued for, and the free    *)
(* list is exact.                                                          *)
(***************************************************************************)
EXTENDS Dispatcher, SequenceTheorems, TLAPS

(* Every issued handle names a slot, and a live slot knows the             *)
(* registration that owns it.                                              *)
Ownership ==
    /\ \A k \in 1..Len(issued) : issued[k].id \in 1..Len(slots)
    /\ \A id \in 1..Len(slots) :
         slots[id].f # NoFn =>
             slots[id].f \in 1..Len(issued) /\ issued[slots[id].f].id = id

(* A current handle has its slot's generation; a stale one is behind it,   *)
(* or the generation has wrapped on a slot that can never be reused.       *)
Generations ==
    \A k \in 1..Len(issued) :
        LET s == slots[issued[k].id] IN
        /\ s.f = k => s.generation = issued[k].generation
        /\ s.f # k => \/ issued[k].generation < s.generation
                      \/ s.f = NoFn /\ Len(issued) = MaxRegs

(* A slot's generation counts frees, and every free had its registration.  *)
Counting ==
    /\ Len(slots) <= Len(issued)
    /\ \A id \in 1..Len(slots) :
         /\ slots[id].f # NoFn => slots[id].generation < Len(issued)
         /\ slots[id].f = NoFn => slots[id].generation <= Len(issued)

FreeIds == \A i \in 1..Len(free) : free[i] \in 1..Len(slots)

IInv ==
    /\ TypeOK
    /\ Ownership
    /\ Generations
    /\ Counting
    /\ FreeIds
    /\ FreeListExact
    /\ NoMisfire

(* The wrapping increment of a generation that has not reached its last    *)
(* value is the plain increment.                                           *)
LEMMA NextGeneration ==
    ASSUME NEW g \in Nat, g < GenMod
    PROVE  /\ (g + 1) % GenMod \in 0..(GenMod - 1)
           /\ g + 1 < GenMod => (g + 1) % GenMod = g + 1
BY GenModAssumption

(* Overwriting one element of a sequence keeps its length and the others.  *)
LEMMA SeqUpdate ==
    ASSUME NEW S, NEW s \in Seq(S), NEW i \in 1..Len(s), NEW v \in S
    PROVE  /\ [s EXCEPT ![i] = v] \in Seq(S)
           /\ Len([s EXCEPT ![i] = v]) = Len(s)
           /\ [s EXCEPT ![i] = v][i] = v
           /\ \A j \in 1..Len(s) : j # i => [s EXCEPT ![i] = v][j] = s[j]
OBVIOUS

(* Appending keeps the elements already there.                             *)
LEMMA SeqAppend ==
    ASSUME NEW S, NEW s \in Seq(S), NEW v \in S
    PROVE  /\ Append(s, v) \in Seq(S)
           /\ Len(Append(s, v)) = Len(s) + 1
           /\ Append(s, v)[Len(s) + 1] = v
           /\ \A j \in 1..Len(s) : Append(s, v)[j] = s[j]
OBVIOUS

(* Popping the last element keeps the others.                              *)
LEMMA SeqPop ==
    ASSUME NEW S, NEW s \in Seq(S), s # <<>>
    PROVE  /\ Len(s) \in Nat \ {0}
           /\ SubSeq(s, 1, Len(s) - 1) \in Seq(S)
           /\ Len(SubSeq(s, 1, Len(s) - 1)) = Len(s) - 1
           /\ \A j \in 1..(Len(s) - 1) : SubSeq(s, 1, Len(s) - 1)[j] = s[j]
<1>1. Len(s) \in Nat \ {0}
  OBVIOUS
<1>2. SubSeq(s, 1, Len(s) - 1) \in Seq(S) /\ Len(SubSeq(s, 1, Len(s) - 1)) = Len(s) - 1
  <2> DEFINE m == Len(s) - 1
  <2>1. m \in Nat /\ m = Len(s) - 1 /\ \A i \in 1..m : s[i] \in S
    BY <1>1
  <2> HIDE DEF m
  <2>2. SubSeq(s, 1, m) \in Seq(S) /\ Len(SubSeq(s, 1, m)) = IF 1 <= m THEN m - 1 + 1 ELSE 0
    BY <2>1, SubSeqProperties
  <2>3. Len(SubSeq(s, 1, m)) = m
    BY <2>1, <2>2
  <2>4. QED
    BY <2>1, <2>2, <2>3
<1>3. \A j \in 1..(Len(s) - 1) : SubSeq(s, 1, Len(s) - 1)[j] = s[j]
  BY <1>1
<1>4. QED
  BY <1>1, <1>2, <1>3

(* What the type invariant says of the parts of a slot.                    *)
LEMMA SlotParts ==
    ASSUME TypeOK
    PROVE  /\ Len(slots) \in Nat
           /\ Len(free) \in Nat
           /\ Len(issued) \in Nat
           /\ \A i \in 1..Len(slots) :
                /\ slots[i] \in Slot
                /\ slots[i].generation \in 0..(GenMod - 1)
                /\ slots[i].f \in Reg \cup {NoFn}
           /\ \A k \in 1..Len(issued) :
                /\ issued[k] \in Handle
                /\ issued[k].generation \in 0..(GenMod - 1)
<1>1. /\ Len(slots) \in Nat
      /\ Len(free) \in Nat
      /\ Len(issued) \in Nat
      /\ \A i \in 1..Len(slots) : slots[i] \in Slot
      /\ \A k \in 1..Len(issued) : issued[k] \in Handle
  BY DEF TypeOK
<1>2. \A s \in Slot : s.generation \in 0..(GenMod - 1) /\ s.f \in Reg \cup {NoFn}
  BY DEF Slot
<1>3. \A h \in Handle : h.generation \in 0..(GenMod - 1)
  BY DEF Handle
<1>4. QED
  BY <1>1, <1>2, <1>3

(* The empty pool satisfies the invariant.                                 *)
LEMMA InitInv == Init => IInv
<1> SUFFICES ASSUME Init PROVE IInv
  OBVIOUS
<1>1. TypeOK
  <2>1. slots \in Seq(Slot) /\ free \in Seq(Reg) /\ issued \in Seq(Handle)
    BY DEF Init
  <2>2. Len(issued) <= MaxRegs
    BY MaxRegsAssumption DEF Init
  <2>3. running \in Seq([via : Reg, fn : Reg, profiled : BOOLEAN])
    BY DEF Init
  <2>4. recording \in BOOLEAN /\ stats \subseteq Reg
    BY DEF Init
  <2>5. QED
    BY <2>1, <2>2, <2>3, <2>4 DEF TypeOK
<1>2. Ownership /\ Generations /\ Counting
  BY DEF Init, Ownership, Generations, Counting
<1>3. FreeIds /\ FreeListExact /\ NoMisfire
  BY DEF Init, FreeIds, FreeListExact, NoMisfire
<1>4. QED
  BY <1>1, <1>2, <1>3 DEF IInv

(* register on a recycled slot: the handles issued for it before are all   *)
(* behind the generation it now hands out.                                 *)
LEMMA RecycleInv ==
    ASSUME MaxRegs <= GenMod, IInv, Len(issued) < MaxRegs,
           RecycleSlot(Len(issued) + 1), UNCHANGED <<running, recording, stats>>
    PROVE  IInv'
<1> DEFINE id == free[Len(free)]
           k == Len(issued) + 1
           h == [id |-> id, generation |-> slots[id].generation]
           s == [f |-> k, generation |-> slots[id].generation]
<1> USE GenModAssumption, MaxRegsAssumption
<1>1. /\ Len(free) \in Nat \ {0}
      /\ id \in 1..Len(slots)
      /\ slots[id].f = NoFn
  <2>1. Len(free) \in Nat \ {0}
    BY SeqPop DEF IInv, TypeOK, RecycleSlot
  <2>2. Len(free) \in 1..Len(free) /\ id \in 1..Len(slots)
    BY <2>1 DEF IInv, FreeIds
  <2>3. QED
    BY <2>1, <2>2 DEF IInv, FreeListExact
<1>2. id \in Reg /\ k \in Reg /\ k # NoFn /\ k = Len(issued) + 1
  BY <1>1, SlotParts DEF IInv, TypeOK, Counting, Reg, NoFn
<1>3. h \in Handle /\ s \in Slot /\ h.id = id /\ h.generation = slots[id].generation
      /\ s.f = k /\ s.generation = slots[id].generation
  BY <1>1, <1>2, SlotParts DEF IInv, Handle, Slot
<1>4. slots' = [slots EXCEPT ![id] = s] /\ issued' = Append(issued, h)
      /\ free' = SubSeq(free, 1, Len(free) - 1) /\ free # <<>>
  BY DEF RecycleSlot
<1> HIDE DEF id, k, h, s
<1>5. /\ slots' \in Seq(Slot)
      /\ Len(slots') = Len(slots)
      /\ slots'[id] = s
      /\ \A i \in 1..Len(slots) : i # id => slots'[i] = slots[i]
  BY <1>1, <1>3, <1>4, SeqUpdate DEF IInv, TypeOK
<1>6. /\ issued' \in Seq(Handle)
      /\ Len(issued') = k
      /\ issued'[k] = h
      /\ \A j \in 1..Len(issued) : issued'[j] = issued[j]
  BY <1>2, <1>3, <1>4, SeqAppend DEF IInv, TypeOK
<1>7. /\ free' \in Seq(Reg)
      /\ Len(free') = Len(free) - 1
      /\ \A i \in 1..(Len(free) - 1) : free'[i] = free[i]
  BY <1>4, SeqPop DEF IInv, TypeOK
<1>8. TypeOK'
  <2>1. Len(issued') <= MaxRegs
    BY <1>6, <1>2 DEF Reg
  <2>2. QED
    BY <2>1, <1>5, <1>6, <1>7 DEF IInv, TypeOK
<1>9. Ownership'
  <2>1. \A j \in 1..Len(issued') : issued'[j].id \in 1..Len(slots')
    <3>1. \A j \in 1..Len(issued') : j \in 1..Len(issued) \/ j = k
      BY <1>2, <1>6, SlotParts DEF IInv
    <3>2. QED
      BY <3>1, <1>1, <1>3, <1>5, <1>6 DEF IInv, Ownership
  <2>2. ASSUME NEW i \in 1..Len(slots'), slots'[i].f # NoFn
        PROVE  slots'[i].f \in 1..Len(issued') /\ issued'[slots'[i].f].id = i
    <3>1. CASE i = id
      BY <3>1, <1>2, <1>3, <1>5, <1>6 DEF Reg
    <3>2. CASE i # id
      <4>1. i \in 1..Len(slots) /\ slots'[i] = slots[i]
        BY <3>2, <1>5
      <4>2. slots[i].f \in 1..Len(issued) /\ issued[slots[i].f].id = i
        BY <2>2, <4>1 DEF IInv, Ownership
      <4>3. Len(issued) \in Nat
        BY SlotParts DEF IInv
      <4>4. QED
        BY <4>1, <4>2, <4>3, <1>2, <1>6
    <3>3. QED
      BY <3>1, <3>2
  <2>3. QED
    BY <2>1, <2>2 DEF Ownership
<1>10. Generations'
  <2>1. ASSUME NEW j \in 1..Len(issued)
        PROVE  LET t == slots'[issued'[j].id] IN
               /\ t.f = j => t.generation = issued'[j].generation
               /\ t.f # j => \/ issued'[j].generation < t.generation
                             \/ t.f = NoFn /\ Len(issued') = MaxRegs
    <3>1. issued'[j] = issued[j] /\ issued[j].id \in 1..Len(slots) /\ j # k /\ j # NoFn
      BY <1>2, <1>6, SlotParts DEF IInv, Ownership, NoFn
    <3>2. CASE issued[j].id = id
      <4>1. issued[j].generation < slots[id].generation
        BY <1>1, <3>1, <3>2 DEF IInv, Generations
      <4>2. QED
        BY <4>1, <3>1, <3>2, <1>3, <1>5
    <3>3. CASE issued[j].id # id
      <4>1. slots'[issued[j].id] = slots[issued[j].id]
        BY <3>1, <3>3, <1>5
      <4>2. slots[issued[j].id].f = NoFn /\ Len(issued) = MaxRegs => FALSE
        BY SlotParts DEF IInv
      <4>3. QED
        BY <4>1, <4>2, <3>1 DEF IInv, Generations
    <3>4. QED
      BY <3>2, <3>3
  <2>2. slots'[issued'[k].id] = s /\ issued'[k].generation = s.generation /\ s.f = k
    BY <1>3, <1>5, <1>6
  <2>3. \A j \in 1..k : j \in 1..Len(issued) \/ j = k
    BY <1>2, SlotParts DEF IInv
  <2>4. QED
    BY <2>1, <2>2, <2>3, <1>6 DEF Generations
<1>11. Counting'
  <2>1. Len(slots') <= Len(issued') /\ Len(issued) < Len(issued')
    BY <1>2, <1>5, <1>6, SlotParts DEF IInv, Counting
  <2>2. ASSUME NEW i \in 1..Len(slots)
        PROVE  /\ slots'[i].f # NoFn => slots'[i].generation < Len(issued')
               /\ slots'[i].f = NoFn => slots'[i].generation <= Len(issued')
    <3>1. slots'[i].generation = slots[i].generation
      BY <1>3, <1>5
    <3>2. slots[i].generation <= Len(issued) /\ slots[i].generation \in Nat
      BY SlotParts DEF IInv, Counting
    <3>3. QED
      BY <3>1, <3>2, <2>1, <1>6, <1>2, SlotParts DEF IInv
  <2>3. QED
    BY <2>1, <2>2, <1>5 DEF Counting
<1>12. FreeIds'
  BY <1>5, <1>7, SlotParts DEF IInv, FreeIds
<1>13. FreeListExact'
  <2>1. \A i, j \in 1..Len(free') : i # j => free'[i] # free'[j]
    <3>1. \A i \in 1..Len(free') : i \in 1..Len(free) /\ free'[i] = free[i]
      BY <1>7, <1>1
    <3>2. QED
      BY <3>1 DEF IInv, FreeListExact
  <2>2. \A i \in 1..(Len(free) - 1) : free[i] # id
    BY <1>1, SlotParts DEF IInv, FreeListExact, id
  <2>3. ASSUME NEW n \in 1..Len(slots')
        PROVE  slots'[n].f = NoFn <=> \E i \in 1..Len(free') : free'[i] = n
    <3>1. CASE n = id
      BY <3>1, <2>2, <1>2, <1>3, <1>5, <1>7
    <3>2. CASE n # id
      <4>1. slots[n].f = NoFn <=> \E i \in 1..Len(free) : free[i] = n
        BY <1>5 DEF IInv, FreeListExact
      <4>2. \A i \in 1..Len(free) : free[i] = n => i \in 1..(Len(free) - 1)
        BY <3>2, SlotParts DEF IInv, id
      <4>3. slots'[n] = slots[n]
        BY <3>2, <1>5
      <4>4. QED
        <5>1. \A i \in 1..(Len(free) - 1) :
                 i \in 1..Len(free) /\ i \in 1..Len(free') /\ free'[i] = free[i]
          BY <1>1, <1>7
        <5>2. \A i \in 1..Len(free') : i \in 1..(Len(free) - 1)
          BY <1>1, <1>7
        <5>3. (\E i \in 1..Len(free) : free[i] = n) <=> \E i \in 1..Len(free') : free'[i] = n
          BY <4>2, <5>1, <5>2
        <5>4. QED
          BY <4>1, <4>3, <5>3
    <3>3. QED
      BY <3>1, <3>2
  <2>4. QED
    BY <2>1, <2>3 DEF FreeListExact
<1>14. NoMisfire'
  BY DEF IInv, NoMisfire
<1>15. QED
  BY <1>8, <1>9, <1>10, <1>11, <1>12, <1>13, <1>14 DEF IInv

(* register on a fresh slot: no handle was issued for it before.           *)
LEMMA PushInv ==
    ASSUME MaxRegs <= GenMod, IInv, Len(issued) < MaxRegs,
           PushSlot(Len(issued) + 1), UNCHANGED <<running, recording, stats>>
    PROVE  IInv'
<1> DEFINE id == Len(slots) + 1
           k == Len(issued) + 1
           h == [id |-> id, generation |-> 0]
           s == [f |-> k, generation |-> 0]
<1> USE GenModAssumption, MaxRegsAssumption
<1>1. /\ Len(slots) \in Nat /\ Len(issued) \in Nat
      /\ id = Len(slots) + 1 /\ k = Len(issued) + 1
      /\ id \in Reg /\ k \in Reg /\ k # NoFn /\ 0 \in 0..(GenMod - 1)
  BY SlotParts DEF IInv, Counting, Reg, NoFn
<1>2. h \in Handle /\ s \in Slot /\ h.id = id /\ h.generation = 0 /\ s.f = k /\ s.generation = 0
  BY <1>1 DEF Handle, Slot
<1>3. slots' = Append(slots, s) /\ issued' = Append(issued, h) /\ free' = free /\ free = <<>>
  BY DEF PushSlot
<1> HIDE DEF id, k, h, s
<1>4. /\ slots' \in Seq(Slot)
      /\ Len(slots') = id
      /\ slots'[id] = s
      /\ \A i \in 1..Len(slots) : slots'[i] = slots[i]
  BY <1>1, <1>2, <1>3, SeqAppend DEF IInv, TypeOK
<1>5. /\ issued' \in Seq(Handle)
      /\ Len(issued') = k
      /\ issued'[k] = h
      /\ \A j \in 1..Len(issued) : issued'[j] = issued[j]
  BY <1>1, <1>2, <1>3, SeqAppend DEF IInv, TypeOK
<1>6. /\ \A j \in 1..Len(issued') : j \in 1..Len(issued) \/ j = k
      /\ \A i \in 1..Len(slots') : i \in 1..Len(slots) \/ i = id
      /\ \A i \in 1..Len(slots) : i \in 1..Len(slots') /\ i # id
      /\ \A j \in 1..Len(issued) : j \in 1..Len(issued') /\ j # k
      /\ id \in 1..Len(slots') /\ k \in 1..Len(issued')
  BY <1>1, <1>4, <1>5
<1>7. TypeOK'
  <2>1. Len(issued') <= MaxRegs
    BY <1>1, <1>5 DEF Reg
  <2>2. QED
    BY <2>1, <1>3, <1>4, <1>5 DEF IInv, TypeOK
<1>8. Ownership'
  <2>1. \A j \in 1..Len(issued') : issued'[j].id \in 1..Len(slots')
    BY <1>2, <1>4, <1>5, <1>6 DEF IInv, Ownership
  <2>2. ASSUME NEW i \in 1..Len(slots'), slots'[i].f # NoFn
        PROVE  slots'[i].f \in 1..Len(issued') /\ issued'[slots'[i].f].id = i
    <3>1. CASE i = id
      BY <3>1, <1>2, <1>4, <1>5, <1>6
    <3>2. CASE i \in 1..Len(slots)
      BY <2>2, <3>2, <1>4, <1>5, <1>6 DEF IInv, Ownership
    <3>3. QED
      BY <3>1, <3>2, <1>6
  <2>3. QED
    BY <2>1, <2>2 DEF Ownership
<1>9. Generations'
  <2>1. ASSUME NEW j \in 1..Len(issued)
        PROVE  LET t == slots'[issued'[j].id] IN
               /\ t.f = j => t.generation = issued'[j].generation
               /\ t.f # j => \/ issued'[j].generation < t.generation
                             \/ t.f = NoFn /\ Len(issued') = MaxRegs
    <3>1. slots'[issued'[j].id] = slots[issued[j].id] /\ issued'[j] = issued[j]
      BY <1>4, <1>5 DEF IInv, Ownership
    <3>2. Len(issued) # MaxRegs
      BY <1>1
    <3>3. QED
      BY <3>1, <3>2 DEF IInv, Generations
  <2>2. slots'[issued'[k].id] = s /\ issued'[k].generation = 0
    BY <1>2, <1>4, <1>5
  <2>3. QED
    BY <2>1, <2>2, <1>2, <1>6 DEF Generations
<1>10. Counting'
  <2>1. Len(slots') <= Len(issued') /\ Len(issued) < Len(issued') /\ Len(issued') \in Nat \ {0}
    BY <1>1, <1>4, <1>5 DEF IInv, Counting
  <2>2. ASSUME NEW i \in 1..Len(slots)
        PROVE  slots'[i].generation < Len(issued')
    <3>1. slots[i].generation <= Len(issued) /\ slots[i].generation \in Nat
      BY SlotParts DEF IInv, Counting
    <3>2. QED
      BY <3>1, <2>1, <1>1, <1>4
  <2>3. slots'[id].generation < Len(issued')
    BY <1>2, <1>4, <2>1
  <2>4. \A i \in 1..Len(slots') : slots'[i].generation < Len(issued')
    BY <2>2, <2>3, <1>6
  <2>5. \A i \in 1..Len(slots') : slots'[i].generation <= Len(issued')
    <3>1. \A i \in 1..Len(slots') : slots'[i].generation \in Nat
      BY <1>2, <1>4, <1>6, SlotParts DEF IInv
    <3>2. QED
      BY <3>1, <2>1, <2>4
  <2>6. QED
    BY <2>1, <2>4, <2>5 DEF Counting
<1>11. FreeIds' /\ FreeListExact'
  <2>1. \A i \in 1..Len(free') : FALSE
    BY <1>3
  <2>2. \A i \in 1..Len(slots) : slots[i].f # NoFn
    BY <1>3 DEF IInv, FreeListExact
  <2>3. \A i \in 1..Len(slots') : slots'[i].f # NoFn
    BY <2>2, <1>1, <1>2, <1>4, <1>6
  <2>4. QED
    BY <2>1, <2>3 DEF FreeIds, FreeListExact
<1>12. NoMisfire'
  BY DEF IInv, NoMisfire
<1>13. QED
  BY <1>7, <1>8, <1>9, <1>10, <1>11, <1>12 DEF IInv

(* unregister: the generation moves past every handle issued for the slot, *)
(* or the budget of registrations is spent and the slot stays free.        *)
LEMMA UnregisterInv ==
    ASSUME MaxRegs <= GenMod, IInv, NEW k \in Reg, Unregister(k)
    PROVE  IInv'
<1> DEFINE h == issued[k]
           id == issued[k].id
           g == (slots[id].generation + 1) % GenMod
           s == [f |-> NoFn, generation |-> g]
<1> USE GenModAssumption, MaxRegsAssumption
<1>1. k \in 1..Len(issued) /\ UNCHANGED <<issued, running, recording>> /\ stats' \subseteq Reg
  BY SlotParts DEF IInv, TypeOK, Unregister, Reg
<1>2. CASE ~Resolves(h)
  <2>1. UNCHANGED <<slots, free>>
    BY <1>2 DEF Unregister
  <2>2. QED
    BY <1>1, <2>1 DEF IInv, TypeOK, Ownership, Generations, Counting, FreeIds,
                      FreeListExact, NoMisfire
<1>3. CASE Resolves(h)
  <2>1. /\ id \in 1..Len(slots)
        /\ slots[id].f # NoFn
        /\ slots[id].generation \in Nat
        /\ slots[id].generation < GenMod
        /\ slots[id].generation < Len(issued)
        /\ Len(issued) \in Nat
        /\ Len(issued) <= MaxRegs
    <3>1. /\ Len(issued) \in Nat /\ Len(issued) <= MaxRegs
          /\ id \in 1..Len(slots)
      BY <1>1, SlotParts DEF IInv, TypeOK, Ownership
    <3>2. slots[id].f # NoFn
      BY <1>3 DEF Resolves
    <3>3. slots[id].generation \in 0..(GenMod - 1)
      BY <3>1, SlotParts DEF IInv
    <3>4. slots[id].generation < Len(issued)
      BY <3>1, <3>2 DEF IInv, Counting
    <3>5. QED
      BY <3>1, <3>2, <3>3, <3>4
  <2>2. /\ g \in 0..(GenMod - 1)
        /\ slots[id].generation + 1 < GenMod => g = slots[id].generation + 1
        /\ g = slots[id].generation + 1 \/ Len(issued) = MaxRegs
        /\ g <= Len(issued)
    <3>1. /\ g \in 0..(GenMod - 1)
          /\ slots[id].generation + 1 < GenMod => g = slots[id].generation + 1
      BY <2>1, NextGeneration
    <3>2. slots[id].generation + 1 >= GenMod => GenMod = Len(issued) /\ Len(issued) = MaxRegs
      BY <2>1
    <3>3. CASE slots[id].generation + 1 < GenMod
      BY SMTT(30), <3>1, <3>3, <2>1
    <3>4. CASE ~(slots[id].generation + 1 < GenMod)
      <4>1. GenMod = Len(issued) /\ Len(issued) = MaxRegs
        BY <3>2, <3>4, <2>1
      <4>2. g <= Len(issued)
        BY <4>1, <3>1
      <4>3. QED
        BY <4>1, <4>2, <3>1
    <3>5. QED
      BY <3>3, <3>4
  <2>3. s \in Slot /\ s.f = NoFn /\ s.generation = g
    BY <2>2 DEF Slot
  <2>4. slots' = [slots EXCEPT ![id] = s] /\ free' = Append(free, id)
    BY <1>3 DEF Unregister
  <2>5. id \in Reg
    BY <2>1, SlotParts DEF IInv, TypeOK, Counting, Reg
  <2> HIDE DEF g, s, id
  <2>6. /\ slots' \in Seq(Slot)
        /\ Len(slots') = Len(slots)
        /\ slots'[id] = s
        /\ \A i \in 1..Len(slots) : i # id => slots'[i] = slots[i]
    BY <2>1, <2>3, <2>4, SeqUpdate DEF IInv, TypeOK
  <2>7. /\ free' \in Seq(Reg)
        /\ Len(free') = Len(free) + 1
        /\ free'[Len(free) + 1] = id
        /\ \A i \in 1..Len(free) : free'[i] = free[i]
    BY <2>4, <2>5, SeqAppend DEF IInv, TypeOK
  <2>8. /\ \A i \in 1..Len(free') : i \in 1..Len(free) \/ i = Len(free) + 1
        /\ \A i \in 1..Len(free) : i \in 1..Len(free')
        /\ Len(free) + 1 \in 1..Len(free')
    BY <2>7, SlotParts DEF IInv
  <2>9. TypeOK'
    BY <1>1, <2>6, <2>7 DEF IInv, TypeOK
  <2>10. Ownership'
    BY <1>1, <2>1, <2>3, <2>6 DEF IInv, Ownership
  <2>11. Generations'
    <3>1. SUFFICES ASSUME NEW j \in 1..Len(issued)
                   PROVE  LET t == slots'[issued[j].id] IN
                          /\ t.f = j => t.generation = issued[j].generation
                          /\ t.f # j => \/ issued[j].generation < t.generation
                                        \/ t.f = NoFn /\ Len(issued) = MaxRegs
      BY <1>1 DEF Generations
    <3>2. CASE issued[j].id # id
      BY <3>2, <2>6 DEF IInv, Ownership, Generations
    <3>3. CASE issued[j].id = id
      <4>1. slots'[issued[j].id].f = NoFn /\ slots'[issued[j].id].generation = g /\ j # NoFn
        BY <3>3, <2>3, <2>6 DEF NoFn
      <4>2. issued[j].generation <= slots[id].generation /\ issued[j].generation \in Nat
        <5>1. issued[j].generation \in Nat
          BY SlotParts DEF IInv
        <5>2. slots[id].generation = issued[j].generation \/ issued[j].generation < slots[id].generation
          BY <3>3, <2>1 DEF IInv, Generations
        <5>3. QED
          BY <5>1, <5>2, <2>1
      <4>3. issued[j].generation < g \/ Len(issued) = MaxRegs
        BY <4>2, <2>1, <2>2
      <4>4. QED
        BY <4>1, <4>3
    <3>4. QED
      BY <3>2, <3>3
  <2>12. Counting'
    BY <1>1, <2>2, <2>3, <2>6 DEF IInv, Counting
  <2>13. FreeIds'
    BY <2>1, <2>6, <2>7, <2>8 DEF IInv, FreeIds
  <2>14. FreeListExact'
    <3>1. \A i \in 1..Len(free) : free[i] # id
      BY <2>1 DEF IInv, FreeListExact
    <3>2. \A i, j \in 1..Len(free') : i # j => free'[i] # free'[j]
      BY <3>1, <2>7, <2>8 DEF IInv, FreeListExact
    <3>3. ASSUME NEW n \in 1..Len(slots')
          PROVE  slots'[n].f = NoFn <=> \E i \in 1..Len(free') : free'[i] = n
      <4>1. CASE n = id
        BY <4>1, <2>3, <2>6, <2>7, <2>8
      <4>2. CASE n # id
        <5>1. slots'[n].f = NoFn <=> \E i \in 1..Len(free) : free[i] = n
          BY <4>2, <2>6 DEF IInv, FreeListExact
        <5>2. QED
          BY <5>1, <4>2, <2>7, <2>8
      <4>3. QED
        BY <4>1, <4>2
    <3>4. QED
      BY <3>2, <3>3 DEF FreeListExact
  <2>15. NoMisfire'
    BY <1>1 DEF IInv, NoMisfire
  <2>16. QED
    BY <2>9, <2>10, <2>11, <2>12, <2>13, <2>14, <2>15 DEF IInv
<1>4. QED
  BY <1>2, <1>3

(* A handle that resolves is current: it reaches its own registration.     *)
LEMMA ResolvesOwn ==
    ASSUME IInv, NEW k \in 1..Len(issued), Resolves(issued[k])
    PROVE  slots[issued[k].id].f = k
<1>1. /\ slots[issued[k].id].generation = issued[k].generation
      /\ slots[issued[k].id].f # NoFn
      /\ issued[k].generation \in Int
  BY SlotParts, GenModAssumption DEF Resolves, IInv
<1>2. QED
  BY <1>1 DEF IInv, Generations

(* invoke: a handle that resolves is the one of the fn in the slot.        *)
LEMMA InvokeInv ==
    ASSUME IInv, NEW k \in Reg, Invoke(k)
    PROVE  IInv'
<1> DEFINE r == [via |-> k, fn |-> slots[issued[k].id].f, profiled |-> recording]
<1>1. k \in 1..Len(issued) /\ UNCHANGED <<slots, free, issued, recording, stats>>
  BY SlotParts DEF IInv, TypeOK, Invoke, Reg
<1>2. slots[issued[k].id].f = k
  BY <1>1, ResolvesOwn DEF Invoke
<1>3. r \in [via : Reg, fn : Reg, profiled : BOOLEAN] /\ r.via = k /\ r.fn = k
  BY <1>2 DEF IInv, TypeOK
<1>4. running' = Append(running, r)
  BY DEF Invoke
<1> HIDE DEF r
<1>5. /\ running' \in Seq([via : Reg, fn : Reg, profiled : BOOLEAN])
      /\ Len(running') = Len(running) + 1
      /\ running'[Len(running) + 1] = r
      /\ \A i \in 1..Len(running) : running'[i] = running[i]
  BY <1>3, <1>4, SeqAppend DEF IInv, TypeOK
<1>6. NoMisfire'
  <2>1. \A i \in 1..Len(running') : i \in 1..Len(running) \/ i = Len(running) + 1
    BY <1>5 DEF IInv, TypeOK
  <2>2. QED
    BY <2>1, <1>3, <1>5 DEF IInv, NoMisfire
<1>7. QED
  BY <1>1, <1>5, <1>6 DEF IInv, TypeOK, Ownership, Generations, Counting, FreeIds, FreeListExact

(* The end of an invocation leaves the pool alone.                         *)
LEMMA ReturnInv ==
    ASSUME IInv, Return
    PROVE  IInv'
<1>1. /\ running' \in Seq([via : Reg, fn : Reg, profiled : BOOLEAN])
      /\ Len(running) \in Nat \ {0}
      /\ Len(running') = Len(running) - 1
      /\ \A i \in 1..(Len(running) - 1) : running'[i] = running[i]
  BY SeqPop DEF IInv, TypeOK, Return
<1>2. NoMisfire'
  BY <1>1 DEF IInv, NoMisfire
<1>3. stats' \subseteq Reg
  <2>1. running[Len(running)] \in [via : Reg, fn : Reg, profiled : BOOLEAN]
    <3>1. Len(running) \in 1..Len(running)
      BY <1>1
    <3>2. QED
      BY <3>1, ElementOfSeq DEF IInv, TypeOK
  <2>2. QED
    BY <2>1 DEF IInv, TypeOK, Return
<1>4. QED
  BY <1>1, <1>2, <1>3
  DEF Return, IInv, TypeOK, Ownership, Generations, Counting, FreeIds, FreeListExact

(* Every step keeps the invariant.                                         *)
LEMMA StepInv ==
    ASSUME MaxRegs <= GenMod, IInv, [Next]_vars
    PROVE  IInv'
<1>1. CASE Register
  BY <1>1, RecycleInv, PushInv DEF Register
<1>2. ASSUME NEW k \in Reg, Unregister(k)
      PROVE  IInv'
  BY <1>2, UnregisterInv
<1>3. ASSUME NEW k \in Reg, Invoke(k)
      PROVE  IInv'
  BY <1>3, InvokeInv
<1>4. CASE Return
  BY <1>4, ReturnInv
<1>5. CASE SetRecording
  <2>1. recording' \in BOOLEAN
    BY <1>5 DEF SetRecording
  <2>2. QED
    BY <1>5, <2>1 DEF SetRecording, IInv, TypeOK, Ownership, Generations, Counting,
                      FreeIds, FreeListExact, NoMisfire
<1>6. CASE UNCHANGED vars
  BY <1>6 DEF vars, IInv, TypeOK, Ownership, Generations, Counting,
              FreeIds, FreeListExact, NoMisfire
<1>7. QED
  BY <1>1, <1>2, <1>3, <1>4, <1>5, <1>6 DEF Next

(* With no more registrations than generations, the inductive invariant    *)
(* holds throughout.                                                       *)
THEOREM DispatcherInvariant ==
    ASSUME MaxRegs <= GenMod
    PROVE  Spec => []IInv
<1>1. IInv /\ [Next]_vars => IInv'
  BY StepInv
<1>2. QED
  BY InitInv, <1>1, PTL DEF Spec

(* Pool::get and invoke: a handle only ever runs the fn it was issued for, *)
(* however often its slot was freed and recycled in between.               *)
THEOREM NeverMisfires ==
    ASSUME MaxRegs <= GenMod
    PROVE  Spec => []NoMisfire
<1>1. IInv => NoMisfire
  BY DEF IInv
<1>2. QED
  BY DispatcherInvariant, <1>1, PTL

(* Pool::register and unregister: the free list names the empty slots, and *)
(* each of them once.                                                      *)
THEOREM FreeListAlwaysExact ==
    ASSUME MaxRegs <= GenMod
    PROVE  Spec => []FreeListExact
<1>1. IInv => FreeListExact
  BY DEF IInv
<1>2. QED
  BY DispatcherInvariant, <1>1, PTL
=============================================================================
