-------------------------- MODULE FixedArenaProofs --------------------------
(***************************************************************************)
(* Theorems about the life of slots and memory, for every number of        *)
(* owners, slots and units and for every configuration of the arena.       *)
(***************************************************************************)
EXTENDS FixedArena, FiniteSetTheorems, TLAPS

(* A buffer's length is a natural number, and its slot's units below it    *)
(* are the written ones.                                                   *)
LEMMA Lengths ==
  ASSUME TypeOK, NEW o \in Owners
  PROVE  /\ IsFiniteSet(span[o])
         /\ len(o) \in Nat
         /\ pc[o] = "buffer" => \A i \in 1 .. len(o) : i - 1 \in Units
<1>1. IsFiniteSet(Units)
  BY CapacityAssumption, FS_Interval DEF Units
<1>2. span[o] \in SUBSET Units
  BY DEF TypeOK
<1>3. IsFiniteSet(span[o]) /\ len(o) \in Nat
  BY <1>1, <1>2, FS_Subset, FS_CardinalityType DEF len
<1>4. ASSUME pc[o] = "buffer", NEW i \in 1 .. len(o)
      PROVE  i - 1 \in Units
  <2>1. span[o] = 0 .. len(o) - 1
    BY <1>4 DEF TypeOK, OwnerOK
  <2>2. i - 1 \in 0 .. len(o) - 1
    BY <1>3, <1>4
  <2> QED
    BY <1>2, <2>1, <2>2
<1> QED
  BY <1>3, <1>4

(* Appending a unit to a prefix gives the next prefix. *)
LEMMA Extended ==
  ASSUME TypeOK, NEW o \in Owners, pc[o] = "buffer", len(o) < Capacity
  PROVE  LET S == span[o] \cup {len(o)}
         IN  S \subseteq Units /\ S = 0 .. Cardinality(S) - 1
<1>1. span[o] = 0 .. len(o) - 1 /\ span[o] \subseteq Units
  BY DEF TypeOK, OwnerOK
<1>2. len(o) \in Nat /\ IsFiniteSet(span[o])
  BY Lengths
<1>3. len(o) \notin span[o]
  BY <1>1, <1>2
<1>4. Cardinality(span[o] \cup {len(o)}) = len(o) + 1
  BY <1>2, <1>3, FS_AddElement, Zenon DEF len
<1>5. len(o) \in Units
  BY <1>2, CapacityAssumption DEF Units
<1>6. span[o] \cup {len(o)} = 0 .. len(o)
  BY <1>1, <1>2, SMT
<1> QED
  BY <1>1, <1>2, <1>4, <1>5, <1>6

(* Owners whose locals a step leaves alone stay as they are. *)
LEMMA Bystander ==
  ASSUME NEW o \in Owners, OwnerOK(o),
         pc'[o] = pc[o], slot'[o] = slot[o], span'[o] = span[o],
         clones'[o] = clones[o], then'[o] = then[o]
  PROVE  OwnerOK(o)'
BY DEF OwnerOK, Holding, Releasing, len

(* An owner between calls has a slot, and no release to finish. *)
LEMMA AtRest ==
  ASSUME TypeOK, NEW o \in Owners,
         pc[o] \in {"claimed", "buffer", "raw", "frozen"}
  PROVE  /\ slot[o] \in Slots
         /\ then[o] = "none"
         /\ clones[o] \in Nat
         /\ pc[o] # "frozen" => clones[o] = 0
<1>1. OwnerOK(o) /\ clones[o] \in Nat
  BY DEF TypeOK
<1>2. slot[o] \in Slots
  BY <1>1 DEF OwnerOK, Holding
<1>3. then[o] = "none"
  BY <1>1 DEF OwnerOK, Releasing
<1>4. pc[o] # "frozen" => ~(clones[o] > 0)
  BY <1>1 DEF OwnerOK
<1> QED
  BY <1>1, <1>2, <1>3, <1>4

(* Every step keeps the types. *)
LEMMA TypeStep == TypeOK /\ [Next]_vars => TypeOK'
<1> SUFFICES ASSUME TypeOK, [Next]_vars
             PROVE  TypeOK'
  OBVIOUS
<1> USE DEF Goto, arena, counts, locals
<1>1. CASE CloneHandle \/ DropHandle \/ UNCHANGED vars
  <2>1. \A p \in Owners : OwnerOK(p)'
    BY <1>1, Bystander DEF TypeOK, CloneHandle, DropHandle, vars
  <2> QED
    BY <1>1, <2>1 DEF TypeOK, CloneHandle, DropHandle, DropArc, vars
<1>2. ASSUME NEW o \in Owners, NEW s \in Slots, Claim(o, s)
      PROVE  TypeOK'
  <2>1. \A p \in Owners \ {o} : OwnerOK(p)'
    BY <1>2, Bystander DEF TypeOK, Claim
  <2>2. OwnerOK(o)'
    BY <1>2, Zenon DEF TypeOK, OwnerOK, Holding, Releasing, Places, len, Claim
  <2> QED
    BY <1>2, <2>1, <2>2 DEF TypeOK, Places, Claim
<1>3. ASSUME NEW o \in Owners, NEW kind \in {"buffer", "raw"}, HandOver(o, kind)
      PROVE  TypeOK'
  <2>1. \A p \in Owners \ {o} : OwnerOK(p)'
    BY <1>3, Bystander DEF TypeOK, HandOver
  <2>2. slot[o] \in Slots /\ mem' \in [Slots -> [Units -> Owners \cup {Zero, Junk}]]
    BY <1>3, AtRest DEF TypeOK, HandOver, ClearCold, Fill
  <2>3. span'[o] = {} /\ len(o)' = 0
    BY <1>3, FS_EmptySet, Zenon DEF TypeOK, OwnerOK, HandOver, len
  <2>4. /\ pc'[o] \in {"buffer", "raw"} /\ slot'[o] \in Slots
        /\ then'[o] = "none" /\ clones'[o] = 0
    BY <1>3, AtRest DEF TypeOK, HandOver
  <2>5. OwnerOK(o)'
    BY <2>3, <2>4 DEF OwnerOK, Holding, Releasing
  <2> QED
    BY <1>3, <2>1, <2>2, <2>5 DEF TypeOK, Places, HandOver
<1>4. ASSUME NEW o \in Owners, Write(o)
      PROVE  TypeOK'
  <2>1. \A p \in Owners \ {o} : OwnerOK(p)'
    BY <1>4, Bystander DEF TypeOK, Write
  <2>2. slot[o] \in Slots /\ len(o) \in Units
    <3>1. slot[o] \in Slots
      BY <1>4 DEF TypeOK, OwnerOK, Holding, Write
    <3>2. len(o) \in Nat /\ len(o) < Capacity
      BY <1>4, Lengths DEF Write
    <3> QED
      BY <3>1, <3>2, CapacityAssumption DEF Units
  <2>3. mem' \in [Slots -> [Units -> Owners \cup {Zero, Junk}]]
    BY <1>4, <2>2 DEF TypeOK, Write
  <2>4. /\ span'[o] = span[o] \cup {len(o)}
        /\ span'[o] \subseteq Units
        /\ span'[o] = 0 .. Cardinality(span'[o]) - 1
    BY <1>4, Extended, Zenon DEF TypeOK, Write
  <2>5. OwnerOK(o)'
    BY <1>4, <2>4, Zenon DEF TypeOK, OwnerOK, Holding, Releasing, Write, len
  <2>6. span' \in [Owners -> SUBSET Units]
    BY <1>4, <2>4 DEF TypeOK, Write
  <2> QED
    BY <1>4, <2>1, <2>3, <2>5, <2>6 DEF TypeOK, Write
<1>5. ASSUME NEW o \in Owners, NEW i \in Units, RawWrite(o, i)
      PROVE  TypeOK'
  <2>1. \A p \in Owners \ {o} : OwnerOK(p)'
    BY <1>5, Bystander DEF TypeOK, RawWrite
  <2>2. OwnerOK(o)'
    BY <1>5, Zenon DEF TypeOK, OwnerOK, Holding, Releasing, Places, len, RawWrite
  <2> QED
    BY <1>5, <2>1, <2>2, Zenon DEF TypeOK, Places, RawWrite
<1>6. ASSUME NEW o \in Owners, Spill(o)
      PROVE  TypeOK'
  <2>1. \A p \in Owners \ {o} : OwnerOK(p)'
    BY <1>6, Bystander DEF TypeOK, Spill
  <2>2. OwnerOK(o)'
    BY <1>6 DEF TypeOK, OwnerOK, Holding, Releasing, Spill
  <2>3. Contents(o) \in Seq(Owners \cup {Zero, Junk})
    <3>1. pc[o] = "buffer" /\ slot[o] \in Slots
      BY <1>6 DEF TypeOK, OwnerOK, Holding, Spill
    <3>2. \A i \in 1 .. len(o) : mem[slot[o]][i - 1] \in Owners \cup {Zero, Junk}
      BY <3>1, Lengths DEF TypeOK
    <3>3. len(o) \in Nat
      BY Lengths
    <3> QED
      BY <3>2, <3>3 DEF Contents
  <2> QED
    BY <1>6, <2>1, <2>2, <2>3 DEF TypeOK, Places, Spill
<1>7. ASSUME NEW o \in Owners, Spilled(o)
      PROVE  TypeOK'
  <2>1. \A p \in Owners \ {o} : OwnerOK(p)'
    BY <1>7, Bystander DEF TypeOK, Spilled
  <2>2. OwnerOK(o)'
    BY <1>7, Zenon DEF TypeOK, OwnerOK, Holding, Releasing, Places, len, Spilled
  <2> QED
    BY <1>7, <2>1, <2>2 DEF TypeOK, Places, Spilled
<1>8. ASSUME NEW o \in Owners, HeapWrite(o)
      PROVE  TypeOK'
  <2>1. \A p \in Owners \ {o} : OwnerOK(p)'
    BY <1>8, Bystander DEF TypeOK, HeapWrite
  <2>2. OwnerOK(o)'
    BY <1>8, Zenon DEF TypeOK, OwnerOK, Holding, Releasing, Places, len, HeapWrite
  <2> QED
    BY <1>8, <2>1, <2>2 DEF TypeOK, Places, HeapWrite
<1>9. ASSUME NEW o \in Owners, Freeze(o)
      PROVE  TypeOK'
  <2>1. \A p \in Owners \ {o} : OwnerOK(p)'
    BY <1>9, Bystander DEF TypeOK, Freeze
  <2>2. /\ pc[o] = "buffer" /\ pc'[o] = "frozen"
        /\ clones'[o] \in Nat /\ clones'[o] > 0
        /\ slot'[o] \in Slots /\ then'[o] = "none"
    BY <1>9, AtRest DEF TypeOK, Freeze
  <2>3. OwnerOK(o)'
    BY <2>2 DEF OwnerOK, Holding, Releasing
  <2> QED
    BY <1>9, <2>1, <2>2, <2>3 DEF TypeOK, Places, Freeze
<1>10. ASSUME NEW o \in Owners, NEW lo \in Int, NEW hi \in Int, RawFreeze(o, lo, hi)
      PROVE  TypeOK'
  <2>1. \A p \in Owners \ {o} : OwnerOK(p)'
    BY <1>10, Bystander DEF TypeOK, RawFreeze
  <2>2. /\ pc[o] = "raw" /\ pc'[o] = "frozen"
        /\ clones'[o] \in Nat /\ clones'[o] > 0
        /\ slot'[o] \in Slots /\ then'[o] = "none"
    BY <1>10, AtRest DEF TypeOK, RawFreeze
  <2>3. OwnerOK(o)'
    BY <2>2 DEF OwnerOK, Holding, Releasing
  <2> QED
    BY <1>10, <2>1, <2>2, <2>3 DEF TypeOK, Places, RawFreeze
<1>11. ASSUME NEW o \in Owners, NEW lo \in Int, NEW hi \in Int, RawFreezeError(o, lo, hi)
      PROVE  TypeOK'
  <2>1. \A p \in Owners \ {o} : OwnerOK(p)'
    BY <1>11, Bystander DEF TypeOK, RawFreezeError, Release
  <2>2. OwnerOK(o)'
    BY <1>11 DEF TypeOK, OwnerOK, Holding, Releasing, Places, len, RawFreezeError, Release
  <2> QED
    BY <1>11, <2>1, <2>2 DEF TypeOK, Places, RawFreezeError, Release
<1>12. ASSUME NEW o \in Owners, CloneBytes(o)
      PROVE  TypeOK'
  <2>1. \A p \in Owners \ {o} : OwnerOK(p)'
    BY <1>12, Bystander DEF TypeOK, CloneBytes
  <2>2. /\ pc[o] = "frozen" /\ pc'[o] = "frozen"
        /\ clones'[o] \in Nat /\ clones'[o] > 0
        /\ slot'[o] \in Slots /\ then'[o] = "none"
    BY <1>12, AtRest, BoundsAssumption DEF TypeOK, CloneBytes
  <2>3. OwnerOK(o)'
    BY <2>2 DEF OwnerOK, Holding, Releasing
  <2> QED
    BY <1>12, <2>1, <2>2, <2>3 DEF TypeOK, Places, CloneBytes
<1>13. ASSUME NEW o \in Owners, DropClone(o)
      PROVE  TypeOK'
  <2>1. \A p \in Owners \ {o} : OwnerOK(p)'
    BY <1>13, Bystander DEF TypeOK, DropClone
  <2>2. /\ pc[o] = "frozen" /\ pc'[o] = "frozen"
        /\ clones'[o] \in Nat /\ clones'[o] > 0
        /\ slot'[o] \in Slots /\ then'[o] = "none"
    BY <1>13, AtRest DEF TypeOK, DropClone
  <2>3. OwnerOK(o)'
    BY <2>2 DEF OwnerOK, Holding, Releasing
  <2> QED
    BY <1>13, <2>1, <2>2, <2>3 DEF TypeOK, Places, DropClone
<1>14. ASSUME NEW o \in Owners, DropLastBytes(o)
      PROVE  TypeOK'
  <2>1. \A p \in Owners \ {o} : OwnerOK(p)'
    BY <1>14, Bystander DEF TypeOK, DropLastBytes, Release
  <2>2. OwnerOK(o)'
    BY <1>14 DEF TypeOK, OwnerOK, Holding, Releasing, Places, len, DropLastBytes, Release
  <2> QED
    BY <1>14, <2>1, <2>2 DEF TypeOK, Places, DropLastBytes, Release
<1>15. ASSUME NEW o \in Owners, Drop(o)
      PROVE  TypeOK'
  <2>1. \A p \in Owners \ {o} : OwnerOK(p)'
    BY <1>15, Bystander DEF TypeOK, Drop, Release
  <2>2. OwnerOK(o)'
    BY <1>15 DEF TypeOK, OwnerOK, Holding, Releasing, Places, len, Drop, Release
  <2> QED
    BY <1>15, <2>1, <2>2 DEF TypeOK, Places, Drop, Release
<1>16. ASSUME NEW o \in Owners, DropSpilled(o)
      PROVE  TypeOK'
  <2>1. \A p \in Owners \ {o} : OwnerOK(p)'
    BY <1>16, Bystander DEF TypeOK, DropSpilled
  <2>2. OwnerOK(o)'
    BY <1>16, Zenon DEF TypeOK, OwnerOK, Holding, Releasing, Places, len, DropSpilled
  <2> QED
    BY <1>16, <2>1, <2>2 DEF TypeOK, Places, DropSpilled
<1>17. ASSUME NEW o \in Owners, Scrub(o)
      PROVE  TypeOK'
  <2>1. \A p \in Owners \ {o} : OwnerOK(p)'
    BY <1>17, Bystander DEF TypeOK, Scrub
  <2>2. OwnerOK(o)'
    BY <1>17 DEF TypeOK, OwnerOK, Holding, Releasing, Scrub
  <2>3. slot[o] \in Slots
    BY <1>17 DEF TypeOK, OwnerOK, Releasing, Scrub
  <2>4. mem' \in [Slots -> [Units -> Owners \cup {Zero, Junk}]] /\ zeroed' \subseteq Slots
    <3>1. CASE InitPolicy = "Zero"
      <4>1. Fill(Zero) \in [Units -> Owners \cup {Zero, Junk}]
        BY DEF Fill
      <4>2. /\ mem' = [mem EXCEPT ![slot[o]] = Fill(Zero)]
            /\ zeroed' = zeroed \cup {slot[o]}
        BY <1>17, <3>1 DEF Scrub, ScrubSlot
      <4> QED
        BY <2>3, <4>1, <4>2 DEF TypeOK
    <3>2. CASE InitPolicy # "Zero"
      BY <1>17, <3>2 DEF TypeOK, Scrub, ScrubSlot
    <3> QED
      BY <3>1, <3>2
  <2> QED
    BY <1>17, <2>1, <2>2, <2>4 DEF TypeOK, Places, Scrub
<1>18. ASSUME NEW o \in Owners, FreeSlot(o)
      PROVE  TypeOK'
  <2>1. \A p \in Owners \ {o} : OwnerOK(p)'
    BY <1>18, Bystander DEF TypeOK, FreeSlot
  <2>2. OwnerOK(o)' /\ slot[o] \in Slots
    BY <1>18 DEF TypeOK, OwnerOK, Holding, Releasing, FreeSlot, len
  <2> QED
    BY <1>18, <2>1, <2>2 DEF TypeOK, Places, FreeSlot
<1>19. ASSUME NEW o \in Owners, CountFree(o)
      PROVE  TypeOK'
  <2>1. \A p \in Owners \ {o} : OwnerOK(p)'
    BY <1>19, Bystander DEF TypeOK, CountFree
  <2>2. OwnerOK(o)'
    BY <1>19, Zenon DEF TypeOK, OwnerOK, Holding, Releasing, Places, len, CountFree
  <2> QED
    BY <1>19, <2>1, <2>2 DEF TypeOK, Places, CountFree
<1>20. ASSUME NEW o \in Owners, Unref(o)
      PROVE  TypeOK'
  <2>1. \A p \in Owners \ {o} : OwnerOK(p)'
    BY <1>20, Bystander DEF TypeOK, Unref, DropArc
  <2>2. OwnerOK(o)'
    BY <1>20, Zenon DEF TypeOK, OwnerOK, Holding, Releasing, Places, len, Unref, DropArc
  <2> QED
    BY <1>20, <2>1, <2>2 DEF TypeOK, Places, Unref, DropArc
<1>21. \A r \in Ranges : r[1] \in Int /\ r[2] \in Int
  BY CapacityAssumption DEF Ranges
<1> QED
  BY <1>1, <1>2, <1>3, <1>4, <1>5, <1>6, <1>7, <1>8, <1>9, <1>10, <1>11, <1>12,
     <1>13, <1>14, <1>15, <1>16, <1>17, <1>18, <1>19, <1>20, <1>21
     DEF Next, Continue, Use, NewBuffer, NewRawRegion

(* The variables keep their types, whatever the constants. *)
THEOREM TypeCorrect == Spec => []TypeOK
<1>1. Init => TypeOK
  BY DEF Init, TypeOK, OwnerOK, Holding, Releasing, Places, Fill
<1> QED
  BY <1>1, TypeStep, PTL DEF Spec

-----------------------------------------------------------------------------
(* Ownership of the slots. *)

(* What a step leaves alone when it neither claims nor frees a slot. *)
SameOwners ==
  /\ free' = free
  /\ \A p \in Owners : /\ Holding(p)' <=> Holding(p)
                       /\ Holding(p) => slot'[p] = slot[p]

(* Only try_alloc and bitmap.free change who owns a slot. *)
LEMMA OwnersChange ==
  ASSUME TypeOK, [Next]_vars
  PROVE  \/ \E o \in Owners, s \in Slots : Claim(o, s)
         \/ \E o \in Owners : FreeSlot(o)
         \/ SameOwners
<1> USE DEF Goto, arena, counts, locals, TypeOK, SameOwners, Holding
<1>1. CASE CloneHandle \/ DropHandle \/ UNCHANGED vars
  BY <1>1 DEF CloneHandle, DropHandle, vars
<1>2. ASSUME NEW o \in Owners, NEW kind \in {"buffer", "raw"}, HandOver(o, kind)
      PROVE  SameOwners
  BY <1>2 DEF HandOver
<1>3. ASSUME NEW o \in Owners, Write(o) \/ HeapWrite(o) \/ CloneBytes(o) \/ DropClone(o)
      PROVE  SameOwners
  BY <1>3 DEF Write, HeapWrite, CloneBytes, DropClone
<1>4. ASSUME NEW o \in Owners, NEW i \in Units, RawWrite(o, i)
      PROVE  SameOwners
  BY <1>4 DEF RawWrite
<1>5. ASSUME NEW o \in Owners, Spill(o) \/ Freeze(o)
      PROVE  SameOwners
  BY <1>5 DEF Spill, Freeze
<1>6. ASSUME NEW o \in Owners, NEW lo, NEW hi, RawFreeze(o, lo, hi)
      PROVE  SameOwners
  BY <1>6 DEF RawFreeze
<1>7. ASSUME NEW o \in Owners, NEW lo, NEW hi, RawFreezeError(o, lo, hi)
      PROVE  SameOwners
  BY <1>7 DEF RawFreezeError, Release
<1>8. ASSUME NEW o \in Owners, DropLastBytes(o) \/ Drop(o)
      PROVE  SameOwners
  BY <1>8 DEF DropLastBytes, Drop, Release
<1>9. ASSUME NEW o \in Owners, DropSpilled(o) \/ Spilled(o) \/ Unref(o)
      PROVE  SameOwners
  BY <1>9 DEF DropSpilled, Spilled, Unref
<1>10. ASSUME NEW o \in Owners, Scrub(o)
      PROVE  SameOwners
  BY <1>10 DEF Scrub
<1>11. ASSUME NEW o \in Owners, CountFree(o)
      PROVE  SameOwners
  BY <1>11, Zenon DEF CountFree, OwnerOK, Releasing
<1> QED
  BY <1>1, <1>2, <1>3, <1>4, <1>5, <1>6, <1>7, <1>8, <1>9, <1>10, <1>11, Zenon
     DEF Next, Continue, Use, NewBuffer, NewRawRegion

(* Two owners do not hold the same slot. *)
LEMMA Exclusive ==
  ASSUME TypeOK, SlotsOwned, NEW o \in Owners, Holding(o)
  PROVE  /\ slot[o] \in Slots \ free
         /\ \A p \in Owners : Holding(p) /\ slot[p] = slot[o] => p = o
<1>1. slot[o] \in Slots
  BY DEF TypeOK, OwnerOK
<1> QED
  BY <1>1 DEF SlotsOwned

(* Every step keeps the ownership of slots exclusive. *)
LEMMA OwnedStep == TypeOK /\ SlotsOwned /\ [Next]_vars => SlotsOwned'
<1> SUFFICES ASSUME TypeOK, SlotsOwned, [Next]_vars
             PROVE  SlotsOwned'
  OBVIOUS
<1>1. CASE SameOwners
  BY <1>1 DEF SameOwners, SlotsOwned
<1>2. ASSUME NEW o \in Owners, NEW s \in Slots, Claim(o, s)
      PROVE  SlotsOwned'
  <2>1. /\ s \in free /\ free' = free \ {s}
        /\ ~Holding(o) /\ Holding(o)' /\ slot'[o] = s
        /\ \A p \in Owners \ {o} : /\ Holding(p)' <=> Holding(p)
                                  /\ slot'[p] = slot[p]
    BY <1>2 DEF TypeOK, Claim, Goto, Holding
  <2> QED
    BY <2>1 DEF SlotsOwned
<1>3. ASSUME NEW o \in Owners, FreeSlot(o)
      PROVE  SlotsOwned'
  <2>1. /\ free' = free \cup {slot[o]}
        /\ Holding(o) /\ ~Holding(o)' /\ slot' = slot
        /\ \A p \in Owners \ {o} : Holding(p)' <=> Holding(p)
    BY <1>3 DEF TypeOK, FreeSlot, Goto, Holding, locals
  <2>2. slot[o] \in Slots \ free
    BY <2>1, Exclusive
  <2> QED
    BY <2>1, <2>2 DEF SlotsOwned
<1> QED
  BY <1>1, <1>2, <1>3, OwnersChange

(* A slot is free or owned by one owner, in every arena: the claim by      *)
(* try_alloc and the releases by Drop, spill and the last Bytes pair up.   *)
THEOREM ExclusiveSlots == Spec => []SlotsOwned
<1>1. Init => SlotsOwned
  BY DEF Init, SlotsOwned, Holding
<1> QED
  BY <1>1, TypeCorrect, OwnedStep, PTL DEF Spec

-----------------------------------------------------------------------------
(* What the memory holds. *)

(* A step of o concerns no other owner, and of the memory only o's slot. *)
Private(o) ==
  /\ \A p \in Owners \ {o} :
       /\ pc'[p] = pc[p] /\ slot'[p] = slot[p] /\ span'[p] = span[p]
       /\ heap'[p] = heap[p] /\ then'[p] = then[p]
  /\ \/ mem' = mem
     \/ /\ pc[o] \in {"claimed", "buffer", "raw", "scrub"}
        /\ \A s \in Slots \ {slot[o]} : mem'[s] = mem[s]

(* Every step of an owner is private in that sense. *)
LEMMA Steps ==
  ASSUME TypeOK, NEW o \in Owners, Continue(o) \/ Use(o)
  PROVE  Private(o)
<1> USE DEF Goto, arena, counts, locals, TypeOK, Private
<1>1. ASSUME NEW kind \in {"buffer", "raw"}, HandOver(o, kind)
      PROVE  Private(o)
  BY <1>1 DEF HandOver, ClearCold
<1>2. ASSUME Write(o) \/ \E i \in Units : RawWrite(o, i)
      PROVE  Private(o)
  BY <1>2 DEF Write, RawWrite
<1>3. ASSUME Scrub(o)
      PROVE  Private(o)
  BY <1>3 DEF Scrub, ScrubSlot
<1>4. ASSUME \/ Spill(o) \/ HeapWrite(o) \/ Freeze(o) \/ CloneBytes(o)
             \/ DropClone(o) \/ DropLastBytes(o) \/ Drop(o) \/ DropSpilled(o)
      PROVE  Private(o)
  BY <1>4, Zenon DEF Spill, HeapWrite, Freeze, CloneBytes, DropClone, DropLastBytes,
     Drop, DropSpilled, Release
<1>5. ASSUME \/ FreeSlot(o) \/ CountFree(o) \/ Spilled(o) \/ Unref(o)
             \/ \E s \in Slots : Claim(o, s)
             \/ \E r \in Ranges : \/ RawFreeze(o, r[1], r[2])
                                 \/ RawFreezeError(o, r[1], r[2])
      PROVE  Private(o)
  BY <1>5, Zenon DEF FreeSlot, CountFree, Spilled, Unref, Claim, RawFreeze,
     RawFreezeError, Release
<1> QED
  BY <1>1, <1>2, <1>3, <1>4, <1>5, Zenon DEF Continue, Use, NewBuffer, NewRawRegion

(* A step of the handles, or none, concerns no owner and no memory. *)
LEMMA HandleSteps ==
  ASSUME CloneHandle \/ DropHandle \/ UNCHANGED vars
  PROVE  UNCHANGED <<arena, pc, locals>>
BY DEF CloneHandle, DropHandle, vars, arena, locals

(* A private step leaves the slots that others hold, and the free ones,    *)
(* alone.                                                                  *)
LEMMA Untouched ==
  ASSUME TypeOK, SlotsOwned, NEW o \in Owners, Private(o)
  PROVE  /\ \A p \in Owners \ {o} : Holding(p) => mem'[slot[p]] = mem[slot[p]]
         /\ \A s \in free : mem'[s] = mem[s]
<1>1. CASE mem' = mem
  BY <1>1
<1>2. CASE /\ pc[o] \in {"claimed", "buffer", "raw", "scrub"}
           /\ \A s \in Slots \ {slot[o]} : mem'[s] = mem[s]
  <2>1. Holding(o)
    BY <1>2 DEF Holding
  <2>2. \A s \in free : s # slot[o] /\ s \in Slots
    BY <2>1, Exclusive DEF TypeOK
  <2>3. \A p \in Owners \ {o} : Holding(p) => slot[p] # slot[o] /\ slot[p] \in Slots
    BY <2>1, Exclusive
  <2> QED
    BY <1>2, <2>2, <2>3
<1> QED
  BY <1>1, <1>2 DEF Private

(* What BytesStable says of one owner. *)
Stable(o) ==
  pc[o] \in {"buffer", "raw", "frozen"} =>
    \A i \in span[o] : mem[slot[o]][i] = o

(* Every step keeps the written data in place. *)
LEMMA StableStep ==
  TypeOK /\ SlotsOwned /\ BytesStable /\ [Next]_vars => BytesStable'
<1> SUFFICES ASSUME TypeOK, SlotsOwned, BytesStable, [Next]_vars,
                    NEW p \in Owners
             PROVE  Stable(p)'
  BY Zenon DEF BytesStable, Stable
<1>1. Stable(p)
  BY DEF BytesStable, Stable
<1>2. CASE CloneHandle \/ DropHandle \/ UNCHANGED vars
  BY <1>1, <1>2, HandleSteps DEF Stable, arena, locals
<1>3. ASSUME NEW o \in Owners \ {p}, Continue(o) \/ Use(o)
      PROVE  Stable(p)'
  <2>1. Private(o)
    BY <1>3, Steps
  <2>2. Holding(p) => mem'[slot[p]] = mem[slot[p]]
    BY <2>1, Untouched
  <2> QED
    BY <1>1, <2>1, <2>2 DEF Stable, Holding, Private
<1> USE DEF Goto, arena, counts, locals, TypeOK, Stable
<1>4. ASSUME NEW kind \in {"buffer", "raw"}, HandOver(p, kind)
      PROVE  Stable(p)'
  BY <1>4, Zenon DEF HandOver, OwnerOK
<1>5. ASSUME Write(p)
      PROVE  Stable(p)'
  <2>1. slot[p] \in Slots
    BY <1>5, AtRest DEF Write
  <2>2. PICK n \in Nat : n = len(p)
    BY Lengths
  <2>3. /\ pc[p] = "buffer" /\ n < Capacity
        /\ mem' = [mem EXCEPT ![slot[p]][n] = p]
        /\ span' = [span EXCEPT ![p] = @ \cup {n}]
        /\ pc' = pc /\ slot' = slot
    BY <1>5, <2>2 DEF Write
  <2>4. n \in Units
    BY <2>2, <2>3, CapacityAssumption DEF Units
  <2> QED
    BY <1>1, <2>1, <2>3, <2>4
<1>6. ASSUME NEW i \in Units, RawWrite(p, i)
      PROVE  Stable(p)'
  <2>1. slot[p] \in Slots
    BY <1>6, AtRest DEF RawWrite
  <2> QED
    BY <1>1, <1>6, <2>1 DEF RawWrite
<1>7. ASSUME \/ Spill(p) \/ HeapWrite(p) \/ DropLastBytes(p) \/ Drop(p) \/ DropSpilled(p)
             \/ \E r \in Ranges : RawFreezeError(p, r[1], r[2])
      PROVE  Stable(p)'
  <2>1. pc'[p] \notin {"buffer", "raw", "frozen"}
    BY <1>7, Zenon DEF Spill, HeapWrite, DropLastBytes, Drop, DropSpilled, RawFreezeError, Release
  <2> QED
    BY <2>1, Zenon
<1>9. ASSUME \/ Freeze(p) \/ CloneBytes(p) \/ DropClone(p)
             \/ \E r \in Ranges : RawFreeze(p, r[1], r[2])
      PROVE  Stable(p)'
  <2>1. pc[p] \in {"buffer", "raw", "frozen"} /\ mem' = mem /\ slot' = slot
    BY <1>9 DEF Freeze, CloneBytes, DropClone, RawFreeze
  <2>2. span'[p] \subseteq span[p]
    BY <1>9 DEF Freeze, CloneBytes, DropClone, RawFreeze
  <2> QED
    BY <1>1, <2>1, <2>2, Zenon
<1>8. ASSUME \/ Scrub(p) \/ FreeSlot(p) \/ CountFree(p) \/ Spilled(p) \/ Unref(p)
             \/ \E s \in Slots : Claim(p, s)
      PROVE  Stable(p)'
  <2>1. pc'[p] \in {"free", "count", "none", "unref", "respill", "spilled", "claimed"}
    BY <1>8, Zenon DEF Scrub, FreeSlot, CountFree, Spilled, Unref, Claim
  <2> QED
    BY <2>1
<1> HIDE DEF Goto, arena, counts, locals, TypeOK, Stable
<1> QED
  BY <1>2, <1>3, <1>4, <1>5, <1>6, <1>7, <1>8, <1>9
     DEF Next, Continue, Use, NewBuffer, NewRawRegion

(* Data written to a Buffer or a RawRegion stays as it is until the last   *)
(* Bytes frozen from it is gone: no other owner writes to its slot and no  *)
(* scrub comes early.                                                      *)
THEOREM StableBytes == Spec => []BytesStable
<1>1. Init => BytesStable
  BY DEF Init, BytesStable
<1> QED
  BY <1>1, TypeCorrect, ExclusiveSlots, StableStep, PTL DEF Spec

(* From the copy in do_spill on, the heap holds the data. *)
Copied(o) ==
  then[o] = "respill" \/ pc[o] \in {"respill", "spilled"} =>
    /\ Len(heap[o]) >= Capacity
    /\ \A i \in 1 .. Len(heap[o]) : heap[o][i] = o

AllCopied == \A o \in Owners : Copied(o)

(* Every step keeps the copies complete. *)
LEMMA CopiedStep ==
  TypeOK /\ BytesStable /\ AllCopied /\ [Next]_vars => AllCopied'
<1> SUFFICES ASSUME TypeOK, BytesStable, AllCopied, [Next]_vars, NEW p \in Owners
             PROVE  Copied(p)'
  BY DEF AllCopied
<1>1. Copied(p)
  BY DEF AllCopied
<1>2. CASE CloneHandle \/ DropHandle \/ UNCHANGED vars
  BY <1>1, <1>2, HandleSteps, Zenon DEF Copied, locals
<1>3. ASSUME NEW o \in Owners \ {p}, Continue(o) \/ Use(o)
      PROVE  Copied(p)'
  <2>1. heap'[p] = heap[p] /\ pc'[p] = pc[p] /\ then'[p] = then[p]
    BY <1>3, Steps, Zenon DEF Private
  <2> QED
    BY <1>1, <2>1, Zenon DEF Copied
<1> USE DEF Goto, arena, counts, locals
<1>4. ASSUME Spill(p)
      PROVE  Copied(p)'
  <2>1. heap'[p] = Contents(p) /\ len(p) >= Capacity /\ pc[p] = "buffer"
    BY <1>4 DEF Spill, TypeOK
  <2>2. len(p) \in Nat
    BY Lengths
  <2>3. Len(Contents(p)) = len(p)
    BY <2>2 DEF Contents
  <2>4. span[p] = 0 .. len(p) - 1
    BY <2>1 DEF TypeOK, OwnerOK
  <2>5. ASSUME NEW i \in 1 .. len(p)
        PROVE  Contents(p)[i] = p
    <3>1. i - 1 \in span[p]
      BY <2>2, <2>4
    <3> QED
      BY <2>1, <3>1 DEF Contents, BytesStable
  <2> QED
    BY <2>1, <2>3, <2>5 DEF Copied
<1>5. ASSUME HeapWrite(p)
      PROVE  Copied(p)'
  <2>1. pc[p] = "spilled" /\ heap'[p] = Append(heap[p], p)
    BY <1>5 DEF HeapWrite, TypeOK
  <2>2. heap[p] \in Seq(Owners \cup {Zero, Junk})
    BY DEF TypeOK
  <2> QED
    BY <1>1, <2>1, <2>2, CapacityAssumption DEF Copied
<1>6. ASSUME heap'[p] = heap[p],
             \/ then'[p] \in {"none", "unref"} /\ pc'[p] \notin {"respill", "spilled"}
             \/ then[p] = "respill"
             \/ pc[p] = "respill"
      PROVE  Copied(p)'
  BY <1>1, <1>6 DEF Copied
<1>7. ASSUME \/ Write(p) \/ Freeze(p) \/ CloneBytes(p) \/ DropClone(p)
             \/ DropLastBytes(p) \/ Drop(p)
             \/ \E s \in Slots : Claim(p, s)
             \/ \E i \in Units : RawWrite(p, i)
             \/ \E kind \in {"buffer", "raw"} : HandOver(p, kind)
             \/ \E r \in Ranges : \/ RawFreeze(p, r[1], r[2])
                                 \/ RawFreezeError(p, r[1], r[2])
      PROVE  Copied(p)'
  <2>1. pc[p] \in {"none", "claimed", "buffer", "raw", "frozen"}
    BY <1>7, Zenon DEF Write, Freeze, CloneBytes, DropClone, DropLastBytes, Drop, Claim,
       RawWrite, HandOver, RawFreeze, RawFreezeError
  <2>2. then[p] = "none"
    BY <2>1 DEF TypeOK, OwnerOK, Releasing
  <2>3. heap'[p] = heap[p]
    BY <1>7, Zenon DEF Write, Freeze, CloneBytes, DropClone, DropLastBytes, Drop, Claim,
       RawWrite, HandOver, RawFreeze, RawFreezeError, Release
  <2>4. then'[p] \in {"none", "unref"} /\ pc'[p] \notin {"respill", "spilled"}
    BY <1>7, <2>1, <2>2, Zenon DEF TypeOK, Write, Freeze, CloneBytes, DropClone, DropLastBytes,
       Drop, Claim, RawWrite, HandOver, RawFreeze, RawFreezeError, Release
  <2> QED
    BY <1>6, <2>3, <2>4
<1>8. ASSUME Scrub(p) \/ FreeSlot(p)
      PROVE  Copied(p)'
  BY <1>1, <1>8 DEF Copied, Scrub, FreeSlot, TypeOK
<1>9. ASSUME CountFree(p)
      PROVE  Copied(p)'
  <2>1. heap'[p] = heap[p] /\ pc'[p] = then[p] /\ then'[p] = "none"
    BY <1>9 DEF CountFree, TypeOK
  <2>2. then[p] # "spilled"
    BY Zenon DEF TypeOK
  <2> QED
    BY <1>1, <2>1, <2>2, Zenon DEF Copied
<1>10. ASSUME Spilled(p)
      PROVE  Copied(p)'
  BY <1>6, <1>10 DEF Spilled
<1>11. ASSUME DropSpilled(p) \/ Unref(p)
      PROVE  Copied(p)'
  <2>1. pc[p] \in {"spilled", "unref"} /\ then[p] = "none"
    BY <1>11, Zenon DEF DropSpilled, Unref, TypeOK, OwnerOK, Releasing
  <2> QED
    BY <1>11, <2>1 DEF Copied, DropSpilled, Unref, TypeOK
<1> QED
  BY <1>2, <1>3, <1>4, <1>5, <1>7, <1>8, <1>9, <1>10, <1>11
     DEF Next, Continue, Use, NewBuffer, NewRawRegion

(* A spilled buffer shows all that was ever written to it, for any         *)
(* capacity: do_spill copies before it releases.                           *)
THEOREM SpillIsLossless == Spec => []SpillKeepsData
<1>1. Init => AllCopied
  BY DEF Init, AllCopied, Copied
<1>2. AllCopied => SpillKeepsData
  BY DEF AllCopied, Copied, SpillKeepsData
<1> QED
  BY <1>1, <1>2, TypeCorrect, StableBytes, CopiedStep, PTL DEF Spec

-----------------------------------------------------------------------------
(* The end of the arena. *)

Anchors == {o \in Owners : Anchored(o)}

(* The strong count counts the handles and the owners, a call in progress  *)
(* has its handle, and zero means deallocated.                             *)
Counted ==
  /\ strong = handles + Cardinality(Anchors)
  /\ deallocs = IF strong = 0 THEN 1 ELSE 0
  /\ Borrowed => handles > 0

(* A step that neither makes nor drops an Arc keeps the count. *)
LEMMA CountKept ==
  ASSUME TypeOK, Counted, NEW o \in Owners, UNCHANGED counts,
         Anchored(o)' <=> Anchored(o),
         \A p \in Owners \ {o} : pc'[p] = pc[p],
         pc'[o] = "claimed" => handles > 0
  PROVE  Counted'
<1>1. Anchors' = Anchors
  BY DEF Anchors, Anchored
<1>2. Borrowed' => handles > 0
  BY DEF Borrowed, Counted
<1> QED
  BY <1>1, <1>2 DEF Counted, counts

(* Every step keeps the count. *)
LEMMA CountedStep == TypeOK /\ Counted /\ [Next]_vars => Counted'
<1> SUFFICES ASSUME TypeOK, Counted, [Next]_vars
             PROVE  Counted'
  OBVIOUS
<1> USE DEF Goto, arena, locals
<1>1. IsFiniteSet(Anchors) /\ Cardinality(Anchors) \in Nat /\ handles \in Nat
  <2>1. Anchors \in SUBSET Owners
    BY DEF Anchors
  <2> QED
    BY <2>1, OwnersAssumption, FS_Subset, FS_CardinalityType DEF TypeOK
<1>2. CASE UNCHANGED vars
  BY <1>2 DEF vars, Counted, Anchors, Anchored, Borrowed
<1>3. CASE CloneHandle
  <2>1. Anchors' = Anchors /\ (Borrowed' <=> Borrowed)
    BY <1>3 DEF CloneHandle, Anchors, Anchored, Borrowed
  <2>2. handles > 0 /\ handles' = handles + 1 /\ strong' = strong + 1 /\ deallocs' = deallocs
    BY <1>3, <1>1, BoundsAssumption DEF CloneHandle
  <2> QED
    BY <1>1, <2>1, <2>2 DEF Counted
<1>4. CASE DropHandle
  <2>1. Anchors' = Anchors /\ (Borrowed' <=> Borrowed)
    BY <1>4 DEF DropHandle, Anchors, Anchored, Borrowed
  <2>2. /\ handles > 0 /\ handles' = handles - 1 /\ strong' = strong - 1
        /\ deallocs' = IF strong' = 0 THEN deallocs + 1 ELSE deallocs
        /\ handles = 1 => ~Borrowed
    BY <1>4 DEF DropHandle, DropArc
  <2>3. Borrowed' => handles' > 0
    BY <1>1, <2>1, <2>2 DEF Counted
  <2>4. strong > 0 /\ strong = handles + Cardinality(Anchors)
    BY <1>1, <2>2 DEF Counted
  <2>5. deallocs = 0
    BY <2>4 DEF Counted
  <2>6. Cardinality(Anchors)' = Cardinality(Anchors)
    BY <2>1
  <2>7. strong' = handles' + Cardinality(Anchors)'
    BY <1>1, <2>2, <2>4, <2>6
  <2> QED
    BY <2>2, <2>3, <2>5, <2>7 DEF Counted
<1>5. ASSUME NEW o \in Owners, NEW kind \in {"buffer", "raw"}, HandOver(o, kind)
      PROVE  Counted'
  <2>1. Anchors' = Anchors \cup {o} /\ o \notin Anchors
    BY <1>5, Zenon DEF HandOver, TypeOK, Anchors, Anchored
  <2>2. Cardinality(Anchors') = Cardinality(Anchors) + 1
    BY <1>1, <2>1, FS_AddElement, Zenon
  <2>3. handles > 0
    BY <1>5 DEF Counted, Borrowed, HandOver
  <2>4. handles' = handles /\ strong' = strong + 1 /\ deallocs' = deallocs
    BY <1>5 DEF HandOver
  <2> QED
    BY <1>1, <2>2, <2>3, <2>4 DEF Counted
<1>6. ASSUME NEW o \in Owners, Unref(o)
      PROVE  Counted'
  <2>1. Anchors' = Anchors \ {o} /\ o \in Anchors
    BY <1>6 DEF Unref, TypeOK, Anchors, Anchored
  <2>2. Cardinality(Anchors') = Cardinality(Anchors) - 1 /\ Cardinality(Anchors') \in Nat
    BY <1>1, <2>1, FS_RemoveElement, FS_CardinalityType
  <2>3. Borrowed' => Borrowed
    BY <1>6 DEF Unref, TypeOK, Borrowed
  <2>4. /\ handles' = handles /\ strong' = strong - 1
        /\ deallocs' = IF strong' = 0 THEN deallocs + 1 ELSE deallocs
    BY <1>6 DEF Unref, DropArc
  <2> QED
    BY <1>1, <2>2, <2>3, <2>4 DEF Counted
<1>7. ASSUME NEW o \in Owners, NEW s \in Slots, Claim(o, s)
      PROVE  Counted'
  BY <1>7, CountKept, Zenon DEF Claim, TypeOK, Anchored
<1>8. ASSUME NEW o \in Owners,
             \/ Write(o) \/ Spill(o) \/ HeapWrite(o) \/ Freeze(o) \/ CloneBytes(o)
             \/ DropClone(o) \/ DropLastBytes(o) \/ Drop(o) \/ DropSpilled(o)
             \/ Scrub(o) \/ FreeSlot(o) \/ Spilled(o)
             \/ \E i \in Units : RawWrite(o, i)
             \/ \E r \in Ranges : \/ RawFreeze(o, r[1], r[2])
                                 \/ RawFreezeError(o, r[1], r[2])
      PROVE  Counted'
  <2>1. /\ UNCHANGED counts
        /\ \A p \in Owners \ {o} : pc'[p] = pc[p]
        /\ pc[o] \notin {"none", "claimed"} /\ pc'[o] \notin {"none", "claimed"}
    BY <1>8, Zenon DEF TypeOK, Write, Spill, HeapWrite, Freeze, CloneBytes, DropClone,
       DropLastBytes, Drop, DropSpilled, Scrub, FreeSlot, Spilled, RawWrite,
       RawFreeze, RawFreezeError, Release
  <2> QED
    BY <2>1, CountKept DEF Anchored
<1>9. ASSUME NEW o \in Owners, CountFree(o)
      PROVE  Counted'
  <2>1. /\ UNCHANGED counts
        /\ \A p \in Owners \ {o} : pc'[p] = pc[p]
        /\ pc[o] = "count" /\ pc'[o] = then[o]
    BY <1>9 DEF TypeOK, CountFree
  <2>2. then[o] \in {"unref", "respill"}
    BY <2>1 DEF TypeOK, OwnerOK, Releasing
  <2> QED
    BY <2>1, <2>2, CountKept DEF Anchored
<1> QED
  BY <1>2, <1>3, <1>4, <1>5, <1>6, <1>7, <1>8, <1>9
     DEF Next, Continue, Use, NewBuffer, NewRawRegion

(* The backing memory is deallocated once, by whoever drops the last Arc,  *)
(* and never under a handle, a call, a buffer, a Bytes or a release.       *)
THEOREM MemoryOutlivesUsers == Spec => []OutlivesUsers
<1>1. Init => Counted
  <2> SUFFICES ASSUME Init
               PROVE  Counted
    OBVIOUS
  <2>1. Anchors = {} /\ ~Borrowed
    BY DEF Init, Anchors, Anchored, Borrowed
  <2>2. Cardinality(Anchors) = 0
    BY <2>1, FS_EmptySet
  <2> QED
    BY <2>1, <2>2 DEF Init, Counted
<1>2. TypeOK /\ Counted => OutlivesUsers
  <2> SUFFICES ASSUME TypeOK, Counted
               PROVE  OutlivesUsers
    OBVIOUS
  <2>1. Anchors \in SUBSET Owners
    BY DEF Anchors
  <2>2. IsFiniteSet(Anchors) /\ Cardinality(Anchors) \in Nat
    BY <2>1, OwnersAssumption, FS_Subset, FS_CardinalityType
  <2>3. Cardinality(Anchors) = 0 <=> Anchors = {}
    BY <2>2, FS_EmptySet
  <2>4. strong = 0 <=> handles = 0 /\ Anchors = {}
    BY <2>2, <2>3 DEF Counted, TypeOK
  <2>5. Anchors = {} /\ handles = 0 <=> handles = 0 /\ \A o \in Owners : pc[o] = "none"
    BY DEF Anchors, Anchored, Counted, Borrowed, TypeOK
  <2> QED
    BY <2>4, <2>5 DEF OutlivesUsers, Counted, TypeOK
<1> QED
  BY <1>1, <1>2, TypeCorrect, CountedStep, PTL DEF Spec

-----------------------------------------------------------------------------
(* InitPolicy::Zero. *)

(* The mark of the zeroed bitmap is true of every slot that is free or     *)
(* claimed, and so is a scrub that has just been made.                     *)
MarksTrue ==
  InitPolicy = "Zero" =>
    /\ \A s \in zeroed \cap free : mem[s] = Fill(Zero)
    /\ \A o \in Owners :
         \/ pc[o] = "claimed" /\ slot[o] \in zeroed
         \/ pc[o] = "free"
         => mem[slot[o]] = Fill(Zero)

(* Every step keeps the marks true. *)
LEMMA MarksStep ==
  TypeOK /\ SlotsOwned /\ MarksTrue /\ [Next]_vars => MarksTrue'
<1> SUFFICES ASSUME TypeOK, SlotsOwned, MarksTrue, [Next]_vars, InitPolicy = "Zero"
             PROVE  MarksTrue'
  BY Zenon DEF MarksTrue
<1> USE DEF Goto, arena, counts, locals
<1>1. CASE CloneHandle \/ DropHandle \/ UNCHANGED vars
  BY <1>1, HandleSteps, Zenon DEF MarksTrue
<1>2. ASSUME NEW o \in Owners, Private(o), free' \subseteq free, zeroed' = zeroed,
             pc'[o] \notin {"claimed", "free"}
      PROVE  MarksTrue'
  <2>1. \A s \in free : mem'[s] = mem[s]
    BY <1>2, Untouched
  <2>2. \A p \in Owners \ {o} :
          /\ pc'[p] = pc[p] /\ slot'[p] = slot[p]
          /\ pc[p] \in {"claimed", "free"} => mem'[slot[p]] = mem[slot[p]]
    BY <1>2, Untouched, Zenon DEF Private, Holding
  <2> QED
    BY <1>2, <2>1, <2>2 DEF MarksTrue
<1>3. ASSUME NEW o \in Owners,
             \/ Write(o) \/ Spill(o) \/ HeapWrite(o) \/ Freeze(o) \/ CloneBytes(o)
             \/ DropClone(o) \/ DropLastBytes(o) \/ Drop(o) \/ DropSpilled(o)
             \/ CountFree(o) \/ Spilled(o) \/ Unref(o)
             \/ \E i \in Units : RawWrite(o, i)
             \/ NewBuffer(o) \/ NewRawRegion(o)
             \/ \E r \in Ranges : \/ RawFreeze(o, r[1], r[2])
                                 \/ RawFreezeError(o, r[1], r[2])
      PROVE  MarksTrue'
  <2>1. Private(o)
    BY <1>3, Steps DEF Continue, Use
  <2>2. free' = free /\ zeroed' = zeroed
    BY <1>3, Zenon DEF Write, Spill, HeapWrite, Freeze, CloneBytes, DropClone,
       DropLastBytes, Drop, DropSpilled, CountFree, Spilled, Unref, RawWrite,
       NewBuffer, NewRawRegion, HandOver, RawFreeze, RawFreezeError, Release
  <2>3. pc'[o] \notin {"claimed", "free"}
    BY <1>3, Zenon DEF TypeOK, Write, Spill, HeapWrite, Freeze, CloneBytes, DropClone,
       DropLastBytes, Drop, DropSpilled, CountFree, Spilled, Unref, RawWrite,
       NewBuffer, NewRawRegion, HandOver, RawFreeze, RawFreezeError, Release
  <2> QED
    BY <1>2, <2>1, <2>2, <2>3
<1>4. ASSUME NEW o \in Owners, NEW s \in Slots, Claim(o, s)
      PROVE  MarksTrue'
  BY <1>4, Zenon DEF Claim, TypeOK, MarksTrue
<1>5. ASSUME NEW o \in Owners, FreeSlot(o)
      PROVE  MarksTrue'
  BY <1>5, Zenon DEF FreeSlot, TypeOK, MarksTrue
<1>6. ASSUME NEW o \in Owners, Scrub(o)
      PROVE  MarksTrue'
  <2>1. Private(o)
    BY <1>6, Steps DEF Continue
  <2>2. Holding(o) /\ slot[o] \in Slots \ free
    BY <1>6, Exclusive DEF Scrub, Holding
  <2>3. /\ free' = free /\ zeroed' = zeroed \cup {slot[o]} /\ slot' = slot
        /\ mem'[slot[o]] = Fill(Zero)
    BY <1>6, <2>2 DEF Scrub, ScrubSlot, TypeOK
  <2>4. \A s \in zeroed' \cap free' : mem'[s] = Fill(Zero)
    BY <2>1, <2>2, <2>3, Untouched, Zenon DEF MarksTrue
  <2>5. ASSUME NEW p \in Owners \ {o},
               \/ pc'[p] = "claimed" /\ slot'[p] \in zeroed'
               \/ pc'[p] = "free"
        PROVE  mem'[slot'[p]] = Fill(Zero)
    <3>1. Holding(p) /\ pc'[p] = pc[p]
      BY <2>1, <2>5, Zenon DEF Private, Holding
    <3>2. slot[p] # slot[o] /\ mem'[slot[p]] = mem[slot[p]]
      BY <2>1, <2>2, <3>1, Exclusive, Untouched, Zenon
    <3> QED
      BY <2>3, <2>5, <3>1, <3>2, Zenon DEF MarksTrue
  <2> QED
    BY <2>3, <2>4, <2>5, Zenon DEF MarksTrue
<1> QED
  BY <1>1, <1>3, <1>4, <1>5, <1>6
     DEF Next, Continue, Use, NewBuffer, NewRawRegion

(* Under InitPolicy::Zero a call hands out zeroes whatever happened to the *)
(* slot before: a mark of the zeroed bitmap outlives the data written over *)
(* the slot, but not the release of it.                                    *)
THEOREM FreshSlotsZero == Spec => FreshIsZero
<1> DEFINE Fresh ==
      \A o \in Owners :
        InitPolicy = "Zero" /\ pc[o] = "claimed" /\ pc'[o] # "claimed"
          => mem'[slot[o]] = Fill(Zero)
<1>1. Init => MarksTrue
  BY DEF Init, MarksTrue
<1>2. TypeOK /\ MarksTrue /\ [Next]_vars => [Fresh]_vars
  <2> SUFFICES ASSUME TypeOK, MarksTrue, [Next]_vars, NEW o \in Owners,
                      InitPolicy = "Zero", pc[o] = "claimed", pc'[o] # "claimed"
               PROVE  mem'[slot[o]] = Fill(Zero)
    OBVIOUS
  <2>1. \E kind \in {"buffer", "raw"} : HandOver(o, kind)
    <3>1. ~(CloneHandle \/ DropHandle \/ UNCHANGED vars)
      BY DEF CloneHandle, DropHandle, vars
    <3>2. PICK p \in Owners : Continue(p) \/ Use(p)
      BY <3>1 DEF Next
    <3>3. p = o
      BY <3>2, Steps, Zenon DEF Private
    <3> QED
      BY <3>2, <3>3, Zenon DEF Continue, Use, NewBuffer, NewRawRegion,
         Claim, Write, RawWrite, Spill, HeapWrite, Freeze,
         RawFreeze, RawFreezeError, CloneBytes, DropClone, DropLastBytes, Drop,
         DropSpilled, Scrub, FreeSlot, CountFree, Spilled, Unref
  <2>2. mem' = ClearCold(o) /\ slot[o] \in Slots
    BY <2>1, AtRest, Zenon DEF HandOver
  <2>3. CASE slot[o] \in zeroed
    BY <2>2, <2>3, Zenon DEF ClearCold, MarksTrue
  <2>4. CASE slot[o] \notin zeroed
    BY <2>2, <2>4 DEF ClearCold, TypeOK
  <2> QED
    BY <2>3, <2>4
<1> QED
  BY <1>1, <1>2, TypeCorrect, ExclusiveSlots, MarksStep, PTL DEF Spec, FreshIsZero

-----------------------------------------------------------------------------
(* Functions that differ at one place only. *)
LEMMA OnePlaceChanged ==
  ASSUME NEW S, NEW f, NEW g, NEW a \in S, NEW v,
         f = [x \in S |-> f[x]], g = [x \in S |-> g[x]],
         g[a] = v, \A x \in S \ {a} : g[x] = f[x]
  PROVE  g = [f EXCEPT ![a] = v]
<1> DEFINE h == [f EXCEPT ![a] = v]
<1>1. h = [x \in S |-> h[x]]
  OBVIOUS
<1>2. \A x \in S : h[x] = g[x]
  OBVIOUS
<1> QED
  BY <1>1, <1>2

(* The fixed arena implements RegionPool: what it hands out is disjoint    *)
(* from what is out, and only what is out comes back.                      *)
THEOREM ImplementsRegionPool == Spec => HandsOutRegions
<1> DEFINE mapped == [o \in Owners |-> IF Holding(o) THEN {slot[o]} ELSE {}]
<1>1. Init => Regions!Init
  BY DEF Init, Regions!Init, Holding
<1>2. TypeOK /\ SlotsOwned /\ [Next]_vars => [Regions!Next]_mapped
  <2> SUFFICES ASSUME TypeOK, SlotsOwned, [Next]_vars
               PROVE  Regions!Next \/ mapped' = mapped
    OBVIOUS
  <2>1. ASSUME NEW o \in Owners, NEW s \in Slots, Claim(o, s)
        PROVE  Regions!Next
    <3>1. /\ s \in free
          /\ ~Holding(o) /\ Holding(o)' /\ slot'[o] = s
          /\ \A p \in Owners \ {o} : /\ Holding(p)' <=> Holding(p)
                                    /\ slot'[p] = slot[p]
      BY <2>1, Zenon DEF TypeOK, Claim, Goto, Holding
    <3>2. \A p \in Owners : Holding(p) => slot[p] # s
      BY <3>1, Zenon DEF SlotsOwned
    <3>3. /\ mapped[o] = {} /\ mapped'[o] = {s}
          /\ \A p \in Owners \ {o} : mapped'[p] = mapped[p]
      BY <3>1, Zenon
    <3>4. \A p \in Owners : {s} \cap mapped[p] = {}
      BY <3>2
    <3>5. mapped = [p \in Owners |-> mapped[p]] /\ mapped' = [p \in Owners |-> mapped'[p]]
      BY Zenon
    <3> HIDE DEF mapped
    <3>6. mapped' = [mapped EXCEPT ![o] = {s}]
      BY <3>3, <3>5, OnePlaceChanged
    <3>7. Regions!HandOut(o)
      BY <3>3, <3>4, <3>6, Zenon DEF Regions!HandOut, mapped
    <3> QED
      BY <3>7 DEF Regions!Next
  <2>2. ASSUME NEW o \in Owners, FreeSlot(o)
        PROVE  Regions!Next
    <3>1. /\ Holding(o) /\ ~Holding(o)' /\ slot' = slot
          /\ \A p \in Owners \ {o} : Holding(p)' <=> Holding(p)
      BY <2>2 DEF TypeOK, FreeSlot, Goto, Holding, locals
    <3>2. /\ mapped[o] # {} /\ mapped'[o] = {}
          /\ \A p \in Owners \ {o} : mapped'[p] = mapped[p]
      BY <3>1
    <3>3. mapped = [p \in Owners |-> mapped[p]] /\ mapped' = [p \in Owners |-> mapped'[p]]
      OBVIOUS
    <3> HIDE DEF mapped
    <3>4. mapped' = [mapped EXCEPT ![o] = {}]
      BY <3>2, <3>3, OnePlaceChanged
    <3>5. Regions!GiveBack(o)
      BY <3>2, <3>4, Zenon DEF Regions!GiveBack, mapped
    <3> QED
      BY <3>5 DEF Regions!Next
  <2>3. CASE SameOwners
    BY <2>3, Zenon DEF SameOwners
  <2> QED
    BY <2>1, <2>2, <2>3, OwnersChange, Zenon
<1> QED
  BY <1>1, <1>2, TypeCorrect, ExclusiveSlots, PTL
     DEF Spec, HandsOutRegions, Regions!Spec
=============================================================================
