--------------------- MODULE EntryCircularBufferLemmas ---------------------
(***************************************************************************)
(* What the operations of a circular buffer do to one, for every capacity. *)
(***************************************************************************)
EXTENDS EntryCircularBuffer, WellFoundedInduction, TLAPS

(* The search finds the first match when there is one.                     *)
LEMMA FindIndexIsAMatch ==
  ASSUME NEW b, NEW k, \E i \in Slot : Matches(b, i, k)
  PROVE  FindIndex(b, k) \in Slot /\ Matches(b, FindIndex(b, k), k)
<1> DEFINE S == {i \in Slot : Matches(b, i, k)}
           First(x) == Matches(b, x, k) /\ \A j \in 0 .. x - 1 : ~ Matches(b, j, k)
<1>1. Slot \subseteq Nat /\ \A x \in Slot : 0 .. x - 1 \subseteq Slot
  BY BufferAssumption DEF Slot
<1>2. PICK x \in S : \A y \in S : ~ (<<y, x>> \in OpToRel(<, Nat))
  <2>1. S \subseteq Nat /\ S # {}
    BY <1>1
  <2> HIDE DEF S
  <2> QED
    BY <2>1, NatLessThanWellFounded, WFMin
<1>3. \A y \in S : ~ (y < x)
  BY <1>1, <1>2 DEF OpToRel
<1>4. ASSUME NEW j \in 0 .. x - 1 PROVE ~ Matches(b, j, k)
  <2>1. j \in Slot /\ j < x
    BY <1>1
  <2> QED
    BY <1>3, <2>1
<1>5. x \in Slot /\ First(x)
  BY <1>4
<1>6. \E y \in Slot : First(y)
  BY <1>5
<1>7. (CHOOSE y \in Slot : First(y)) \in Slot /\ First(CHOOSE y \in Slot : First(y))
  BY <1>6, Zenon
<1>8. FindIndex(b, k) = CHOOSE y \in Slot : First(y)
  BY DEF FindIndex
<1> QED
  BY <1>7, <1>8

(* Contains answers whether some slot matches.                             *)
LEMMA ContainsIffMatch ==
  ASSUME NEW b, NEW k
  PROVE  Contains(b, k) <=> \E i \in Slot : Matches(b, i, k)
<1>1. ASSUME \E i \in Slot : Matches(b, i, k) PROVE Contains(b, k)
  BY <1>1, FindIndexIsAMatch, BufferAssumption DEF Contains, NotFound, Slot
<1>2. ASSUME ~ \E i \in Slot : Matches(b, i, k) PROVE ~ Contains(b, k)
  BY <1>2 DEF Contains, FindIndex
<1> QED
  BY <1>1, <1>2

(* A new buffer holds its items, in their order, before the empty slots.   *)
LEMMA NewEffect ==
  ASSUME NEW items \in InitialItems
  PROVE  /\ New(items) \in Buffer
         /\ \A i \in DOMAIN items : items[i] \in Entry /\ i - 1 \in Slot
         /\ \A i \in Slot : \/ i + 1 \in DOMAIN items /\ New(items).slots[i] = items[i + 1]
                            \/ i + 1 \notin DOMAIN items /\ New(items).slots[i] = Null
<1>1. PICK n \in 0 .. Capacity : items \in [1 .. n -> Entry]
  BY DEF InitialItems
<1>2. Len(items) = n /\ DOMAIN items = 1 .. n
  BY <1>1, BufferAssumption
<1>3. \A i \in Slot : i < n <=> i + 1 \in 1 .. n
  BY <1>1, BufferAssumption DEF Slot
<1>4. New(items) \in Buffer
  BY <1>1, <1>2, <1>3 DEF New, Buffer
<1>5. \A i \in 1 .. n : items[i] \in Entry /\ i - 1 \in Slot
  BY <1>1, BufferAssumption DEF Slot
<1>6. \A i \in Slot : New(items).slots[i] = IF i < n THEN items[i + 1] ELSE Null
  BY <1>2 DEF New
<1> QED
  BY <1>2, <1>3, <1>4, <1>5, <1>6

(* The slot a new entry goes to.                                           *)
AddSlot(b) == IF b.index >= Capacity THEN 0 ELSE b.index

(* AddItem writes exactly that slot, and the index moves to the next one.  *)
LEMMA AddItemEffect ==
  ASSUME NEW b \in Buffer, NEW e \in Entry, Capacity # 0
  PROVE  /\ AddSlot(b) \in Slot
         /\ AddItem(b, e) \in Buffer
         /\ AddItem(b, e).index = AddSlot(b) + 1
         /\ \A i \in Slot : AddItem(b, e).slots[i] =
                              IF i = AddSlot(b) THEN e ELSE b.slots[i]
  BY BufferAssumption DEF AddItem, AddSlot, Buffer, Slot

(* Updating writes one slot and nothing else.                              *)
LEMMA WriteSlotEffect ==
  ASSUME NEW b \in Buffer, NEW v \in Entry \cup {Null}, NEW i \in Slot
  PROVE  LET c == [b EXCEPT !.slots[i] = v]
         IN  /\ c \in Buffer
             /\ c.index = b.index
             /\ \A j \in Slot : c.slots[j] = IF j = i THEN v ELSE b.slots[j]
  BY DEF Buffer

(* AddOrUpdate replaces an entry of the key in its slot, or writes a new   *)
(* entry at the index.                                                     *)
LEMMA AddOrUpdateEffect ==
  ASSUME NEW b \in Buffer, NEW e \in Entry, Capacity # 0
  PROVE  LET c == AddOrUpdate(b, e)
         IN  /\ c \in Buffer
             /\ \/ /\ c.index = b.index
                   /\ \E i \in Slot : /\ Matches(b, i, e.key)
                                      /\ \A j \in Slot : c.slots[j] =
                                           IF j = i THEN e ELSE b.slots[j]
                \/ /\ \A i \in Slot : ~ Matches(b, i, e.key)
                   /\ AddSlot(b) \in Slot
                   /\ c.index = AddSlot(b) + 1
                   /\ \A j \in Slot : c.slots[j] =
                        IF j = AddSlot(b) THEN e ELSE b.slots[j]
<1>1. CASE Contains(b, e.key)
  <2> DEFINE i == FindIndex(b, e.key)
             c == [b EXCEPT !.slots[i] = e]
  <2>1. i \in Slot /\ Matches(b, i, e.key)
    BY <1>1, ContainsIffMatch, FindIndexIsAMatch
  <2>2. AddOrUpdate(b, e) = c
    BY <1>1 DEF AddOrUpdate, UpdateItem
  <2> HIDE DEF i
  <2>3. /\ c \in Buffer /\ c.index = b.index
        /\ \A j \in Slot : c.slots[j] = IF j = i THEN e ELSE b.slots[j]
    BY <2>1, WriteSlotEffect
  <2> HIDE DEF c
  <2> QED
    BY <2>1, <2>2, <2>3
<1>2. CASE ~ Contains(b, e.key)
  BY <1>2, ContainsIffMatch, AddItemEffect DEF AddOrUpdate
<1> QED
  BY <1>1, <1>2

(* Remove empties one slot of the key, or none when it has none.           *)
LEMMA RemoveEffect ==
  ASSUME NEW b \in Buffer, NEW k
  PROVE  LET c == Remove(b, k)
         IN  /\ c \in Buffer
             /\ c.index = b.index
             /\ \/ c = b /\ \A i \in Slot : ~ Matches(b, i, k)
                \/ \E i \in Slot : /\ Matches(b, i, k)
                                   /\ \A j \in Slot : c.slots[j] =
                                        IF j = i THEN Null ELSE b.slots[j]
<1>1. CASE Contains(b, k)
  <2> DEFINE i == FindIndex(b, k)
             c == [b EXCEPT !.slots[i] = Null]
  <2>1. i \in Slot /\ Matches(b, i, k)
    BY <1>1, ContainsIffMatch, FindIndexIsAMatch
  <2>2. Remove(b, k) = c
    BY <1>1 DEF Remove
  <2> HIDE DEF i
  <2>3. /\ c \in Buffer /\ c.index = b.index
        /\ \A j \in Slot : c.slots[j] = IF j = i THEN Null ELSE b.slots[j]
    BY <2>1, WriteSlotEffect
  <2> HIDE DEF c
  <2> QED
    BY <2>1, <2>2, <2>3
<1>2. CASE ~ Contains(b, k)
  BY <1>2, ContainsIffMatch DEF Remove
<1> QED
  BY <1>1, <1>2

-----------------------------------------------------------------------------
(* A write never gives another slot to a key that has one, and one slot at *)
(* most to a key that has none: it moves and copies none.  This is what    *)
(* makes lookups without a lock sound.                                     *)
CopiesNone(b, c) ==
  \A k \in Key :
    \/ \A i \in Slot : Matches(c, i, k) => Matches(b, i, k)
    \/ /\ ~ Contains(b, k)
       /\ \E i \in Slot : \A j \in Slot : Matches(c, j, k) <=> j = i

(* Neither an addition,                                                    *)
LEMMA AddOrUpdateCopiesNone ==
  ASSUME NEW b \in Buffer, NEW e \in Entry
  PROVE  AddOrUpdate(b, e) \in Buffer /\ CopiesNone(b, AddOrUpdate(b, e))
<1> DEFINE c == AddOrUpdate(b, e)
<1>1. CASE Capacity = 0
  BY <1>1 DEF AddOrUpdate, CopiesNone
<1>2. CASE Capacity # 0
  <2>0. e # Null /\ e.key \in Key
    BY BufferAssumption DEF Entry
  <2>1. CASE \E i \in Slot : Matches(b, i, e.key)
    <3>1. PICK i \in Slot : /\ Matches(b, i, e.key)
                            /\ \A j \in Slot : c.slots[j] = IF j = i THEN e ELSE b.slots[j]
      BY <1>2, <2>1, AddOrUpdateEffect
    <3> HIDE DEF c
    <3>2. \A k \in Key, j \in Slot : Matches(c, j, k) => Matches(b, j, k)
      BY <3>1 DEF Matches
    <3> QED
      BY <1>2, <3>2, AddOrUpdateEffect DEF CopiesNone, c
  <2>2. CASE \A i \in Slot : ~ Matches(b, i, e.key)
    <3>1. /\ AddSlot(b) \in Slot
          /\ \A j \in Slot : c.slots[j] = IF j = AddSlot(b) THEN e ELSE b.slots[j]
      BY <1>2, <2>2, AddOrUpdateEffect
    <3> HIDE DEF c
    <3>2. \A k \in Key \ {e.key}, j \in Slot : Matches(c, j, k) => Matches(b, j, k)
      BY <3>1 DEF Matches
    <3>3. \A j \in Slot : Matches(c, j, e.key) <=> j = AddSlot(b)
      BY <2>0, <2>2, <3>1 DEF Matches
    <3>4. ~ Contains(b, e.key)
      BY <2>2, ContainsIffMatch
    <3> QED
      BY <1>2, <3>1, <3>2, <3>3, <3>4, AddOrUpdateEffect DEF CopiesNone, c
  <2> QED
    BY <2>1, <2>2
<1> QED
  BY <1>1, <1>2

(* nor a removal.                                                          *)
LEMMA RemoveCopiesNone ==
  ASSUME NEW b \in Buffer, NEW k \in Key
  PROVE  Remove(b, k) \in Buffer /\ CopiesNone(b, Remove(b, k))
<1> DEFINE c == Remove(b, k)
<1>1. c \in Buffer
  BY RemoveEffect
<1>2. \A x \in Key, j \in Slot : Matches(c, j, x) => Matches(b, j, x)
  <2>1. CASE c = b
    BY <2>1
  <2>2. ASSUME NEW i \in Slot, \A j \in Slot : c.slots[j] = IF j = i THEN Null ELSE b.slots[j]
        PROVE  \A x \in Key, j \in Slot : Matches(c, j, x) => Matches(b, j, x)
    <3> HIDE DEF c
    <3> QED
      BY <2>2 DEF Matches
  <2> QED
    BY <2>1, <2>2, RemoveEffect
<1> QED
  BY <1>1, <1>2 DEF CopiesNone

=============================================================================
