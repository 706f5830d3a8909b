------------------------ MODULE EntryCircularBuffer ------------------------
(***************************************************************************)
(* The data structure of EntryCircularBufferDt: an array of nullable       *)
(* entries and the index of the slot the next new entry goes to.  Here are *)
(* its operations as operators on a value [slots, index]; the modules that *)
(* share a buffer between threads say which of them are atomic.            *)
(*                                                                         *)
(* One buffer belongs to one InstanceId, so an entry is the rest of the    *)
(* program's Entry: its IdempotencyKey and its State (no operation of the  *)
(* buffer looks at the Timestamp).                                         *)
(***************************************************************************)
EXTENDS Integers, Sequences

CONSTANTS
  Key,         \* the idempotency keys of one InstanceId
  EntryState,  \* the values of RepositoryEntryState that are stored
  Capacity,    \* _capacity
  Null,        \* the C# null of an unused array slot
  EmptyKey     \* the key of Entry.Empty where the InstanceId is its own, and
               \* no key in other instances

Entry == [key : Key, state : EntryState]

ASSUME BufferAssumption ==
  /\ Capacity \in Nat
  /\ Null \notin Entry

Slot == 0 .. Capacity - 1

Buffer == [slots : [Slot -> Entry \cup {Null}], index : 0 .. Capacity]

NotFound == -1

-----------------------------------------------------------------------------
(* Entry.Predicate: a slot matches when it is not null and has the key.    *)
Matches(b, i, k) == b.slots[i] # Null /\ b.slots[i].key = k

(* Array.FindIndex: the first matching slot.                               *)
FindIndex(b, k) ==
  IF \E i \in Slot : Matches(b, i, k)
    THEN CHOOSE i \in Slot : /\ Matches(b, i, k)
                             /\ \A j \in 0 .. i - 1 : ~ Matches(b, j, k)
    ELSE NotFound

Contains(b, k) == FindIndex(b, k) # NotFound

KeysOf(b) == {k \in Key : Contains(b, k)}

(* An entry that equals Entry.Empty counts as none.                        *)
Vacant(b, i) == b.slots[i] = Null \/ Matches(b, i, EmptyKey)

IsEmpty(b) == \A i \in Slot : Vacant(b, i)

(* The constructor accepts at most Capacity items and does not look at     *)
(* their keys: one may be there several times.                             *)
InitialItems == UNION {[1 .. n -> Entry] : n \in 0 .. Capacity}

(* It copies the items and starts after them.                              *)
New(items) ==
  [slots |-> [i \in Slot |-> IF i < Len(items) THEN items[i + 1] ELSE Null],
   index |-> Len(items)]

UpdateItem(b, i, e) == [b EXCEPT !.slots[i] = e]

(* Mutants of AddItem and Remove: no wrap-around, the wrap-around test off *)
(* by one, and a removal that closes the gap it leaves.                    *)
AddItemNoWrap(b, e) ==
  [slots |-> [b.slots EXCEPT ![b.index] = e], index |-> b.index + 1]

AddItemEarlyWrap(b, e) ==
  LET i == IF b.index + 1 >= Capacity THEN 0 ELSE b.index
  IN  [slots |-> [b.slots EXCEPT ![i] = e], index |-> i + 1]

RemoveCompacting(b, k) ==
  IF Contains(b, k)
    THEN [b EXCEPT !.slots = [i \in Slot |->
            IF i < FindIndex(b, k) THEN b.slots[i]
            ELSE IF i + 1 \in Slot THEN b.slots[i + 1] ELSE Null]]
    ELSE b

(* A new entry overwrites the slot at the index, whatever it holds.        *)
AddItem(b, e) ==
  LET i == IF b.index >= Capacity THEN 0 ELSE b.index
  IN  [slots |-> [b.slots EXCEPT ![i] = e], index |-> i + 1]

(* A mutant of AddOrUpdate: no search for an entry with the same key.      *)
AddOnly(b, e) == IF Capacity = 0 THEN b ELSE AddItem(b, e)

AddOrUpdate(b, e) ==
  IF Capacity = 0 THEN b
  ELSE IF Contains(b, e.key) THEN UpdateItem(b, FindIndex(b, e.key), e)
  ELSE AddItem(b, e)

(* The first slot of the removed key becomes null and the index stays: the *)
(* hole is filled only when the index comes round to it.                   *)
Remove(b, k) ==
  IF Contains(b, k) THEN [b EXCEPT !.slots[FindIndex(b, k)] = Null] ELSE b

-----------------------------------------------------------------------------
SlotsOf(b, k) == {i \in Slot : Matches(b, i, k)}

(* The keys that are in several slots, as items of the constructor.        *)
Copied(b) == {k \in Key : \E i, j \in SlotsOf(b, k) : i # j}

=============================================================================
