---------------------------- MODULE RecentWindow ----------------------------
(***************************************************************************)
(* What a circular buffer of entries promises: it remembers its last       *)
(* Capacity insertions, oldest first, except those removed since.  An      *)
(* entry with the key of one already remembered replaces it in place and   *)
(* is no insertion; a removed entry leaves a hole that still counts as one *)
(* of the last Capacity insertions.  What it remembers at the start may    *)
(* have a key several times: one of them is replaced or removed at a time. *)
(***************************************************************************)
EXTENDS Integers

CONSTANTS Key, EntryState, Capacity, Null

VARIABLE window   \* window[1] is the oldest, Null is a hole

Entry == [key : Key, state : EntryState]

Place == 1 .. Capacity

At(j, k) == window[j] # Null /\ window[j].key = k

Remembered(k) == \E j \in Place : At(j, k)

Init == window \in [Place -> Entry \cup {Null}]

Insert(e) ==
  /\ Capacity > 0
  /\ ~ Remembered(e.key)
  /\ window' = [j \in Place |-> IF j < Capacity THEN window[j + 1] ELSE e]

Replace(e) ==
  \E j \in Place : At(j, e.key) /\ window' = [window EXCEPT ![j] = e]

Forget(k) ==
  \E j \in Place : At(j, k) /\ window' = [window EXCEPT ![j] = Null]

Next ==
  \/ \E e \in Entry : Insert(e) \/ Replace(e)
  \/ \E k \in Key : Forget(k)

Spec == Init /\ [][Next]_window

=============================================================================
