----------------------- MODULE EntryCircularBufferDt -----------------------
(***************************************************************************)
(* One EntryCircularBufferDt shared by threads.  AddOrUpdate and Remove    *)
(* run under the static LockObject, so each is one step.  Contains and     *)
(* GetEntry take no lock: Array.FindIndex reads the slots one after the    *)
(* other, and GetEntry reads the slot it found once more to return it.     *)
(*                                                                         *)
(* wasAbsent and wasPresent are history: whether the key the reader asks   *)
(* for was out of, or in, the buffer at some moment of the call.           *)
(***************************************************************************)
EXTENDS EntryCircularBuffer

CONSTANTS
  Reader,   \* threads inside Contains or GetEntry
  Empty     \* Entry.Empty

ASSUME ReaderAssumption ==
  /\ Key # {}
  /\ Empty \notin Entry \cup {Null}

VARIABLES
  buffer,   \* _buffer and _index
  reader    \* for each reader: where it is in its call

vars == <<buffer, reader>>

ReaderState ==
  [phase : {"idle", "scan", "load", "done"}, op : {"Contains", "GetEntry"},
   key : Key, pos : 0 .. Capacity, found : BOOLEAN,
   value : Entry \cup {Null, Empty},
   wasAbsent : BOOLEAN, wasPresent : BOOLEAN]

TypeOK ==
  /\ buffer \in Buffer
  /\ reader \in [Reader -> ReaderState]

Idle ==
  [phase |-> "idle", op |-> "Contains", key |-> CHOOSE k \in Key : TRUE,
   pos |-> 0, found |-> FALSE, value |-> Null,
   wasAbsent |-> FALSE, wasPresent |-> FALSE]

Init ==
  /\ \E items \in InitialItems : buffer = New(items)
  /\ reader = [r \in Reader |-> Idle]

-----------------------------------------------------------------------------
(* Every write is seen by the calls under way.                             *)
Observe(b) ==
  reader' = [r \in Reader |->
    IF reader[r].phase \in {"scan", "load"}
      THEN [reader[r] EXCEPT !.wasAbsent = @ \/ ~ Contains(b, reader[r].key),
                             !.wasPresent = @ \/ Contains(b, reader[r].key)]
      ELSE reader[r]]

Write(b) == buffer' = b /\ Observe(b)

AddOrUpdateEntry(e) == Write(AddOrUpdate(buffer, e))

RemoveKey(k) == Write(Remove(buffer, k))

(* A buffer without capacity answers at once: pos starts past the end.     *)
Call(r, op, k) ==
  /\ reader[r].phase = "idle"
  /\ reader' = [reader EXCEPT ![r] =
       [Idle EXCEPT !.phase = "scan", !.op = op, !.key = k,
                       !.wasAbsent = ~ Contains(buffer, k),
                       !.wasPresent = Contains(buffer, k)]]
  /\ UNCHANGED buffer

(* One read of Array.FindIndex, or its end without a match.                *)
ScanMiss(r) ==
  /\ reader[r].phase = "scan"
  /\ reader[r].pos < Capacity
  /\ ~ Matches(buffer, reader[r].pos, reader[r].key)
  /\ reader' = [reader EXCEPT ![r].pos = @ + 1]
  /\ UNCHANGED buffer

ScanHit(r) ==
  /\ reader[r].phase = "scan"
  /\ reader[r].pos < Capacity
  /\ Matches(buffer, reader[r].pos, reader[r].key)
  /\ reader' = [reader EXCEPT
       ![r].phase = IF reader[r].op = "Contains" THEN "done" ELSE "load",
       ![r].found = TRUE]
  /\ UNCHANGED buffer

ScanEnd(r) ==
  /\ reader[r].phase = "scan"
  /\ reader[r].pos = Capacity
  /\ reader' = [reader EXCEPT ![r].phase = "done", ![r].value = Empty]
  /\ UNCHANGED buffer

(* GetEntry: "_buffer[findIndex]!" after FindIndex returned.               *)
Load(r) ==
  /\ reader[r].phase = "load"
  /\ reader' = [reader EXCEPT ![r].phase = "done",
                              ![r].value = buffer.slots[reader[r].pos]]
  /\ UNCHANGED buffer

Return(r) ==
  /\ reader[r].phase = "done"
  /\ reader' = [reader EXCEPT ![r] = Idle]
  /\ UNCHANGED buffer

Next ==
  \/ \E e \in Entry : AddOrUpdateEntry(e)
  \/ \E k \in Key : RemoveKey(k)
  \/ \E r \in Reader, op \in {"Contains", "GetEntry"}, k \in Key : Call(r, op, k)
  \/ \E r \in Reader : ScanMiss(r) \/ ScanHit(r) \/ ScanEnd(r) \/ Load(r) \/ Return(r)

Spec == Init /\ [][Next]_vars

-----------------------------------------------------------------------------
(* No step copies a key: one that is in the buffer gets no other slot, and *)
(* one that is not gets one.  So only the items of the constructor can have*)
(* a key in several slots, of which Remove would leave a copy behind and a *)
(* rolled-back message "contained".                                        *)
NoKeyCopied ==
  [][\A k \in Key : \/ SlotsOf(buffer', k) \subseteq SlotsOf(buffer, k)
                   \/ /\ SlotsOf(buffer, k) = {}
                      /\ \E i \in Slot : SlotsOf(buffer', k) = {i}]_vars

(* A lock-free lookup answers what was true at some moment of the call: it *)
(* reports a key missing only if the key really was out of the buffer at   *)
(* some moment of the scan, however the slots were written meanwhile, and  *)
(* reports it present only if it really was in.                            *)
LookupIsLinearizable ==
  \A r \in Reader :
    reader[r].phase = "done" =>
      IF reader[r].found THEN reader[r].wasPresent ELSE reader[r].wasAbsent

(* GetEntry returns an entry of the key it was asked for, or Entry.Empty.  *)
GetEntryAnswersItsKey ==
  \A r \in Reader :
    reader[r].phase = "done" /\ reader[r].op = "GetEntry" =>
      \/ reader[r].value = Empty
      \/ reader[r].value # Null /\ reader[r].value.key = reader[r].key

(* The slots read from the index on are the insertions, oldest first.      *)
SlotAt(i, j) == IF i + j - 1 >= Capacity THEN i + j - 1 - Capacity ELSE i + j - 1

OldestFirst(b) == [j \in 1 .. Capacity |-> b.slots[SlotAt(b.index, j)]]

Window == INSTANCE RecentWindow WITH window <- OldestFirst(buffer)

(* The buffer implements the window of its last Capacity insertions: a new *)
(* entry pushes out the oldest and only it, at the wrap-around too and     *)
(* with the holes that removals leave.                                     *)
RemembersRecentInsertions == Window!Spec

=============================================================================
