--------------------- MODULE EntryCircularBufferProofs ---------------------
(***************************************************************************)
(* The correctness of EntryCircularBufferDt for every capacity: its        *)
(* lookups and its window of recent insertions.                            *)
(***************************************************************************)
EXTENDS EntryCircularBufferDt, EntryCircularBufferLemmas, TLAPS

(* While a reader scans, either its key was out of the buffer at some      *)
(* moment or all its slots are still ahead of it; the key of a reader that *)
(* found it was in the buffer.                                             *)
ReaderInv(q) ==
  /\ q.phase \in {"scan", "load"} => (Contains(buffer, q.key) => q.wasPresent)
  /\ q.phase = "scan" =>
       /\ ~ q.found
       /\ q.wasAbsent \/ /\ Contains(buffer, q.key)
                         /\ \A i \in Slot : Matches(buffer, i, q.key) => i >= q.pos
  /\ q.phase = "load" => q.found /\ q.wasPresent /\ q.pos \in Slot
  /\ q.phase = "done" => IF q.found THEN q.wasPresent ELSE q.wasAbsent

BufferInv ==
  /\ TypeOK
  /\ \A r \in Reader : ReaderInv(reader[r])

(* A step that writes the buffer keeps the invariant of the readers.       *)
LEMMA WriteKeepsBufferInv ==
  ASSUME BufferInv, NEW b \in Buffer, CopiesNone(buffer, b), Write(b)
  PROVE  BufferInv'
<1>1. buffer' = b
  BY DEF Write
<1>2. TypeOK'
  <2>1. ASSUME NEW r \in Reader, NEW x \in BOOLEAN, NEW y \in BOOLEAN
        PROVE  [reader[r] EXCEPT !.wasAbsent = x, !.wasPresent = y] \in ReaderState
    BY DEF BufferInv, TypeOK, ReaderState
  <2>2. \A r \in Reader : /\ (reader[r].wasAbsent \/ ~ Contains(b, reader[r].key)) \in BOOLEAN
                          /\ (reader[r].wasPresent \/ Contains(b, reader[r].key)) \in BOOLEAN
    OBVIOUS
  <2>3. \A r \in Reader : reader'[r] \in ReaderState
    BY <2>1, <2>2 DEF Write, Observe, BufferInv, TypeOK
  <2>4. reader' \in [Reader -> ReaderState]
    BY <2>3 DEF Write, Observe
  <2> QED
    BY <1>1, <2>4 DEF TypeOK
<1>3. ASSUME NEW r \in Reader PROVE ReaderInv(reader[r])'
  <2>1. ReaderInv(reader[r]) /\ reader[r] \in ReaderState
    BY DEF BufferInv, TypeOK
  <2>2. CASE reader[r].phase \in {"scan", "load"}
    <3> DEFINE q == reader[r]
    <3>1. reader'[r] = [q EXCEPT !.wasAbsent = q.wasAbsent \/ ~ Contains(b, q.key),
                                 !.wasPresent = q.wasPresent \/ Contains(b, q.key)]
      BY <2>2 DEF Write, Observe
    <3>2. /\ reader'[r].phase = q.phase /\ reader'[r].key = q.key /\ reader'[r].pos = q.pos
          /\ reader'[r].found = q.found
          /\ reader'[r].wasAbsent = (q.wasAbsent \/ ~ Contains(b, q.key))
          /\ reader'[r].wasPresent = (q.wasPresent \/ Contains(b, q.key))
      BY <2>1, <3>1 DEF ReaderState
    <3>3. q.key \in Key
      BY <2>1 DEF ReaderState
    <3>4. q.phase = "scan" => \/ reader'[r].wasAbsent
                              \/ /\ Contains(b, q.key)
                                 /\ \A i \in Slot : Matches(b, i, q.key) => i >= q.pos
      BY <2>1, <3>2, <3>3 DEF ReaderInv, CopiesNone
    <3> HIDE DEF q
    <3>5. q.phase # "done"
      BY <2>2 DEF q
    <3> QED
      BY <1>1, <2>1, <3>2, <3>4, <3>5 DEF ReaderInv, q
  <2>3. CASE reader[r].phase \notin {"scan", "load"}
    <3>1. reader'[r] = reader[r]
      BY <2>3 DEF Write, Observe
    <3> QED
      BY <2>1, <2>3, <3>1 DEF ReaderInv
  <2> QED
    BY <2>2, <2>3
<1> QED
  BY <1>2, <1>3 DEF BufferInv

-----------------------------------------------------------------------------
(* A step of a reader: the buffer stays, one reader changes.               *)
LEMMA ReaderKeepsBufferInv ==
  ASSUME BufferInv, NEW r \in Reader, NEW q \in ReaderState, UNCHANGED buffer,
         reader' = [reader EXCEPT ![r] = q], ReaderInv(q)
  PROVE  BufferInv'
<1>1. TypeOK'
  BY DEF BufferInv, TypeOK
<1>2. ReaderInv(q)'
  BY DEF ReaderInv
<1>3. \A x \in Reader : reader'[x] = IF x = r THEN q ELSE reader[x]
  BY DEF BufferInv, TypeOK
<1>4. ASSUME NEW x \in Reader PROVE ReaderInv(reader[x])'
  <2>1. CASE x = r
    BY <1>2, <1>3, <2>1 DEF ReaderInv
  <2>2. CASE x # r
    BY <1>3, <2>2 DEF ReaderInv, BufferInv
  <2> QED
    BY <2>1, <2>2
<1> QED
  BY <1>1, <1>4 DEF BufferInv

(* A reader between calls is in a typed state.                             *)
LEMMA IdleIsAState ==
  Idle \in ReaderState /\ Idle.pos = 0 /\ ~ Idle.found /\ Idle.phase = "idle"
<1>1. (CHOOSE k \in Key : TRUE) \in Key
  BY ReaderAssumption
<1> QED
  BY <1>1, BufferAssumption DEF Idle, ReaderState

(* The invariant holds initially and every step keeps it.                  *)
LEMMA BufferInvInit ==
  ASSUME Init
  PROVE  BufferInv
<1>1. PICK items \in InitialItems : buffer = New(items)
  BY DEF Init
<1>2. buffer \in Buffer
  BY <1>1, NewEffect
<1>3. Idle \in ReaderState
  BY IdleIsAState
<1>4. TypeOK
  BY <1>2, <1>3 DEF Init, TypeOK
<1>5. \A r \in Reader : ReaderInv(reader[r])
  BY DEF Init, ReaderInv, Idle
<1> QED
  BY <1>4, <1>5 DEF BufferInv

(* One step for each action: the writers keep slots, a reader moves on.    *)
LEMMA BufferInvNext ==
  ASSUME BufferInv, [Next]_vars
  PROVE  BufferInv'
<1> DEFINE st(r) == reader[r]
<1>0. /\ buffer \in Buffer
      /\ \A r \in Reader : reader[r] \in ReaderState /\ ReaderInv(reader[r])
  BY DEF BufferInv, TypeOK
<1>1. ASSUME NEW e \in Entry, AddOrUpdateEntry(e) PROVE BufferInv'
  BY <1>0, <1>1, WriteKeepsBufferInv, AddOrUpdateCopiesNone DEF AddOrUpdateEntry
<1>2. ASSUME NEW k \in Key, RemoveKey(k) PROVE BufferInv'
  BY <1>0, <1>2, WriteKeepsBufferInv, RemoveCopiesNone DEF RemoveKey
<1>3. ASSUME NEW r \in Reader, NEW op \in {"Contains", "GetEntry"}, NEW k \in Key, Call(r, op, k)
      PROVE  BufferInv'
  <2> DEFINE q == [Idle EXCEPT !.phase = "scan", !.op = op, !.key = k,
                               !.wasAbsent = ~ Contains(buffer, k),
                               !.wasPresent = Contains(buffer, k)]
  <2>1. ASSUME NEW x \in BOOLEAN, NEW y \in BOOLEAN
        PROVE  LET p == [Idle EXCEPT !.phase = "scan", !.op = op, !.key = k,
                                     !.wasAbsent = x, !.wasPresent = y]
               IN  /\ p \in ReaderState
                   /\ p.phase = "scan" /\ p.key = k /\ p.pos = 0 /\ ~ p.found
                   /\ p.wasAbsent = x /\ p.wasPresent = y
    BY IdleIsAState DEF ReaderState
  <2>2. (~ Contains(buffer, k)) \in BOOLEAN /\ Contains(buffer, k) \in BOOLEAN
    BY DEF Contains
  <2>3. /\ q \in ReaderState
        /\ q.phase = "scan" /\ q.key = k /\ q.pos = 0 /\ ~ q.found
        /\ q.wasAbsent = ~ Contains(buffer, k) /\ q.wasPresent = Contains(buffer, k)
    <3> DEFINE x == ~ Contains(buffer, k)
               y == Contains(buffer, k)
    <3>1. x \in BOOLEAN /\ y \in BOOLEAN
      BY <2>2
    <3> HIDE DEF x, y
    <3>2. LET p == [Idle EXCEPT !.phase = "scan", !.op = op, !.key = k,
                                !.wasAbsent = x, !.wasPresent = y]
          IN  /\ p \in ReaderState
              /\ p.phase = "scan" /\ p.key = k /\ p.pos = 0 /\ ~ p.found
              /\ p.wasAbsent = x /\ p.wasPresent = y
      BY <2>1, <3>1
    <3> QED
      BY <3>2 DEF x, y
  <2>4. ReaderInv(q)
    <3>1. \A i \in Slot : i >= 0
      BY BufferAssumption DEF Slot
    <3> HIDE DEF q
    <3> QED
      BY <2>3, <3>1 DEF ReaderInv
  <2> QED
    BY <1>3, <2>3, <2>4, ReaderKeepsBufferInv DEF Call
<1>4. ASSUME NEW r \in Reader, ScanMiss(r) PROVE BufferInv'
  <2> DEFINE q == [reader[r] EXCEPT !.pos = reader[r].pos + 1]
  <2>1. q \in ReaderState
    BY <1>0, <1>4, BufferAssumption DEF ScanMiss, ReaderState
  <2>2. /\ q.phase = "scan" /\ q.key = st(r).key /\ q.found = st(r).found
        /\ q.wasAbsent = st(r).wasAbsent /\ q.wasPresent = st(r).wasPresent
        /\ q.pos = st(r).pos + 1
    BY <1>0, <1>4 DEF ScanMiss, ReaderState
  <2>3. \A i \in Slot : Matches(buffer, i, st(r).key) /\ i >= st(r).pos => i >= st(r).pos + 1
    BY <1>0, <1>4, BufferAssumption DEF ScanMiss, ReaderState, Slot
  <2>4. ReaderInv(q)
    BY <1>0, <1>4, <2>2, <2>3 DEF ReaderInv, ScanMiss
  <2>5. reader' = [reader EXCEPT ![r] = q] /\ UNCHANGED buffer
    BY <1>4 DEF ScanMiss
  <2> QED
    BY <2>1, <2>4, <2>5, ReaderKeepsBufferInv
<1>5. ASSUME NEW r \in Reader, ScanHit(r) PROVE BufferInv'
  <2> DEFINE next == IF st(r).op = "Contains" THEN "done" ELSE "load"
             q == [reader[r] EXCEPT !.phase = next, !.found = TRUE]
  <2>1. q \in ReaderState
    BY <1>0 DEF ReaderState
  <2>2. /\ q.phase = next /\ q.key = st(r).key /\ q.found
        /\ q.wasAbsent = st(r).wasAbsent /\ q.wasPresent = st(r).wasPresent
        /\ q.pos = st(r).pos /\ st(r).pos \in Slot /\ st(r).key \in Key
    BY <1>0, <1>5, BufferAssumption DEF ScanHit, ReaderState, Slot
  <2>3. Contains(buffer, st(r).key)
    BY <1>5, <2>2, ContainsIffMatch DEF ScanHit
  <2>4. st(r).wasPresent
    BY <1>0, <1>5, <2>3 DEF ReaderInv, ScanHit
  <2>5. ReaderInv(q)
    BY <2>2, <2>4 DEF ReaderInv
  <2>6. reader' = [reader EXCEPT ![r] = q] /\ UNCHANGED buffer
    BY <1>5 DEF ScanHit
  <2> QED
    BY <2>1, <2>5, <2>6, ReaderKeepsBufferInv
<1>6. ASSUME NEW r \in Reader, ScanEnd(r) PROVE BufferInv'
  <2> DEFINE q == [reader[r] EXCEPT !.phase = "done", !.value = Empty]
  <2>1. q \in ReaderState
    BY <1>0 DEF ReaderState
  <2>2. /\ q.phase = "done" /\ q.found = st(r).found
        /\ q.wasAbsent = st(r).wasAbsent
    BY <1>0 DEF ReaderState
  <2>3. Contains(buffer, st(r).key) =>
          \E i \in Slot : Matches(buffer, i, st(r).key) /\ ~ i >= st(r).pos
    <3>1. \A i \in Slot : ~ i >= st(r).pos
      BY <1>6, BufferAssumption DEF ScanEnd, Slot
    <3> QED
      BY <3>1, ContainsIffMatch
  <2>4. ReaderInv(q)
    BY <1>0, <1>6, <2>2, <2>3 DEF ReaderInv, ScanEnd
  <2>5. reader' = [reader EXCEPT ![r] = q] /\ UNCHANGED buffer
    BY <1>6 DEF ScanEnd
  <2> QED
    BY <2>1, <2>4, <2>5, ReaderKeepsBufferInv
<1>7. ASSUME NEW r \in Reader, Load(r) PROVE BufferInv'
  <2> DEFINE q == [reader[r] EXCEPT !.phase = "done", !.value = buffer.slots[st(r).pos]]
  <2>1. st(r).pos \in Slot /\ st(r).found /\ st(r).wasPresent
    BY <1>0, <1>7 DEF ReaderInv, Load
  <2>2. buffer.slots[st(r).pos] \in Entry \cup {Null}
    BY <1>0, <2>1 DEF Buffer
  <2>3. q \in ReaderState
    BY <1>0, <2>2 DEF ReaderState
  <2>4. q.phase = "done" /\ q.found = st(r).found /\ q.wasPresent = st(r).wasPresent
    BY <1>0 DEF ReaderState
  <2>5. ReaderInv(q)
    BY <2>1, <2>4 DEF ReaderInv
  <2>6. reader' = [reader EXCEPT ![r] = q] /\ UNCHANGED buffer
    BY <1>7 DEF Load
  <2> QED
    BY <2>3, <2>5, <2>6, ReaderKeepsBufferInv
<1>8. ASSUME NEW r \in Reader, Return(r) PROVE BufferInv'
  <2>1. Idle \in ReaderState
    BY <1>0, IdleIsAState DEF ReaderState
  <2>2. ReaderInv(Idle)
    BY DEF ReaderInv, Idle
  <2> QED
    BY <1>8, <2>1, <2>2, ReaderKeepsBufferInv DEF Return
<1>9. CASE UNCHANGED vars
  BY <1>9 DEF vars, BufferInv, TypeOK, ReaderInv
<1> QED
  BY <1>1, <1>2, <1>3, <1>4, <1>5, <1>6, <1>7, <1>8, <1>9 DEF Next

(* The inductive invariant, from which the properties follow.              *)
THEOREM BufferInvariant == Spec => []BufferInv
<1>1. Init => BufferInv
  BY BufferInvInit
<1>2. BufferInv /\ [Next]_vars => BufferInv'
  BY BufferInvNext
<1> QED
  BY <1>1, <1>2, PTL DEF Spec

(* Every reachable state is typed: the index never leaves the array.       *)
THEOREM BufferTypeCorrect == Spec => []TypeOK
<1>1. BufferInv => TypeOK
  BY DEF BufferInv
<1> QED
  BY <1>1, BufferInvariant, PTL

(* A step writes no buffer, or one that copies no key.                     *)
LEMMA StepCopiesNone ==
  ASSUME BufferInv, [Next]_vars
  PROVE  UNCHANGED buffer \/ CopiesNone(buffer, buffer')
<1>0. buffer \in Buffer
  BY DEF BufferInv, TypeOK
<1>1. ASSUME NEW e \in Entry, AddOrUpdateEntry(e) PROVE CopiesNone(buffer, buffer')
  BY <1>0, <1>1, AddOrUpdateCopiesNone DEF AddOrUpdateEntry, Write
<1>2. ASSUME NEW k \in Key, RemoveKey(k) PROVE CopiesNone(buffer, buffer')
  BY <1>0, <1>2, RemoveCopiesNone DEF RemoveKey, Write
<1>3. ASSUME NEW r \in Reader, NEW op, NEW k, Call(r, op, k) PROVE UNCHANGED buffer
  BY <1>3 DEF Call
<1>4. ASSUME NEW r \in Reader, ScanMiss(r) \/ ScanHit(r) \/ ScanEnd(r) \/ Load(r) \/ Return(r)
      PROVE  UNCHANGED buffer
  BY <1>4 DEF ScanMiss, ScanHit, ScanEnd, Load, Return
<1> QED
  BY <1>1, <1>2, <1>3, <1>4 DEF Next, vars

(* NoKeyCopied: no addition, update or removal gives a key another slot,   *)
(* whatever the items of the constructor.                                  *)
THEOREM BufferCopiesNoKey == Spec => NoKeyCopied
<1> DEFINE Step == \A k \in Key : \/ SlotsOf(buffer', k) \subseteq SlotsOf(buffer, k)
                                 \/ /\ SlotsOf(buffer, k) = {}
                                    /\ \E i \in Slot : SlotsOf(buffer', k) = {i}
<1>1. BufferInv /\ [Next]_vars => [Step]_vars
  <2> SUFFICES ASSUME BufferInv, [Next]_vars, NEW k \in Key
               PROVE  \/ SlotsOf(buffer', k) \subseteq SlotsOf(buffer, k)
                      \/ /\ SlotsOf(buffer, k) = {}
                         /\ \E i \in Slot : SlotsOf(buffer', k) = {i}
    OBVIOUS
  <2>1. CASE UNCHANGED buffer
    BY <2>1
  <2>2. CASE \A i \in Slot : Matches(buffer', i, k) => Matches(buffer, i, k)
    BY <2>2 DEF SlotsOf
  <2>3. CASE ~ Contains(buffer, k) /\ \E i \in Slot : \A j \in Slot : Matches(buffer', j, k) <=> j = i
    BY <2>3, ContainsIffMatch DEF SlotsOf
  <2> QED
    BY <2>1, <2>2, <2>3, StepCopiesNone DEF CopiesNone
<1> QED
  BY <1>1, BufferInvariant, PTL DEF Spec, NoKeyCopied

(* A buffer made without a key in several slots never has one: its Remove  *)
(* leaves no copy behind.                                                  *)
THEOREM MadeWithoutCopiesStaysWithout == Spec /\ Copied(buffer) = {} => [](Copied(buffer) = {})
<1>1. BufferInv /\ Copied(buffer) = {} /\ [Next]_vars => (Copied(buffer) = {})'
  <2> SUFFICES ASSUME BufferInv, Copied(buffer) = {}, [Next]_vars,
                      NEW k \in Key, NEW i \in Slot, NEW j \in Slot,
                      Matches(buffer', i, k), Matches(buffer', j, k)
               PROVE  i = j
    BY DEF Copied, SlotsOf
  <2>1. \A x, y \in Slot : Matches(buffer, x, k) /\ Matches(buffer, y, k) => x = y
    BY DEF Copied, SlotsOf
  <2> QED
    BY <2>1, StepCopiesNone DEF CopiesNone
<1> QED
  BY <1>1, BufferInvariant, PTL DEF Spec

(* Contains and GetEntry, which take no lock, answer what was true at some *)
(* moment of their call, however many writers and readers there are.       *)
THEOREM LockFreeLookupIsLinearizable == Spec => []LookupIsLinearizable
<1>1. BufferInv => LookupIsLinearizable
  BY DEF BufferInv, ReaderInv, LookupIsLinearizable
<1> QED
  BY <1>1, BufferInvariant, PTL

-----------------------------------------------------------------------------
(* The window of recent insertions: places and slots correspond one to     *)
(* one, whatever the index.                                                *)
LEMMA PlacesAreSlots ==
  ASSUME NEW i \in 0 .. Capacity
  PROVE  /\ \A j \in 1 .. Capacity : SlotAt(i, j) \in Slot
         /\ \A j, l \in 1 .. Capacity : SlotAt(i, j) = SlotAt(i, l) => j = l
         /\ \A s \in Slot : \E j \in 1 .. Capacity : SlotAt(i, j) = s
<1>1. \A j \in 1 .. Capacity : SlotAt(i, j) \in Slot
  BY BufferAssumption DEF SlotAt, Slot
<1>2. \A j, l \in 1 .. Capacity : SlotAt(i, j) = SlotAt(i, l) => j = l
  BY BufferAssumption DEF SlotAt
<1>3. ASSUME NEW s \in Slot PROVE \E j \in 1 .. Capacity : SlotAt(i, j) = s
  <2>1. CASE s >= i
    <3>1. s - i + 1 \in 1 .. Capacity /\ SlotAt(i, s - i + 1) = s
      BY <2>1, BufferAssumption DEF SlotAt, Slot
    <3> QED
      BY <3>1
  <2>2. CASE s < i
    <3>1. s - i + 1 + Capacity \in 1 .. Capacity /\ SlotAt(i, s - i + 1 + Capacity) = s
      BY <2>2, BufferAssumption DEF SlotAt, Slot
    <3> QED
      BY <3>1
  <2> QED
    BY <2>1, <2>2, BufferAssumption DEF Slot
<1> QED
  BY <1>1, <1>2, <1>3

(* What the window of a buffer holds at each place.                        *)
LEMMA WindowPlace ==
  ASSUME NEW j \in 1 .. Capacity, NEW k
  PROVE  Window!At(j, k) <=> Matches(buffer, SlotAt(buffer.index, j), k)
  BY DEF Window!At, OldestFirst, Matches

(* An initial buffer is an initial window.                                 *)
LEMMA WindowInit ==
  ASSUME BufferInv
  PROVE  Window!Init
<1>1. buffer \in Buffer /\ buffer.index \in 0 .. Capacity
  BY DEF BufferInv, TypeOK, Buffer
<1>2. OldestFirst(buffer) \in [1 .. Capacity -> Entry \cup {Null}]
  BY <1>1, PlacesAreSlots DEF OldestFirst, Buffer
<1> QED
  BY <1>2 DEF Window!Init, Window!Place, Window!Entry, Entry

(* Writing one slot is writing the place of that slot in the window.       *)
LEMMA SlotWritten ==
  ASSUME BufferInv, NEW i \in Slot, NEW v, buffer'.index = buffer.index,
         \A j \in Slot : buffer'.slots[j] = IF j = i THEN v ELSE buffer.slots[j]
  PROVE  \E j \in 1 .. Capacity :
            /\ SlotAt(buffer.index, j) = i
            /\ OldestFirst(buffer)' = [OldestFirst(buffer) EXCEPT ![j] = v]
<1>0. buffer.index \in 0 .. Capacity
  BY DEF BufferInv, TypeOK, Buffer
<1>1. PICK j \in 1 .. Capacity : SlotAt(buffer.index, j) = i
  BY <1>0, PlacesAreSlots
<1>2. \A l \in 1 .. Capacity : SlotAt(buffer.index, l) \in Slot
                             /\ (SlotAt(buffer.index, l) = i <=> l = j)
  BY <1>0, <1>1, PlacesAreSlots
<1>3. \A l \in 1 .. Capacity : buffer'.slots[SlotAt(buffer.index, l)] =
         IF l = j THEN v ELSE buffer.slots[SlotAt(buffer.index, l)]
  BY <1>2
<1>4. OldestFirst(buffer)' = [OldestFirst(buffer) EXCEPT ![j] = v]
  BY <1>3 DEF OldestFirst
<1> QED
  BY <1>1, <1>4

(* An addition is an insertion into the window or a replacement in it, or  *)
(* changes nothing when there is no capacity.                              *)
LEMMA AddOrUpdateRefines ==
  ASSUME BufferInv, NEW e \in Entry, AddOrUpdateEntry(e)
  PROVE  [Window!Next]_(OldestFirst(buffer))
<1>0. /\ buffer \in Buffer /\ buffer.index \in 0 .. Capacity
      /\ buffer' = AddOrUpdate(buffer, e)
  BY DEF BufferInv, TypeOK, Buffer, AddOrUpdateEntry, Write
<1>1. CASE Capacity = 0
  BY <1>0, <1>1 DEF AddOrUpdate
<1>2. CASE Capacity # 0
  <2>1. CASE \E i \in Slot : Matches(buffer, i, e.key)
    <3>1. PICK i \in Slot :
            /\ Matches(buffer, i, e.key)
            /\ buffer'.index = buffer.index
            /\ \A j \in Slot : buffer'.slots[j] = IF j = i THEN e ELSE buffer.slots[j]
      BY <1>0, <1>2, <2>1, AddOrUpdateEffect
    <3>2. PICK j \in 1 .. Capacity :
            /\ SlotAt(buffer.index, j) = i
            /\ OldestFirst(buffer)' = [OldestFirst(buffer) EXCEPT ![j] = e]
      BY <3>1, SlotWritten
    <3>3. Window!At(j, e.key)
      BY <3>1, <3>2, WindowPlace
    <3>4. Window!Replace(e)
      BY <3>2, <3>3 DEF Window!Replace, Window!Place
    <3> QED
      BY <3>4 DEF Window!Next, Window!Entry, Entry
  <2>2. CASE \A i \in Slot : ~ Matches(buffer, i, e.key)
    <3>1. /\ buffer'.index = AddSlot(buffer) + 1
          /\ \A j \in Slot : buffer'.slots[j] =
               IF j = AddSlot(buffer) THEN e ELSE buffer.slots[j]
      BY <1>0, <1>2, <2>2, AddOrUpdateEffect
    <3>2. Capacity > 0 /\ ~ Window!Remembered(e.key)
      BY <1>0, <1>2, <2>2, PlacesAreSlots, WindowPlace, BufferAssumption
         DEF Window!Remembered, Window!Place
    <3>3. ASSUME NEW j \in 1 .. Capacity
          PROVE  /\ j = Capacity => SlotAt(buffer'.index, j) = AddSlot(buffer)
                 /\ j < Capacity => /\ SlotAt(buffer'.index, j) = SlotAt(buffer.index, j + 1)
                                    /\ SlotAt(buffer'.index, j) # AddSlot(buffer)
                 /\ SlotAt(buffer'.index, j) \in Slot
      BY <1>0, <1>2, <3>1, BufferAssumption DEF SlotAt, AddSlot, Slot
    <3>4. \A j \in 1 .. Capacity : OldestFirst(buffer)'[j] =
            IF j < Capacity THEN OldestFirst(buffer)[j + 1] ELSE e
      BY <3>1, <3>3, BufferAssumption DEF OldestFirst
    <3>5. Window!Insert(e)
      BY <3>2, <3>4 DEF Window!Insert, Window!Place, OldestFirst
    <3> QED
      BY <3>5 DEF Window!Next, Window!Entry, Entry
  <2> QED
    BY <2>1, <2>2
<1> QED
  BY <1>1, <1>2

(* A removal leaves a hole in the window.                                  *)
LEMMA RemoveRefines ==
  ASSUME BufferInv, NEW k \in Key, RemoveKey(k)
  PROVE  [Window!Next]_(OldestFirst(buffer))
<1>0. buffer \in Buffer /\ buffer' = Remove(buffer, k)
  BY DEF BufferInv, TypeOK, RemoveKey, Write
<1>1. CASE buffer' = buffer
  BY <1>1 DEF OldestFirst
<1>2. ASSUME NEW i \in Slot, Matches(buffer, i, k), buffer'.index = buffer.index,
             \A j \in Slot : buffer'.slots[j] = IF j = i THEN Null ELSE buffer.slots[j]
      PROVE  Window!Forget(k)
  <2>1. PICK j \in 1 .. Capacity :
          /\ SlotAt(buffer.index, j) = i
          /\ OldestFirst(buffer)' = [OldestFirst(buffer) EXCEPT ![j] = Null]
    BY <1>2, SlotWritten
  <2>2. Window!At(j, k)
    BY <1>2, <2>1, WindowPlace
  <2> QED
    BY <2>1, <2>2 DEF Window!Forget, Window!Place
<1> QED
  BY <1>0, <1>1, <1>2, RemoveEffect DEF Window!Next

(* The circular buffer implements the window of its last Capacity          *)
(* insertions, for every capacity and any number of readers.               *)
THEOREM BufferImplementsWindow == Spec => RemembersRecentInsertions
<1>1. Init => Window!Init
  BY BufferInvInit, WindowInit
<1>2. BufferInv /\ [Next]_vars => [Window!Next]_(OldestFirst(buffer))
  <2>1. SUFFICES ASSUME BufferInv, [Next]_vars
                 PROVE  [Window!Next]_(OldestFirst(buffer))
    OBVIOUS
  <2>2. ASSUME NEW r \in Reader, NEW op \in {"Contains", "GetEntry"}, NEW k \in Key, Call(r, op, k)
        PROVE  UNCHANGED buffer
    BY <2>2 DEF Call
  <2>3. ASSUME NEW r \in Reader,
               ScanMiss(r) \/ ScanHit(r) \/ ScanEnd(r) \/ Load(r) \/ Return(r)
        PROVE  UNCHANGED buffer
    BY <2>3 DEF ScanMiss, ScanHit, ScanEnd, Load, Return
  <2>4. UNCHANGED vars => UNCHANGED buffer
    BY DEF vars
  <2>5. UNCHANGED buffer => [Window!Next]_(OldestFirst(buffer))
    BY DEF OldestFirst
  <2> QED
    BY <2>1, <2>2, <2>3, <2>4, <2>5, AddOrUpdateRefines, RemoveRefines DEF Next
<1> QED
  BY <1>1, <1>2, BufferInvariant, PTL DEF Spec, RemembersRecentInsertions, Window!Spec

=============================================================================
