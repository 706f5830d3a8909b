------------------ MODULE InMemoryCircularBufferRepository ------------------
(***************************************************************************)
(* InMemoryCircularBufferRepository: the singleton that keeps a circular   *)
(* buffer per InstanceId in a ConcurrentDictionary.  Instances share no    *)
(* state, so this is the dictionary's entry of one of them and the buffers *)
(* its threads hold on to.  A step is one dictionary operation or one      *)
(* operation of a buffer under its lock; the scan of IsEmpty takes no lock *)
(* and reads a slot a step.  That of a lookup is in EntryCircularBufferDt; *)
(* here ContainsAsync and GetEntryAsync find the buffer and the key in it  *)
(* at one moment.                                                          *)
(*                                                                         *)
(* A buffer that neither the dictionary nor a thread refers to is garbage, *)
(* so one identity more than there are threads is enough for all of them.  *)
(***************************************************************************)
EXTENDS EntryCircularBuffer, FiniteSets

CONSTANTS
  Thread,     \* requests using the repository at the same time
  BufferId,   \* identities of EntryCircularBufferDt objects
  NoBuffer    \* no such object

(* MaxItemsBuffer is never 0: the constructor replaces it by a default.    *)
ASSUME RepositoryAssumption ==
  /\ Capacity # 0
  /\ Entry # {}
  /\ NoBuffer \notin BufferId
  /\ IsFiniteSet(Thread) /\ IsFiniteSet(BufferId)
  /\ Cardinality(BufferId) > Cardinality(Thread)

VARIABLES
  dict,     \* the buffer the dictionary maps the instance to, or NoBuffer
  heap,     \* the contents of each buffer
  thread,   \* for each thread: its operation and where it is in it
  erased    \* history: keys removed by a Remove that met no addition, and
            \* not added since

vars == <<dict, heap, thread, erased>>

Op == {"AddOrUpdate", "Remove", "SetEntries"}

(* A call of SetEntries is given items, the others an entry.  alone is     *)
(* history too: no addition of the key was in progress since the thread's  *)
(* Remove began, and it left no copy of the key behind.                    *)
ThreadState ==
  [pc : {"idle", "tryGet", "tryAdd", "write", "erase", "isEmpty", "tryRemove"},
   op : Op, entry : Entry, items : InitialItems, local : BufferId \cup {NoBuffer},
   pos : 0 .. Capacity, alone : BOOLEAN]

TypeOK ==
  /\ dict \in BufferId \cup {NoBuffer}
  /\ heap \in [BufferId -> Buffer]
  /\ thread \in [Thread -> ThreadState]
  /\ erased \in SUBSET Key

Idle ==
  [pc |-> "idle", op |-> "Remove", entry |-> CHOOSE e \in Entry : TRUE,
   items |-> <<>>, local |-> NoBuffer, pos |-> 0, alone |-> FALSE]

Init ==
  /\ dict = NoBuffer
  /\ heap = [b \in BufferId |-> New(<<>>)]
  /\ thread = [t \in Thread |-> Idle]
  /\ erased = {}

(* ContainsAsync and GetEntryAsync answer for the keys of the buffer in    *)
(* the dictionary.                                                         *)
Visible == IF dict = NoBuffer THEN {} ELSE KeysOf(heap[dict])

(* The keys an addition under way brings, and those it is given twice.     *)
KeysIn(items) == {items[i].key : i \in DOMAIN items}

TwiceIn(items) ==
  {k \in Key : \E i, j \in DOMAIN items : i # j /\ items[i].key = k /\ items[j].key = k}

Brings(t) ==
  CASE thread[t].pc = "idle" \/ thread[t].op = "Remove" -> {}
    [] thread[t].op = "AddOrUpdate" -> {thread[t].entry.key}
    [] thread[t].op = "SetEntries" -> KeysIn(thread[t].items)

Adding(k) == \E t \in Thread : k \in Brings(t)

Unused(b) == b # dict /\ \A t \in Thread : thread[t].local # b

-----------------------------------------------------------------------------
(* A call begins.  An addition of keys ends what is known of their removal.*)
CallBringing(t, keys, call) ==
  /\ thread[t].pc = "idle"
  /\ thread' = [u \in Thread |->
       IF u = t THEN call
       ELSE [thread[u] EXCEPT !.alone = @ /\ thread[u].entry.key \notin keys]]
  /\ erased' = erased \ keys
  /\ UNCHANGED <<dict, heap>>

CallAddOrUpdate(t, e) ==
  CallBringing(t, {e.key}, [Idle EXCEPT !.pc = "tryGet", !.op = "AddOrUpdate", !.entry = e])

(* SetEntries takes as many entries as fit of those it is given.           *)
CallSetEntries(t, items) ==
  CallBringing(t, KeysIn(items), [Idle EXCEPT !.pc = "tryGet", !.op = "SetEntries", !.items = items])

CallRemove(t, e) ==
  /\ thread[t].pc = "idle"
  /\ thread' = [thread EXCEPT ![t] =
       [Idle EXCEPT !.pc = "tryGet", !.entry = e, !.alone = ~ Adding(e.key)]]
  /\ UNCHANGED <<dict, heap, erased>>

End(t) ==
  /\ thread' = [thread EXCEPT ![t] = Idle]
  /\ erased' = IF thread[t].alone THEN erased \cup {thread[t].entry.key} ELSE erased

Continue(t, pc, b) ==
  /\ thread' = [thread EXCEPT ![t].pc = pc, ![t].local = b]
  /\ UNCHANGED erased

(* TryGetValue found the instance's buffer.                                *)
Found(t) ==
  /\ thread[t].pc = "tryGet"
  /\ dict # NoBuffer
  /\ CASE thread[t].op = "AddOrUpdate" -> Continue(t, "write", dict)
       [] thread[t].op = "Remove" -> Continue(t, "erase", dict)
       [] thread[t].op = "SetEntries" -> End(t)
  /\ UNCHANGED <<dict, heap>>

(* It did not: SetEntries makes a buffer of its items, AddOrUpdate of none.*)
Missing(t) ==
  /\ thread[t].pc = "tryGet"
  /\ dict = NoBuffer
  /\ \/ /\ thread[t].op = "Remove"
        /\ End(t)
        /\ UNCHANGED heap
     \/ /\ thread[t].op # "Remove"
        /\ \E b \in BufferId :
             /\ Unused(b)
             /\ heap' = [heap EXCEPT ![b] = New(thread[t].items)]
             /\ Continue(t, "tryAdd", b)
  /\ UNCHANGED dict

(* The result of TryAdd is ignored: a thread that lost the race writes to  *)
(* the buffer it made, which nobody else will see.                         *)
TryAdd(t) ==
  /\ thread[t].pc = "tryAdd"
  /\ dict' = IF dict = NoBuffer THEN thread[t].local ELSE dict
  /\ IF thread[t].op = "SetEntries" THEN End(t)
                                    ELSE Continue(t, "write", thread[t].local)
  /\ UNCHANGED heap

(* A mutant of Write: the buffer is put back into the dictionary.          *)
WriteBack(t) ==
  /\ thread[t].pc = "write"
  /\ heap' = [heap EXCEPT ![thread[t].local] = AddOrUpdate(@, thread[t].entry)]
  /\ dict' = thread[t].local
  /\ End(t)

Write(t) ==
  /\ thread[t].pc = "write"
  /\ heap' = [heap EXCEPT ![thread[t].local] = AddOrUpdate(@, thread[t].entry)]
  /\ End(t)
  /\ UNCHANGED dict

Erase(t) ==
  /\ thread[t].pc = "erase"
  /\ heap' = [heap EXCEPT ![thread[t].local] = Remove(@, thread[t].entry.key)]
  /\ thread' = [thread EXCEPT
       ![t].pc = "isEmpty",
       ![t].alone = @ /\ thread[t].entry.key \notin Copied(heap[thread[t].local])]
  /\ UNCHANGED <<dict, erased>>

(* A mutant of IsEmptyRead: a loop that does not stop at the last slot.    *)
IsEmptyReadPastEnd(t) ==
  LET b == heap[thread[t].local]
      i == thread[t].pos
  IN  /\ thread[t].pc = "isEmpty"
      /\ i \in Slot => Vacant(b, i)
      /\ thread' = [thread EXCEPT ![t].pos = i + 1]
      /\ UNCHANGED <<dict, heap, erased>>

(* IsEmpty stops at the first entry it meets.                              *)
IsEmptyRead(t) ==
  LET b == heap[thread[t].local]
      i == thread[t].pos
  IN  /\ thread[t].pc = "isEmpty"
      /\ \/ /\ i \in Slot /\ Vacant(b, i)
            /\ thread' = [thread EXCEPT ![t].pos = i + 1]
            /\ UNCHANGED erased
         \/ i \in Slot /\ ~ Vacant(b, i) /\ End(t)
         \/ i = Capacity /\ Continue(t, "tryRemove", thread[t].local)
      /\ UNCHANGED <<dict, heap>>

(* TryRemove takes out whatever buffer is in the dictionary by now.        *)
TryRemove(t) ==
  /\ thread[t].pc = "tryRemove"
  /\ dict' = NoBuffer
  /\ End(t)
  /\ UNCHANGED heap

Step(t) == Found(t) \/ Missing(t) \/ TryAdd(t) \/ Write(t) \/ Erase(t)
           \/ IsEmptyRead(t) \/ TryRemove(t)

Next ==
  \E t \in Thread :
    \/ \E e \in Entry : CallAddOrUpdate(t, e) \/ CallRemove(t, e)
    \/ \E items \in InitialItems : CallSetEntries(t, items)
    \/ Step(t)

Spec == Init /\ [][Next]_vars

-----------------------------------------------------------------------------
(* A key removed while nobody was adding it is not found again until it is *)
(* added again, whichever buffers were linked and unlinked meanwhile and   *)
(* whatever else was in them: a rolled-back message is not taken for a     *)
(* known one.  But where a list that SetEntries was given had it twice, a  *)
(* Remove leaves the other copy.                                           *)
ErasedStaysErased == Visible \cap erased = {}

(* The calls that have yet to take effect.  An addition does when it ends; *)
(* a Remove when it erases its key, and if the buffer it found is no longer*)
(* linked it has done so when that was unlinked.                           *)
ToAdd(t) == thread[t].pc # "idle" /\ thread[t].op # "Remove"

ToRemove(t) ==
  /\ thread[t].op = "Remove"
  /\ thread[t].pc = "tryGet" \/ (thread[t].pc = "erase" /\ thread[t].local = dict)

AdditionOf(t) == [by |-> t, keys |-> Brings(t), twice |-> TwiceIn(thread[t].items)]

RemovalOf(t) == <<t, thread[t].entry.key>>

(* The repository is a memory that may lose keys but never makes one up:   *)
(* however the threads link, unlink and share buffers, every operation     *)
(* takes effect at one moment of its call, SetEntries with all its entries.*)
Memory == INSTANCE LossyMemory
          WITH Caller <- Thread, keys <- Visible,
               copied <- IF dict = NoBuffer THEN {} ELSE Copied(heap[dict]),
               adding <- {AdditionOf(t) : t \in {u \in Thread : ToAdd(u)}},
               removing <- {RemovalOf(t) : t \in {u \in Thread : ToRemove(u)}}

IsLossyMemory == Memory!Spec

(* An addition that ended, with no Remove of any key in progress, is found *)
(* (the buffer has room for every key): what the repository's test of      *)
(* AddOrUpdateAsync asserts.                                               *)
AddedIsFound ==
  [][\A t \in Thread :
       /\ thread[t].pc = "write" /\ thread'[t].pc = "idle"
       /\ \A u \in Thread : thread[u].pc # "idle" => thread[u].op # "Remove"
       => thread[t].entry.key \in Visible']_vars

=============================================================================
