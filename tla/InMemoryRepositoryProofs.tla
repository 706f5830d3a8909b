----------------------- MODULE InMemoryRepositoryProofs -----------------------
(***************************************************************************)
(* What holds of InMemoryCircularBufferRepository for every number of      *)
(* threads, buffers and keys, and every capacity: a removed key stays      *)
(* removed, and a buffer that left the dictionary never returns.           *)
(***************************************************************************)
EXTENDS InMemoryCircularBufferRepository, EntryCircularBufferLemmas, TLAPS

Pc == {"idle", "tryGet", "tryAdd", "write", "erase", "isEmpty", "tryRemove"}

(* What a thread may rely on.  A thread whose Remove met no addition of its*)
(* key has it out of sight as soon as its own buffer is no longer linked,  *)
(* or is rid of the key; a thread about to link a buffer is the only one   *)
(* that knows it, and in it are the items it was made of.                  *)
ThreadInv(t) ==
  /\ thread[t].pc \in {"tryAdd", "write", "erase", "isEmpty", "tryRemove"} => thread[t].local \in BufferId
  /\ thread[t].pc \in {"erase", "isEmpty", "tryRemove"} => thread[t].op = "Remove"
  /\ thread[t].pc = "tryAdd" => thread[t].op # "Remove"
  /\ thread[t].pc = "write" => thread[t].op = "AddOrUpdate"
  /\ thread[t].op # "SetEntries" => thread[t].items = <<>>
  /\ thread[t].alone => /\ thread[t].pc # "idle"
                        /\ thread[t].op = "Remove"
                        /\ ~ Adding(thread[t].entry.key)
  /\ (thread[t].alone /\ thread[t].pc = "erase" /\ thread[t].local # dict)
       => thread[t].entry.key \notin Visible
  /\ (thread[t].alone /\ thread[t].pc \in {"isEmpty", "tryRemove"})
       => thread[t].entry.key \notin Visible
  /\ thread[t].pc = "tryAdd" =>
       /\ thread[t].local # dict
       /\ \A u \in Thread \ {t} : thread[u].local # thread[t].local
       /\ heap[thread[t].local] = New(thread[t].items)

IInv ==
  /\ TypeOK
  /\ \A t \in Thread : ThreadInv(t)
  /\ \A k \in erased : ~ Adding(k)
  /\ ErasedStaysErased

-----------------------------------------------------------------------------
(* The keys of a buffer                                                    *)

(* The keys of a buffer are those of its slots.                            *)
LEMMA KeysAreMatches ==
  ASSUME NEW b, NEW k \in Key
  PROVE  k \in KeysOf(b) <=> \E i \in Slot : Matches(b, i, k)
  BY ContainsIffMatch DEF KeysOf

(* A new buffer has the keys of its items, and copies of those that are    *)
(* among them twice; the one AddOrUpdate makes has none.                   *)
LEMMA NewKeys ==
  ASSUME NEW items \in InitialItems
  PROVE  /\ New(items) \in Buffer
         /\ KeysIn(items) \subseteq Key
         /\ KeysOf(New(items)) \subseteq KeysIn(items)
         /\ Copied(New(items)) \subseteq TwiceIn(items)
<1>1. /\ New(items) \in Buffer
      /\ \A i \in DOMAIN items : items[i] \in Entry /\ i - 1 \in Slot
      /\ \A i \in Slot : \/ i + 1 \in DOMAIN items /\ New(items).slots[i] = items[i + 1]
                         \/ i + 1 \notin DOMAIN items /\ New(items).slots[i] = Null
  BY NewEffect
<1> DEFINE c == New(items)
<1> HIDE DEF c
<1>2. \A k \in Key, i \in Slot : Matches(c, i, k) => i + 1 \in DOMAIN items /\ items[i + 1].key = k
  BY <1>1 DEF Matches, c
<1>3. KeysIn(items) \subseteq Key
  BY <1>1 DEF KeysIn, Entry
<1>4. KeysOf(c) \subseteq KeysIn(items)
  <2> SUFFICES ASSUME NEW k \in KeysOf(c) PROVE k \in KeysIn(items)
    OBVIOUS
  <2>1. k \in Key
    BY DEF KeysOf
  <2>2. PICK i \in Slot : Matches(c, i, k)
    BY <2>1, KeysAreMatches
  <2> QED
    BY <1>2, <2>1, <2>2 DEF KeysIn
<1>5. Copied(c) \subseteq TwiceIn(items)
  <2> SUFFICES ASSUME NEW k \in Key, NEW i \in Slot, NEW j \in Slot, i # j,
                      Matches(c, i, k), Matches(c, j, k)
               PROVE  k \in TwiceIn(items)
    BY DEF Copied, SlotsOf
  <2>1. /\ i + 1 \in DOMAIN items /\ items[i + 1].key = k
        /\ j + 1 \in DOMAIN items /\ items[j + 1].key = k
    BY <1>2
  <2>2. i + 1 # j + 1
    BY BufferAssumption DEF Slot
  <2> QED
    BY <2>1, <2>2 DEF TwiceIn
<1> QED
  BY <1>1, <1>3, <1>4, <1>5 DEF c

LEMMA NewEmpty ==
  <<>> \in InitialItems /\ KeysOf(New(<<>>)) = {} /\ Copied(New(<<>>)) = {}
<1>1. <<>> \in InitialItems
  <2>1. <<>> \in [1 .. 0 -> Entry] /\ 0 \in 0 .. Capacity
    BY BufferAssumption
  <2> QED
    BY <2>1 DEF InitialItems
<1>2. KeysIn(<<>>) = {} /\ TwiceIn(<<>>) = {}
  BY DEF KeysIn, TwiceIn
<1> QED
  BY <1>1, <1>2, NewKeys

(* AddOrUpdate brings no key but its own, and copies none.                 *)
LEMMA KeysAfterAdd ==
  ASSUME NEW b \in Buffer, NEW e \in Entry
  PROVE  /\ AddOrUpdate(b, e) \in Buffer
         /\ KeysOf(AddOrUpdate(b, e)) \subseteq KeysOf(b) \cup {e.key}
         /\ Copied(AddOrUpdate(b, e)) \subseteq Copied(b)
<1> DEFINE c == AddOrUpdate(b, e)
<1>1. c \in Buffer /\ CopiesNone(b, c)
  BY AddOrUpdateCopiesNone
<1>2. ASSUME NEW k \in KeysOf(c), k # e.key PROVE k \in KeysOf(b)
  <2>1. k \in Key
    BY DEF KeysOf
  <2>2. PICK i \in Slot : Matches(c, i, k)
    BY <2>1, KeysAreMatches
  <2>3. c.slots[i] = e \/ c.slots[i] = b.slots[i]
    BY RepositoryAssumption, AddOrUpdateEffect
  <2>4. Matches(b, i, k)
    BY <1>2, <2>2, <2>3 DEF Matches
  <2> QED
    BY <2>1, <2>4, KeysAreMatches
<1> HIDE DEF c
<1>3. Copied(c) \subseteq Copied(b)
  BY <1>1 DEF CopiesNone, Copied, SlotsOf
<1> QED
  BY <1>1, <1>2, <1>3 DEF c

(* Remove takes its key away, or a copy of it, and brings none.            *)
LEMMA KeysAfterRemove ==
  ASSUME NEW b \in Buffer, NEW x \in Key
  PROVE  /\ Remove(b, x) \in Buffer
         /\ KeysOf(Remove(b, x)) \subseteq KeysOf(b)
         /\ Copied(Remove(b, x)) \subseteq Copied(b)
         /\ x \in KeysOf(Remove(b, x)) => x \in Copied(b)
<1> DEFINE c == Remove(b, x)
<1>1. c \in Buffer
  BY RemoveEffect
<1>2. \/ c = b /\ \A i \in Slot : ~ Matches(b, i, x)
      \/ \E i \in Slot : /\ Matches(b, i, x)
                         /\ \A j \in Slot : c.slots[j] = IF j = i THEN Null ELSE b.slots[j]
  BY RemoveEffect
<1> HIDE DEF c
<1>3. \A k \in Key, j \in Slot : Matches(c, j, k) => Matches(b, j, k)
  BY <1>2 DEF Matches
<1>4. KeysOf(c) \subseteq KeysOf(b)
  <2> SUFFICES ASSUME NEW k \in KeysOf(c) PROVE k \in KeysOf(b)
    OBVIOUS
  <2>1. k \in Key
    BY DEF KeysOf
  <2> QED
    BY <1>3, <2>1, KeysAreMatches
<1>5. Copied(c) \subseteq Copied(b)
  BY <1>3 DEF Copied, SlotsOf
<1>6. ASSUME x \in KeysOf(c) PROVE x \in Copied(b)
  <2>1. PICK j \in Slot : Matches(c, j, x)
    BY <1>6, KeysAreMatches
  <2>2. PICK i \in Slot : /\ Matches(b, i, x)
                          /\ \A y \in Slot : c.slots[y] = IF y = i THEN Null ELSE b.slots[y]
    BY <1>2, <2>1
  <2>3. j # i
    BY <2>1, <2>2 DEF Matches
  <2> QED
    BY <1>3, <2>1, <2>2, <2>3 DEF Copied, SlotsOf
<1> QED
  BY <1>1, <1>4, <1>5, <1>6 DEF c

-----------------------------------------------------------------------------
(* What a step does to the threads                                         *)

(* The fields of a thread between two calls.                               *)
LEMMA IdleFields ==
  /\ Idle \in ThreadState
  /\ Idle.pc = "idle" /\ Idle.op = "Remove" /\ Idle.local = NoBuffer /\ Idle.pos = 0
  /\ Idle.alone = FALSE /\ Idle.entry \in Entry /\ Idle.items = <<>>
<1>1. (CHOOSE e \in Entry : TRUE) \in Entry
  BY RepositoryAssumption
<1>2. 0 \in 0 .. Capacity
  BY BufferAssumption
<1> QED
  BY <1>1, <1>2, NewEmpty DEF Idle, ThreadState, Op

(* The record of a thread that has no buffer yet.                          *)
Begun(pc, op, e, items, alone) ==
  [pc |-> pc, op |-> op, entry |-> e, items |-> items, local |-> NoBuffer, pos |-> 0, alone |-> alone]

LEMMA BegunIsThreadState ==
  ASSUME NEW pc \in Pc, NEW op \in Op, NEW e \in Entry, NEW items \in InitialItems, NEW a \in BOOLEAN
  PROVE  Begun(pc, op, e, items, a) \in ThreadState
<1>1. 0 \in 0 .. Capacity
  BY BufferAssumption
<1> QED
  BY <1>1 DEF ThreadState, Begun, Pc

(* What the three calls make of the idle record, field by field.           *)
LEMMA BegunEffect ==
  ASSUME NEW op, NEW e, NEW items, NEW c
  PROVE  /\ [Idle EXCEPT !.pc = "tryGet", !.op = op, !.entry = e]
              = Begun("tryGet", op, e, <<>>, Idle.alone)
         /\ [Idle EXCEPT !.pc = "tryGet", !.op = op, !.items = items]
              = Begun("tryGet", op, Idle.entry, items, Idle.alone)
         /\ [Idle EXCEPT !.pc = "tryGet", !.entry = e, !.alone = c]
              = Begun("tryGet", "Remove", e, <<>>, c)
<1> DEFINE x == Idle.entry
           f == Idle.alone
<1>0. Idle = Begun("idle", "Remove", x, <<>>, f)
  BY IdleFields DEF ThreadState, Begun
<1> HIDE DEF x, f
<1>1. [Idle EXCEPT !.pc = "tryGet"] = Begun("tryGet", "Remove", x, <<>>, f)
  BY <1>0 DEF Begun
<1>2. [Begun("tryGet", "Remove", x, <<>>, f) EXCEPT !.op = op] = Begun("tryGet", op, x, <<>>, f)
  BY DEF Begun
<1>3. [Begun("tryGet", op, x, <<>>, f) EXCEPT !.entry = e] = Begun("tryGet", op, e, <<>>, f)
  BY DEF Begun
<1>4. [Begun("tryGet", "Remove", x, <<>>, f) EXCEPT !.entry = e] = Begun("tryGet", "Remove", e, <<>>, f)
  BY DEF Begun
<1>5. [Begun("tryGet", "Remove", e, <<>>, f) EXCEPT !.alone = c] = Begun("tryGet", "Remove", e, <<>>, c)
  BY DEF Begun
<1>6. [Begun("tryGet", op, x, <<>>, f) EXCEPT !.items = items] = Begun("tryGet", op, x, items, f)
  BY DEF Begun
<1>7. [Idle EXCEPT !.pc = "tryGet", !.op = op, !.entry = e] =
        [[[Idle EXCEPT !.pc = "tryGet"] EXCEPT !.op = op] EXCEPT !.entry = e]
  OBVIOUS
<1>8. [Idle EXCEPT !.pc = "tryGet", !.entry = e, !.alone = c] =
        [[[Idle EXCEPT !.pc = "tryGet"] EXCEPT !.entry = e] EXCEPT !.alone = c]
  OBVIOUS
<1>9. [Idle EXCEPT !.pc = "tryGet", !.op = op, !.items = items] =
        [[[Idle EXCEPT !.pc = "tryGet"] EXCEPT !.op = op] EXCEPT !.items = items]
  OBVIOUS
<1>10. [Idle EXCEPT !.pc = "tryGet", !.op = op, !.entry = e] = Begun("tryGet", op, e, <<>>, f)
  BY <1>1, <1>2, <1>3, <1>7
<1>11. [Idle EXCEPT !.pc = "tryGet", !.entry = e, !.alone = c] = Begun("tryGet", "Remove", e, <<>>, c)
  BY <1>1, <1>4, <1>5, <1>8
<1>12. [Idle EXCEPT !.pc = "tryGet", !.op = op, !.items = items] = Begun("tryGet", op, x, items, f)
  BY <1>1, <1>2, <1>6, <1>9
<1> QED
  BY <1>10, <1>11, <1>12 DEF f, x

(* A thread as it was, but for its claim to be alone.                      *)
Stays(u) ==
  /\ thread'[u].pc = thread[u].pc /\ thread'[u].local = thread[u].local
  /\ thread'[u].op = thread[u].op /\ thread'[u].entry = thread[u].entry
  /\ thread'[u].items = thread[u].items

(* A thread at pc with a buffer b in hand.                                 *)
Goes(t, pc, b) ==
  /\ thread'[t].pc = pc /\ thread'[t].local = b
  /\ thread'[t].op = thread[t].op /\ thread'[t].entry = thread[t].entry
  /\ thread'[t].items = thread[t].items
  /\ thread'[t].alone => thread[t].alone

Kept(t) == \A u \in Thread \ {t} : thread'[u] = thread[u]

LEMMA KeptStays ==
  ASSUME NEW t \in Thread, Kept(t), NEW u \in Thread \ {t}
  PROVE  Stays(u)
  BY DEF Kept, Stays

(* Continue changes the place and the buffer of its thread only.           *)
LEMMA ContinueEffect ==
  ASSUME TypeOK, NEW t \in Thread, NEW pc \in Pc, NEW b \in BufferId \cup {NoBuffer}, Continue(t, pc, b)
  PROVE  thread' \in [Thread -> ThreadState] /\ Goes(t, pc, b) /\ Kept(t) /\ erased' = erased
<1> DEFINE r == thread[t]
           q == [pc |-> pc, op |-> r.op, entry |-> r.entry, items |-> r.items, local |-> b,
                 pos |-> r.pos, alone |-> r.alone]
<1>1. r \in ThreadState
  BY DEF TypeOK
<1>2. q \in ThreadState
  BY <1>1 DEF ThreadState, Pc
<1>3. [[r EXCEPT !.pc = pc] EXCEPT !.local = b] = q
  <2> DEFINE p == [pc |-> pc, op |-> r.op, entry |-> r.entry, items |-> r.items,
                   local |-> r.local, pos |-> r.pos, alone |-> r.alone]
  <2>1. [r EXCEPT !.pc = pc] = p
    BY <1>1 DEF ThreadState
  <2>2. [p EXCEPT !.local = b] = q
    OBVIOUS
  <2> QED
    BY <2>1, <2>2
<1>4. thread' = [thread EXCEPT ![t] = q]
  <2>1. thread' = [[thread EXCEPT ![t].pc = pc] EXCEPT ![t].local = b]
    BY DEF Continue
  <2> QED
    BY <2>1, <1>3 DEF TypeOK
<1> HIDE DEF q
<1>5. thread' \in [Thread -> ThreadState] /\ thread'[t] = q /\ Kept(t)
  BY <1>2, <1>4 DEF TypeOK, Kept
<1> QED
  BY <1>5 DEF q, Goes, Continue

(* End makes its thread idle and records what its Remove erased.           *)
LEMMA EndEffect ==
  ASSUME TypeOK, NEW t \in Thread, End(t)
  PROVE  /\ thread' \in [Thread -> ThreadState] /\ thread'[t] = Idle /\ Kept(t)
         /\ erased' = IF thread[t].alone THEN erased \cup {thread[t].entry.key} ELSE erased
  BY IdleFields DEF TypeOK, End, Kept

(* A read of IsEmpty changes the position of its thread only.              *)
LEMMA ReadEffect ==
  ASSUME TypeOK, NEW t \in Thread, NEW i \in 0 .. Capacity,
         thread' = [thread EXCEPT ![t].pos = i]
  PROVE  thread' \in [Thread -> ThreadState] /\ Goes(t, thread[t].pc, thread[t].local) /\ Kept(t)
<1> DEFINE r == thread[t]
           q == [pc |-> r.pc, op |-> r.op, entry |-> r.entry, items |-> r.items,
                 local |-> r.local, pos |-> i, alone |-> r.alone]
<1>1. r \in ThreadState
  BY DEF TypeOK
<1>2. q \in ThreadState
  BY <1>1 DEF ThreadState
<1>3. [r EXCEPT !.pos = i] = q
  BY <1>1 DEF ThreadState
<1>4. thread' = [thread EXCEPT ![t] = q]
  BY <1>3 DEF TypeOK
<1> HIDE DEF q
<1>5. thread' \in [Thread -> ThreadState] /\ thread'[t] = q /\ Kept(t)
  BY <1>2, <1>4 DEF TypeOK, Kept
<1> QED
  BY <1>5 DEF q, Goes

(* Erase gives up the claim to be alone where it leaves a copy of its key. *)
LEMMA EraseEffect ==
  ASSUME TypeOK, NEW t \in Thread, Erase(t)
  PROVE  /\ thread' \in [Thread -> ThreadState]
         /\ Goes(t, "isEmpty", thread[t].local) /\ Kept(t) /\ erased' = erased
         /\ thread'[t].alone => thread[t].entry.key \notin Copied(heap[thread[t].local])
<1> DEFINE r == thread[t]
           a == (r.alone /\ r.entry.key \notin Copied(heap[r.local]))
           p == [pc |-> "isEmpty", op |-> r.op, entry |-> r.entry, items |-> r.items,
                 local |-> r.local, pos |-> r.pos, alone |-> r.alone]
           q == [pc |-> "isEmpty", op |-> r.op, entry |-> r.entry, items |-> r.items,
                 local |-> r.local, pos |-> r.pos, alone |-> a]
<1>0. a \in BOOLEAN /\ (a => r.alone /\ r.entry.key \notin Copied(heap[r.local]))
  OBVIOUS
<1>1. r \in ThreadState
  BY DEF TypeOK
<1>2. thread' = [[thread EXCEPT ![t].pc = "isEmpty"] EXCEPT ![t].alone = a] /\ erased' = erased
  BY DEF Erase
<1> HIDE DEF a
<1>3. q \in ThreadState
  BY <1>0, <1>1 DEF ThreadState
<1>4. [r EXCEPT !.pc = "isEmpty"] = p
  BY <1>1 DEF ThreadState
<1>5. [p EXCEPT !.alone = a] = q
  <2>1. \A pc, op, e, items, l, i, c, d :
          [[pc |-> pc, op |-> op, entry |-> e, items |-> items, local |-> l, pos |-> i, alone |-> c]
             EXCEPT !.alone = d]
          = [pc |-> pc, op |-> op, entry |-> e, items |-> items, local |-> l, pos |-> i, alone |-> d]
    OBVIOUS
  <2> QED
    BY <2>1
<1>6. thread' = [thread EXCEPT ![t] = q]
  <2>1. [[thread EXCEPT ![t].pc = "isEmpty"] EXCEPT ![t].alone = a]
          = [thread EXCEPT ![t] = [[r EXCEPT !.pc = "isEmpty"] EXCEPT !.alone = a]]
    BY DEF TypeOK
  <2> QED
    BY <1>2, <1>4, <1>5, <2>1
<1>7. q.pc = "isEmpty" /\ q.local = r.local /\ q.op = r.op /\ q.entry = r.entry /\ q.items = r.items
      /\ (q.alone <=> a)
  BY <1>0
<1> HIDE DEF q
<1>8. thread' \in [Thread -> ThreadState] /\ thread'[t] = q /\ Kept(t)
  BY <1>3, <1>6 DEF TypeOK, Kept
<1> QED
  BY <1>0, <1>2, <1>7, <1>8 DEF Goes

(* What a thread brings is the same as long as it is not idle again.       *)
LEMMA BringsStep ==
  ASSUME NEW u \in Thread
  PROVE  /\ Stays(u) => Brings(u)' = Brings(u)
         /\ thread'[u] = Idle => Brings(u)' = {}
         /\ \A pc, b : thread[u].pc # "idle" /\ Goes(u, pc, b) /\ pc # "idle" => Brings(u)' = Brings(u)
<1>1. Stays(u) => Brings(u)' = Brings(u)
  BY DEF Stays, Brings, KeysIn
<1>2. thread'[u] = Idle => Brings(u)' = {}
  BY IdleFields DEF Brings
<1>3. ASSUME NEW pc, NEW b, thread[u].pc # "idle", Goes(u, pc, b), pc # "idle"
      PROVE  Brings(u)' = Brings(u)
  BY <1>3 DEF Goes, Brings, KeysIn
<1> QED
  BY <1>1, <1>2, <1>3

(* The keys being added are not more, when a thread goes on or ends.       *)
LEMMA AddingShrinks ==
  ASSUME NEW t \in Thread, Kept(t), thread[t].pc # "idle",
         thread'[t] = Idle \/ \E pc \in Pc \ {"idle"}, b \in BufferId \cup {NoBuffer} : Goes(t, pc, b),
         NEW k, Adding(k)'
  PROVE  Adding(k)
<1>1. PICK u \in Thread : k \in Brings(u)'
  BY DEF Adding
<1>2. CASE u = t
  BY <1>1, <1>2, BringsStep DEF Adding
<1>3. CASE u # t
  BY <1>1, <1>3, BringsStep, KeptStays DEF Adding
<1> QED
  BY <1>2, <1>3

(* What suffices for a step of t to keep the invariant.                    *)
LEMMA StepKeeps ==
  ASSUME IInv, NEW t \in Thread, TypeOK', ThreadInv(t)',
         \A u \in Thread \ {t} :
           Stays(u) /\ (thread'[u].alone => thread[u].alone /\ ~ Adding(thread[u].entry.key)'),
         \A k \in Visible' : k \in Visible \/ Adding(k),
         dict' = dict \/ dict = NoBuffer \/ Visible' = {},
         \A u \in Thread \ {t} : thread[u].pc = "tryAdd" =>
           /\ thread[u].local # dict' /\ thread'[t].local # thread[u].local
           /\ heap'[thread[u].local] = heap[thread[u].local],
         \A k \in erased' : ~ Adding(k)' /\ (k \in erased \/ k \notin Visible')
  PROVE  IInv'
<1>1. ASSUME NEW u \in Thread \ {t} PROVE ThreadInv(u)'
  <2>1. ThreadInv(u)
    BY DEF IInv
  <2>2. thread'[u].alone => (thread[u].entry.key \in Visible' => thread[u].entry.key \in Visible)
    BY <2>1 DEF ThreadInv
  <2>3. (thread'[u].pc = "erase" /\ thread'[u].alone /\ thread'[u].local # dict')
          => thread'[u].entry.key \notin Visible'
    <3>1. CASE dict' = dict
      BY <2>1, <2>2, <3>1 DEF ThreadInv, Stays
    <3>2. CASE dict = NoBuffer
      <4>1. Visible = {}
        BY <3>2 DEF Visible
      <4> QED
        BY <4>1, <2>2 DEF Stays
    <3>3. CASE Visible' = {}
      BY <3>3
    <3> QED
      BY <3>1, <3>2, <3>3
  <2>4. thread'[u].pc = "tryAdd" =>
          /\ thread'[u].local # dict'
          /\ \A v \in Thread \ {u} : thread'[v].local # thread'[u].local
          /\ heap'[thread'[u].local] = New(thread'[u].items)
    BY <2>1 DEF ThreadInv, Stays
  <2>5. thread'[u].alone => ~ Adding(thread[u].entry.key)'
    OBVIOUS
  <2>6. (thread'[u].alone /\ thread'[u].pc \in {"isEmpty", "tryRemove"})
          => thread'[u].entry.key \notin Visible'
    BY <2>1, <2>2 DEF ThreadInv, Stays
  <2>7. New(thread[u].items)' = New(thread'[u].items)
    BY DEF New
  <2>8. /\ thread'[u].pc \in {"tryAdd", "write", "erase", "isEmpty", "tryRemove"}
             => thread'[u].local \in BufferId
        /\ thread'[u].pc \in {"erase", "isEmpty", "tryRemove"} => thread'[u].op = "Remove"
        /\ thread'[u].pc = "tryAdd" => thread'[u].op # "Remove"
        /\ thread'[u].pc = "write" => thread'[u].op = "AddOrUpdate"
        /\ thread'[u].op # "SetEntries" => thread'[u].items = <<>>
        /\ thread'[u].alone => thread'[u].pc # "idle" /\ thread'[u].op = "Remove"
    BY <2>1 DEF ThreadInv, Stays
  <2> QED
    BY <2>3, <2>4, <2>5, <2>6, <2>7, <2>8 DEF ThreadInv
<1>2. \A u \in Thread : ThreadInv(u)'
  BY <1>1
<1>3. ErasedStaysErased'
  <2>1. ASSUME NEW k \in erased', k \in Visible' PROVE FALSE
    BY <2>1 DEF IInv, ErasedStaysErased
  <2> QED
    BY <2>1 DEF ErasedStaysErased
<1> QED
  BY <1>2, <1>3 DEF IInv

(* The keys in sight that are there in copies.                             *)
Doubled == IF dict = NoBuffer THEN {} ELSE Copied(heap[dict])

(* The keys in sight, when the dictionary and its buffer are unchanged,    *)
LEMMA SameSight ==
  ASSUME dict' = dict, dict # NoBuffer => heap'[dict] = heap[dict]
  PROVE  Visible' = Visible /\ Doubled' = Doubled
<1>1. Visible' = Visible
  BY DEF Visible
<1>2. Doubled' = Doubled
  BY DEF Doubled
<1> QED
  BY <1>1, <1>2

(* when a buffer is linked,                                                *)
LEMMA SightAfterLink ==
  ASSUME NEW b \in BufferId, dict' = b, heap' = heap
  PROVE  Visible' = KeysOf(heap[b]) /\ Doubled' = Copied(heap[b])
<1>1. b # NoBuffer
  BY RepositoryAssumption
<1>2. Visible' = KeysOf(heap[dict])' /\ Doubled' = Copied(heap[dict])'
  BY <1>1 DEF Visible, Doubled
<1>3. KeysOf(heap[dict])' = KeysOf(heap'[dict'])
  BY DEF KeysOf, Contains, FindIndex, Matches
<1>4. Copied(heap[dict])' = Copied(heap'[dict'])
  BY DEF Copied, SlotsOf, Matches
<1> QED
  BY <1>2, <1>3, <1>4

(* and when a buffer is changed.                                           *)
LEMMA SightAfterChange ==
  ASSUME IInv, NEW b \in BufferId, NEW c \in Buffer,
         heap' = [heap EXCEPT ![b] = c], dict' = dict
  PROVE  /\ Visible' = IF dict = b THEN KeysOf(c) ELSE Visible
         /\ Doubled' = IF dict = b THEN Copied(c) ELSE Doubled
         /\ dict = b => Visible = KeysOf(heap[b]) /\ Doubled = Copied(heap[b])
<1>0. b # NoBuffer
  BY RepositoryAssumption
<1>1. CASE dict = b
  <2>1. Visible' = KeysOf(heap[dict])' /\ Doubled' = Copied(heap[dict])'
    BY <1>0, <1>1 DEF Visible, Doubled
  <2>2. KeysOf(heap[dict])' = KeysOf(heap'[dict'])
    BY DEF KeysOf, Contains, FindIndex, Matches
  <2>3. Copied(heap[dict])' = Copied(heap'[dict'])
    BY DEF Copied, SlotsOf, Matches
  <2>4. heap'[dict'] = c
    BY <1>1 DEF IInv, TypeOK
  <2>5. Visible = KeysOf(heap[b]) /\ Doubled = Copied(heap[b])
    BY <1>0, <1>1 DEF Visible, Doubled
  <2> QED
    BY <1>1, <2>1, <2>2, <2>3, <2>4, <2>5
<1>2. CASE dict # b
  <2>1. dict # NoBuffer => heap'[dict] = heap[dict]
    BY <1>2 DEF IInv, TypeOK
  <2> QED
    BY <1>2, <2>1, SameSight
<1> QED
  BY <1>1, <1>2

(* The kept threads' share of StepKeeps.                                   *)
LEMMA OthersKept ==
  ASSUME IInv, NEW t \in Thread, Kept(t), thread[t].pc # "idle",
         thread'[t] = Idle \/ \E pc \in Pc \ {"idle"}, b \in BufferId \cup {NoBuffer} : Goes(t, pc, b)
  PROVE  /\ \A u \in Thread \ {t} :
              Stays(u) /\ (thread'[u].alone => thread[u].alone /\ ~ Adding(thread[u].entry.key)')
         /\ \A k \in erased : ~ Adding(k)'
         /\ thread[t].alone => \A k : k = thread[t].entry.key => ~ Adding(k) /\ ~ Adding(k)'
<1>1. \A k : Adding(k)' => Adding(k)
  BY AddingShrinks
<1>2. ASSUME NEW u \in Thread \ {t}
      PROVE  Stays(u) /\ (thread'[u].alone => thread[u].alone /\ ~ Adding(thread[u].entry.key)')
  <2>1. thread'[u] = thread[u] /\ Stays(u)
    BY KeptStays DEF Kept
  <2>2. thread[u].alone => ~ Adding(thread[u].entry.key)
    BY DEF IInv, ThreadInv
  <2>3. ASSUME NEW x, x = thread[u].entry.key, thread[u].alone PROVE ~ Adding(x)'
    BY <1>1, <2>2, <2>3
  <2> QED
    BY <2>1, <2>3
<1>3. \A k \in erased : ~ Adding(k)'
  BY <1>1 DEF IInv
<1>4. thread[t].alone => \A k : k = thread[t].entry.key => ~ Adding(k) /\ ~ Adding(k)'
  BY <1>1 DEF IInv, ThreadInv
<1> QED
  BY <1>2, <1>3, <1>4

-----------------------------------------------------------------------------
(* The calls                                                               *)

(* The record of a call that brings the keys K.                            *)
IsAddition(call, K) ==
  /\ call \in ThreadState
  /\ call.pc = "tryGet" /\ call.op # "Remove" /\ call.local = NoBuffer /\ call.alone = FALSE
  /\ call.op = "AddOrUpdate" => call.items = <<>> /\ K = {call.entry.key}
  /\ call.op = "SetEntries" => K = KeysIn(call.items)
  /\ K \subseteq Key

LEMMA CallsAreAdditions ==
  ASSUME NEW e \in Entry, NEW items \in InitialItems
  PROVE  /\ IsAddition([Idle EXCEPT !.pc = "tryGet", !.op = "AddOrUpdate", !.entry = e], {e.key})
         /\ IsAddition([Idle EXCEPT !.pc = "tryGet", !.op = "SetEntries", !.items = items], KeysIn(items))
<1> DEFINE r == Begun("tryGet", "AddOrUpdate", e, <<>>, FALSE)
           s == Begun("tryGet", "SetEntries", Idle.entry, items, FALSE)
<1>1. /\ [Idle EXCEPT !.pc = "tryGet", !.op = "AddOrUpdate", !.entry = e] = r
      /\ [Idle EXCEPT !.pc = "tryGet", !.op = "SetEntries", !.items = items] = s
  BY BegunEffect, IdleFields
<1>2. r \in ThreadState /\ s \in ThreadState
  BY BegunIsThreadState, IdleFields, NewEmpty DEF Pc, Op
<1>3. /\ r.pc = "tryGet" /\ r.op = "AddOrUpdate" /\ r.entry = e /\ r.items = <<>>
      /\ r.local = NoBuffer /\ r.alone = FALSE
      /\ s.pc = "tryGet" /\ s.op = "SetEntries" /\ s.items = items
      /\ s.local = NoBuffer /\ s.alone = FALSE
  BY DEF Begun
<1>4. {e.key} \subseteq Key /\ KeysIn(items) \subseteq Key
  BY NewKeys DEF Entry
<1> HIDE DEF r, s
<1>5. IsAddition(r, {e.key}) /\ IsAddition(s, KeysIn(items))
  BY <1>2, <1>3, <1>4 DEF IsAddition
<1> QED
  BY <1>1, <1>5

(* What a call changes: its own thread, and the claims of others.          *)
LEMMA BringingEffect ==
  ASSUME IInv, NEW t \in Thread, NEW K, NEW call, IsAddition(call, K), CallBringing(t, K, call)
  PROVE  /\ thread[t].pc = "idle" /\ dict' = dict /\ heap' = heap /\ erased' = erased \ K
         /\ thread' \in [Thread -> ThreadState] /\ thread'[t] = call
         /\ \A u \in Thread \ {t} :
              Stays(u) /\ (thread'[u].alone => thread[u].alone /\ thread[u].entry.key \notin K)
         /\ Brings(t)' = K
<1> DEFINE s(u) == [pc |-> thread[u].pc, op |-> thread[u].op, entry |-> thread[u].entry,
                    items |-> thread[u].items, local |-> thread[u].local, pos |-> thread[u].pos,
                    alone |-> thread[u].alone /\ thread[u].entry.key \notin K]
<1>0. /\ thread[t].pc = "idle" /\ dict' = dict /\ heap' = heap /\ erased' = erased \ K
      /\ \A u \in Thread : thread[u] \in ThreadState
  BY DEF CallBringing, IInv, TypeOK
<1>1. \A u \in Thread : [thread[u] EXCEPT !.alone = @ /\ thread[u].entry.key \notin K] = s(u)
  BY <1>0 DEF ThreadState
<1>2. thread' = [u \in Thread |-> IF u = t THEN call ELSE s(u)]
  BY <1>1 DEF CallBringing
<1>3. \A u \in Thread : s(u) \in ThreadState
  <2> SUFFICES ASSUME NEW u \in Thread PROVE s(u) \in ThreadState
    OBVIOUS
  <2>1. thread[u] \in ThreadState
    BY <1>0
  <2>2. (thread[u].alone /\ thread[u].entry.key \notin K) \in BOOLEAN
    OBVIOUS
  <2> QED
    BY <2>1, <2>2 DEF ThreadState
<1>4. \A u \in Thread : /\ s(u).pc = thread[u].pc /\ s(u).op = thread[u].op
                        /\ s(u).entry = thread[u].entry /\ s(u).items = thread[u].items
                        /\ s(u).local = thread[u].local
                        /\ s(u).alone = (thread[u].alone /\ thread[u].entry.key \notin K)
  OBVIOUS
<1> HIDE DEF s
<1>5. /\ thread' \in [Thread -> ThreadState] /\ thread'[t] = call
      /\ \A u \in Thread \ {t} : thread'[u] = s(u)
  BY <1>2, <1>3 DEF IsAddition
<1>6. \A u \in Thread \ {t} :
        Stays(u) /\ (thread'[u].alone => thread[u].alone /\ thread[u].entry.key \notin K)
  BY <1>4, <1>5 DEF Stays
<1>7. Brings(t)' = K
  <2>1. call.op \in {"AddOrUpdate", "SetEntries"}
    BY DEF IsAddition, ThreadState, Op
  <2>2. KeysIn(thread[t].items)' = KeysIn(call.items)
    BY <1>5 DEF KeysIn
  <2> QED
    BY <1>5, <2>1, <2>2 DEF Brings, IsAddition
<1> QED
  BY <1>0, <1>5, <1>6, <1>7

(* An addition that begins ends the claims of others to be alone.          *)
LEMMA CallBringingKeeps ==
  ASSUME IInv, NEW t \in Thread, NEW K, NEW call, IsAddition(call, K), CallBringing(t, K, call)
  PROVE  IInv'
<1>0. /\ thread[t].pc = "idle" /\ dict' = dict /\ heap' = heap /\ erased' = erased \ K
      /\ thread' \in [Thread -> ThreadState] /\ thread'[t] = call
      /\ \A u \in Thread \ {t} :
           Stays(u) /\ (thread'[u].alone => thread[u].alone /\ thread[u].entry.key \notin K)
      /\ Brings(t)' = K
  BY BringingEffect
<1>1. TypeOK'
  BY <1>0 DEF IInv, TypeOK
<1>2. ASSUME NEW k, Adding(k)' PROVE Adding(k) \/ k \in K
  <2>1. PICK u \in Thread : k \in Brings(u)'
    BY <1>2 DEF Adding
  <2> QED
    BY <2>1, <1>0, BringsStep DEF Adding
<1>3. \A u \in Thread \ {t} :
        Stays(u) /\ (thread'[u].alone => thread[u].alone /\ ~ Adding(thread[u].entry.key)')
  <2> SUFFICES ASSUME NEW u \in Thread \ {t}, thread'[u].alone
               PROVE  thread[u].alone /\ ~ Adding(thread[u].entry.key)'
    BY <1>0
  <2>1. thread[u].alone /\ thread[u].entry.key \notin K /\ Stays(u)
    BY <1>0
  <2>2. ~ Adding(thread[u].entry.key)
    BY <2>1 DEF IInv, ThreadInv
  <2>3. ASSUME NEW x, x = thread[u].entry.key PROVE ~ Adding(x)'
    BY <2>1, <2>2, <2>3, <1>2
  <2> QED
    BY <2>1, <2>3 DEF Stays
<1>4. Visible' = Visible
  BY <1>0, SameSight
<1>5. ThreadInv(t)'
  BY <1>0 DEF ThreadInv, IsAddition, ThreadState, Op
<1>6. \A u \in Thread \ {t} : thread[u].pc = "tryAdd" =>
           /\ thread[u].local # dict' /\ thread'[t].local # thread[u].local
           /\ heap'[thread[u].local] = heap[thread[u].local]
  BY <1>0, RepositoryAssumption DEF IInv, ThreadInv, IsAddition
<1>7. \A k \in erased' : ~ Adding(k)' /\ (k \in erased \/ k \notin Visible')
  BY <1>0, <1>2 DEF IInv
<1> QED
  BY <1>0, <1>1, <1>3, <1>4, <1>5, <1>6, <1>7, StepKeeps

(* A removal that begins is alone unless its key is being added.           *)
LEMMA CallRemoveKeeps ==
  ASSUME IInv, NEW t \in Thread, NEW e \in Entry, CallRemove(t, e)
  PROVE  IInv'
<1> DEFINE r == Begun("tryGet", "Remove", e, <<>>, ~ Adding(e.key))
<1>0. thread[t].pc = "idle" /\ dict' = dict /\ heap' = heap /\ erased' = erased
  BY DEF CallRemove
<1>1. [Idle EXCEPT !.pc = "tryGet", !.entry = e, !.alone = ~ Adding(e.key)] = r
  BY BegunEffect
<1>2. r \in ThreadState
  <2>1. (~ Adding(e.key)) \in BOOLEAN
    OBVIOUS
  <2> QED
    BY <2>1, BegunIsThreadState, NewEmpty DEF Op, Pc
<1>3. thread' = [thread EXCEPT ![t] = r]
  BY <1>1 DEF CallRemove
<1>a. /\ r.pc = "tryGet" /\ r.op = "Remove" /\ r.entry = e /\ r.local = NoBuffer
      /\ r.items = <<>> /\ r.alone = ~ Adding(e.key)
  BY DEF Begun
<1> HIDE DEF r
<1>4. thread' \in [Thread -> ThreadState] /\ thread'[t] = r /\ Kept(t)
  BY <1>2, <1>3 DEF IInv, TypeOK, Kept
<1>5. TypeOK'
  BY <1>0, <1>4 DEF IInv, TypeOK
<1>6. ASSUME NEW k, Adding(k)' PROVE Adding(k)
  <2>1. PICK u \in Thread : k \in Brings(u)'
    BY <1>6 DEF Adding
  <2>2. u # t
    BY <2>1, <1>4, <1>a DEF Brings
  <2> QED
    BY <2>1, <2>2, <1>4, KeptStays, BringsStep DEF Adding
<1>7. \A u \in Thread \ {t} :
        Stays(u) /\ (thread'[u].alone => thread[u].alone /\ ~ Adding(thread[u].entry.key)')
  <2> SUFFICES ASSUME NEW u \in Thread \ {t}
               PROVE  Stays(u) /\ (thread'[u].alone =>
                                     thread[u].alone /\ ~ Adding(thread[u].entry.key)')
    OBVIOUS
  <2>1. thread'[u] = thread[u] /\ Stays(u)
    BY <1>4, KeptStays DEF Kept
  <2>2. thread[u].alone => ~ Adding(thread[u].entry.key)
    BY DEF IInv, ThreadInv
  <2>3. ASSUME NEW x, x = thread[u].entry.key, thread[u].alone PROVE ~ Adding(x)'
    BY <2>2, <2>3, <1>6
  <2> QED
    BY <2>1, <2>3
<1>8. Visible' = Visible
  BY <1>0, SameSight
<1>9. ThreadInv(t)'
  <2>1. ASSUME NEW x, x = e.key, ~ Adding(x) PROVE ~ Adding(x)'
    BY <2>1, <1>6
  <2>2. thread'[t].alone => ~ Adding(thread[t].entry.key)'
    BY <2>1, <1>4, <1>a
  <2> QED
    BY <2>2, <1>4, <1>a DEF ThreadInv
<1>10. \A u \in Thread \ {t} : thread[u].pc = "tryAdd" =>
           /\ thread[u].local # dict' /\ thread'[t].local # thread[u].local
           /\ heap'[thread[u].local] = heap[thread[u].local]
  BY <1>0, <1>4, <1>a, RepositoryAssumption DEF IInv, ThreadInv
<1>11. \A k \in erased' : ~ Adding(k)' /\ (k \in erased \/ k \notin Visible')
  BY <1>0, <1>6 DEF IInv
<1> QED
  BY <1>0, <1>5, <1>7, <1>8, <1>9, <1>10, <1>11, StepKeeps

-----------------------------------------------------------------------------
(* The steps of a call                                                     *)

(* What a step does to the dictionary and the heap, if it is to keep the   *)
(* invariant: sight grows by keys being added, a linked buffer is replaced *)
(* by none, and no other thread's new buffer is linked or written to.      *)
Fits(t) ==
  /\ dict' \in BufferId \cup {NoBuffer}
  /\ heap' \in [BufferId -> Buffer]
  /\ \A k \in Visible' : k \in Visible \/ Adding(k)
  /\ dict' = dict \/ dict = NoBuffer \/ Visible' = {}
  /\ \A u \in Thread \ {t} : thread[u].pc = "tryAdd" =>
       thread[u].local # dict' /\ heap'[thread[u].local] = heap[thread[u].local]

(* A call that ends keeps the invariant if its key is gone by then.        *)
LEMMA EndKeeps ==
  ASSUME IInv, NEW t \in Thread, thread[t].pc # "idle", End(t), Fits(t),
         thread[t].alone => thread[t].entry.key \notin Visible'
  PROVE  IInv'
<1>1. /\ thread' \in [Thread -> ThreadState] /\ thread'[t] = Idle /\ Kept(t)
      /\ erased' = IF thread[t].alone THEN erased \cup {thread[t].entry.key} ELSE erased
  BY EndEffect DEF IInv
<1>2. TypeOK'
  <2>1. thread[t].entry.key \in Key
    BY DEF IInv, TypeOK, ThreadState, Entry
  <2> QED
    BY <1>1, <2>1 DEF IInv, TypeOK, Fits
<1>3. /\ \A u \in Thread \ {t} :
           Stays(u) /\ (thread'[u].alone => thread[u].alone /\ ~ Adding(thread[u].entry.key)')
      /\ \A k \in erased : ~ Adding(k)'
      /\ thread[t].alone => \A k : k = thread[t].entry.key => ~ Adding(k) /\ ~ Adding(k)'
  BY <1>1, OthersKept
<1>4. ThreadInv(t)'
  BY <1>1, IdleFields DEF ThreadInv
<1>5. \A k \in erased' : ~ Adding(k)' /\ (k \in erased \/ k \notin Visible')
  BY <1>1, <1>3
<1>6. \A u \in Thread \ {t} : thread[u].pc = "tryAdd" =>
           /\ thread[u].local # dict' /\ thread'[t].local # thread[u].local
           /\ heap'[thread[u].local] = heap[thread[u].local]
  BY <1>1, IdleFields, RepositoryAssumption DEF IInv, ThreadInv, Fits
<1> QED
  BY <1>2, <1>3, <1>4, <1>5, <1>6, StepKeeps DEF Fits

(* A call that goes on keeps the invariant if it may rely on what its new  *)
(* place promises.                                                         *)
LEMMA GoesKeeps ==
  ASSUME IInv, NEW t \in Thread, thread[t].pc # "idle", NEW pc \in Pc, pc \notin {"idle", "tryAdd"},
         NEW b \in BufferId, Fits(t),
         thread' \in [Thread -> ThreadState], Goes(t, pc, b), Kept(t), erased' = erased,
         pc \in {"erase", "isEmpty", "tryRemove"} => thread[t].op = "Remove",
         pc = "write" => thread[t].op = "AddOrUpdate",
         thread'[t].alone /\ (pc \in {"isEmpty", "tryRemove"} \/ (pc = "erase" /\ b # dict'))
           => thread[t].entry.key \notin Visible',
         \A u \in Thread \ {t} : thread[u].pc = "tryAdd" => thread[u].local # b
  PROVE  IInv'
<1>1. TypeOK'
  BY DEF IInv, TypeOK, Fits
<1>2. /\ \A u \in Thread \ {t} :
           Stays(u) /\ (thread'[u].alone => thread[u].alone /\ ~ Adding(thread[u].entry.key)')
      /\ \A k \in erased : ~ Adding(k)'
      /\ thread[t].alone => \A k : k = thread[t].entry.key => ~ Adding(k) /\ ~ Adding(k)'
  BY OthersKept
<1>3. ThreadInv(t)'
  <2>1. ASSUME NEW x, x = thread[t].entry.key, thread[t].alone PROVE ~ Adding(x)'
    BY <2>1, <1>2
  <2>2. thread'[t].alone => ~ Adding(thread[t].entry.key)'
    BY <2>1 DEF Goes
  <2>3. /\ thread'[t].alone => thread'[t].op = "Remove"
        /\ thread'[t].op # "SetEntries" => thread'[t].items = <<>>
    BY DEF IInv, ThreadInv, Goes
  <2> QED
    BY <2>2, <2>3 DEF ThreadInv, Goes
<1>4. \A k \in erased' : ~ Adding(k)' /\ (k \in erased \/ k \notin Visible')
  BY <1>2
<1>5. \A u \in Thread \ {t} : thread[u].pc = "tryAdd" =>
           /\ thread[u].local # dict' /\ thread'[t].local # thread[u].local
           /\ heap'[thread[u].local] = heap[thread[u].local]
  BY DEF Fits, Goes
<1> QED
  BY <1>1, <1>2, <1>3, <1>4, <1>5, StepKeeps DEF Fits

(* A step that touches neither the dictionary nor the heap fits.           *)
LEMMA UntouchedFits ==
  ASSUME IInv, NEW t \in Thread, dict' = dict, heap' = heap
  PROVE  Fits(t) /\ Visible' = Visible
<1>1. Visible' = Visible
  BY SameSight
<1> QED
  BY <1>1 DEF Fits, IInv, TypeOK, ThreadInv

(* Found hands its thread the linked buffer.                               *)
LEMMA FoundKeeps ==
  ASSUME IInv, NEW t \in Thread, Found(t)
  PROVE  IInv'
<1>1. thread[t].pc = "tryGet" /\ dict \in BufferId /\ Fits(t) /\ Visible' = Visible /\ dict' = dict
  BY UntouchedFits DEF Found, IInv, TypeOK
<1>2. thread[t].op \in Op
  BY DEF IInv, TypeOK, ThreadState
<1>3. \A u \in Thread \ {t} : thread[u].pc = "tryAdd" => thread[u].local # dict
  BY DEF IInv, ThreadInv
<1>4. CASE thread[t].op = "AddOrUpdate"
  <2>1. Continue(t, "write", dict)
    BY <1>4 DEF Found
  <2>2. /\ thread' \in [Thread -> ThreadState] /\ Goes(t, "write", dict) /\ Kept(t) /\ erased' = erased
    BY <2>1, <1>1, ContinueEffect DEF IInv, Pc
  <2> QED
    BY <1>1, <1>3, <1>4, <2>2, GoesKeeps DEF Pc
<1>5. CASE thread[t].op = "Remove"
  <2>1. Continue(t, "erase", dict)
    BY <1>5 DEF Found
  <2>2. /\ thread' \in [Thread -> ThreadState] /\ Goes(t, "erase", dict) /\ Kept(t) /\ erased' = erased
    BY <2>1, <1>1, ContinueEffect DEF IInv, Pc
  <2> QED
    BY <1>1, <1>3, <1>5, <2>2, GoesKeeps DEF Pc
<1>6. CASE thread[t].op = "SetEntries"
  <2>1. End(t)
    BY <1>6 DEF Found
  <2>2. ~ thread[t].alone
    BY <1>6 DEF IInv, ThreadInv
  <2> QED
    BY <1>1, <2>1, <2>2, EndKeeps
<1> QED
  BY <1>2, <1>4, <1>5, <1>6 DEF Op

(* A new buffer is known to the thread that made it, and to nobody else.   *)
LEMMA MissingKeeps ==
  ASSUME IInv, NEW t \in Thread, Missing(t)
  PROVE  IInv'
<1>1. thread[t].pc = "tryGet" /\ dict = NoBuffer /\ dict' = dict /\ Visible = {} /\ Visible' = {}
  BY DEF Missing, Visible
<1>2. CASE thread[t].op = "Remove"
  <2>1. End(t) /\ heap' = heap
    BY <1>2 DEF Missing
  <2>2. Fits(t)
    BY <1>1, <2>1, UntouchedFits
  <2> QED
    BY <1>1, <2>1, <2>2, EndKeeps
<1>3. CASE thread[t].op # "Remove"
  <2> DEFINE c == New(thread[t].items)
  <2>1. PICK b \in BufferId : Unused(b) /\ heap' = [heap EXCEPT ![b] = c] /\ Continue(t, "tryAdd", b)
    BY <1>3 DEF Missing
  <2>2. c \in Buffer
    BY NewKeys DEF IInv, TypeOK, ThreadState
  <2>3. c = New(thread[t].items)
    OBVIOUS
  <2> HIDE DEF c
  <2>4. heap' \in [BufferId -> Buffer] /\ heap'[b] = c
    BY <2>1, <2>2 DEF IInv, TypeOK
  <2>5. thread' \in [Thread -> ThreadState] /\ Goes(t, "tryAdd", b) /\ Kept(t) /\ erased' = erased
    BY <2>1, ContinueEffect DEF IInv, Pc
  <2>6. TypeOK'
    BY <1>1, <2>4, <2>5 DEF IInv, TypeOK
  <2>7. /\ \A u \in Thread \ {t} :
             Stays(u) /\ (thread'[u].alone => thread[u].alone /\ ~ Adding(thread[u].entry.key)')
        /\ \A k \in erased : ~ Adding(k)'
    BY <1>1, <2>5, OthersKept DEF Pc
  <2>8. ThreadInv(t)'
    <3>1. ~ thread'[t].alone /\ (thread'[t].op # "SetEntries" => thread'[t].items = <<>>)
      BY <1>3, <2>5 DEF IInv, ThreadInv, Goes
    <3>2. \A u \in Thread \ {t} : thread'[u].local # b
      BY <2>1, <2>7 DEF Unused, Stays
    <3>3. b # dict'
      BY <1>1, RepositoryAssumption
    <3>4. heap'[thread'[t].local] = New(thread'[t].items)
      BY <2>3, <2>4, <2>5 DEF Goes
    <3>5. thread'[t].pc = "tryAdd" /\ thread'[t].local = b /\ thread'[t].op # "Remove"
      BY <1>3, <2>5 DEF Goes
    <3> QED
      BY <3>1, <3>2, <3>3, <3>4, <3>5 DEF ThreadInv
  <2>9. \A u \in Thread \ {t} : thread[u].pc = "tryAdd" =>
             /\ thread[u].local # dict' /\ thread'[t].local # thread[u].local
             /\ heap'[thread[u].local] = heap[thread[u].local]
    <3> SUFFICES ASSUME NEW u \in Thread \ {t}, thread[u].pc = "tryAdd"
                 PROVE  /\ thread[u].local # dict' /\ thread'[t].local # thread[u].local
                        /\ heap'[thread[u].local] = heap[thread[u].local]
      OBVIOUS
    <3>1. thread[u].local \in BufferId /\ thread[u].local # b
      BY <2>1 DEF IInv, ThreadInv, Unused
    <3> QED
      BY <3>1, <1>1, <2>1, <2>5, RepositoryAssumption DEF IInv, TypeOK, Goes
  <2>10. \A k \in erased' : ~ Adding(k)' /\ (k \in erased \/ k \notin Visible')
    BY <2>5, <2>7
  <2> QED
    BY <1>1, <2>6, <2>7, <2>8, <2>9, <2>10, StepKeeps
<1> QED
  BY <1>2, <1>3

(* What TryAdd links holds what its thread brings and no more, in copies   *)
(* where it was given twice; for AddOrUpdate, nothing yet.                 *)
LEMMA OwnBuffer ==
  ASSUME IInv, NEW t \in Thread, thread[t].pc = "tryAdd"
  PROVE  /\ KeysOf(heap[thread[t].local]) \subseteq Brings(t)
         /\ Copied(heap[thread[t].local]) \subseteq TwiceIn(thread[t].items)
         /\ thread[t].op = "AddOrUpdate" =>
              KeysOf(heap[thread[t].local]) = {} /\ Copied(heap[thread[t].local]) = {}
<1>1. /\ heap[thread[t].local] = New(thread[t].items)
      /\ thread[t].items \in InitialItems /\ thread[t].op \in {"AddOrUpdate", "SetEntries"}
      /\ thread[t].op # "SetEntries" => thread[t].items = <<>>
  BY DEF IInv, ThreadInv, TypeOK, ThreadState, Op
<1>2. /\ KeysOf(New(thread[t].items)) \subseteq KeysIn(thread[t].items)
      /\ Copied(New(thread[t].items)) \subseteq TwiceIn(thread[t].items)
  BY <1>1, NewKeys
<1>3. CASE thread[t].op = "AddOrUpdate"
  BY <1>1, <1>2, <1>3, NewEmpty
<1>4. CASE thread[t].op = "SetEntries"
  BY <1>1, <1>2, <1>4 DEF Brings
<1> QED
  BY <1>1, <1>3, <1>4

(* What is linked holds no more than the entries the thread is adding.     *)
LEMMA TryAddKeeps ==
  ASSUME IInv, NEW t \in Thread, TryAdd(t)
  PROVE  IInv'
<1> DEFINE b == thread[t].local
<1>1. /\ thread[t].pc = "tryAdd" /\ heap' = heap
      /\ dict' = IF dict = NoBuffer THEN b ELSE dict
      /\ b \in BufferId /\ thread[t].op # "Remove" /\ ~ thread[t].alone
      /\ \A u \in Thread \ {t} : thread[u].local # b
  BY DEF TryAdd, IInv, ThreadInv
<1>2. \A k \in Visible' : k \in Visible \/ Adding(k)
  <2>1. CASE dict = NoBuffer
    <3>1. PICK x \in BufferId : x = b
      BY <1>1
    <3>2. Visible' = KeysOf(heap[b])
      BY <1>1, <2>1, <3>1, SightAfterLink
    <3> QED
      BY <1>1, <3>2, OwnBuffer DEF Adding
  <2>2. CASE dict # NoBuffer
    BY <1>1, <2>2, SameSight
  <2> QED
    BY <2>1, <2>2
<1>3. Fits(t)
  <2>1. \A u \in Thread \ {t} : thread[u].pc = "tryAdd" => thread[u].local # dict'
    BY <1>1 DEF IInv, ThreadInv
  <2> QED
    BY <1>1, <1>2, <2>1 DEF Fits, IInv, TypeOK
<1>4. CASE thread[t].op = "SetEntries"
  <2>1. End(t)
    BY <1>4 DEF TryAdd
  <2> QED
    BY <1>1, <1>3, <2>1, EndKeeps
<1>5. CASE thread[t].op = "AddOrUpdate"
  <2>1. Continue(t, "write", b)
    BY <1>5 DEF TryAdd
  <2>2. /\ thread' \in [Thread -> ThreadState] /\ Goes(t, "write", b) /\ Kept(t) /\ erased' = erased
    BY <2>1, <1>1, ContinueEffect DEF IInv, Pc
  <2> HIDE DEF b
  <2> QED
    BY <1>1, <1>3, <1>5, <2>2, GoesKeeps DEF Pc
<1> QED
  BY <1>1, <1>4, <1>5 DEF IInv, TypeOK, ThreadState, Op

(* A change of the buffer a thread writes to or erases from fits, when its *)
(* keys are those it had and those being added.                            *)
LEMMA ChangeFits ==
  ASSUME IInv, NEW t \in Thread, thread[t].pc # "tryAdd",
         NEW b \in BufferId, b = thread[t].local, NEW c \in Buffer,
         heap' = [heap EXCEPT ![b] = c], dict' = dict,
         \A k \in KeysOf(c) : k \in KeysOf(heap[b]) \/ Adding(k)
  PROVE  Fits(t)
<1>1. heap' \in [BufferId -> Buffer]
  BY DEF IInv, TypeOK
<1>2. \A k \in Visible' : k \in Visible \/ Adding(k)
  BY SightAfterChange
<1>3. \A u \in Thread \ {t} : thread[u].pc = "tryAdd" =>
         thread[u].local # dict' /\ heap'[thread[u].local] = heap[thread[u].local]
  <2> SUFFICES ASSUME NEW u \in Thread \ {t}, thread[u].pc = "tryAdd"
               PROVE  thread[u].local # dict' /\ heap'[thread[u].local] = heap[thread[u].local]
    OBVIOUS
  <2>1. /\ thread[u].local \in BufferId /\ thread[u].local # dict
        /\ \A v \in Thread \ {u} : thread[v].local # thread[u].local
    BY DEF IInv, ThreadInv
  <2>2. thread[u].local # b
    BY <2>1
  <2> QED
    BY <2>1, <2>2 DEF IInv, TypeOK
<1> QED
  BY <1>1, <1>2, <1>3 DEF Fits, IInv, TypeOK

(* Write brings into sight no key but one being added.                     *)
LEMMA WriteKeeps ==
  ASSUME IInv, NEW t \in Thread, Write(t)
  PROVE  IInv'
<1> DEFINE b == thread[t].local
           e == thread[t].entry
           c == AddOrUpdate(heap[b], e)
<1>1. /\ thread[t].pc = "write" /\ dict' = dict /\ End(t)
      /\ b \in BufferId /\ thread[t].op = "AddOrUpdate" /\ ~ thread[t].alone
      /\ e \in Entry /\ heap[b] \in Buffer
  BY DEF Write, IInv, ThreadInv, TypeOK, ThreadState
<1>2. heap' = [heap EXCEPT ![b] = c]
  BY <1>1 DEF Write, IInv, TypeOK
<1>3. c \in Buffer /\ KeysOf(c) \subseteq KeysOf(heap[b]) \cup {e.key}
  BY <1>1, KeysAfterAdd
<1>4. Adding(e.key)
  BY <1>1 DEF Adding, Brings
<1> HIDE DEF c
<1>5. Fits(t)
  BY <1>1, <1>2, <1>3, <1>4, ChangeFits
<1> QED
  BY <1>1, <1>5, EndKeeps

(* After Erase the key is out of sight, whichever buffer is linked.        *)
LEMMA EraseKeeps ==
  ASSUME IInv, NEW t \in Thread, Erase(t)
  PROVE  IInv'
<1> DEFINE b == thread[t].local
           x == thread[t].entry.key
           c == Remove(heap[b], x)
<1>1. /\ thread[t].pc = "erase" /\ dict' = dict
      /\ b \in BufferId /\ thread[t].op = "Remove"
      /\ x \in Key /\ heap[b] \in Buffer
  BY DEF Erase, IInv, ThreadInv, TypeOK, ThreadState, Entry
<1>2. heap' = [heap EXCEPT ![b] = c]
  BY <1>1 DEF Erase, IInv, TypeOK
<1>3. /\ c \in Buffer /\ KeysOf(c) \subseteq KeysOf(heap[b])
      /\ x \in KeysOf(c) => x \in Copied(heap[b])
  BY <1>1, KeysAfterRemove
<1> HIDE DEF c
<1>4. Fits(t)
  BY <1>1, <1>2, <1>3, ChangeFits
<1>5. /\ thread' \in [Thread -> ThreadState] /\ Goes(t, "isEmpty", b) /\ Kept(t) /\ erased' = erased
      /\ thread'[t].alone => x \notin Copied(heap[b])
  BY EraseEffect DEF IInv
<1>6. thread'[t].alone => x \notin Visible'
  <2>1. Visible' = IF dict = b THEN KeysOf(c) ELSE Visible
    BY <1>1, <1>2, <1>3, SightAfterChange
  <2>2. thread'[t].alone /\ dict # b => x \notin Visible
    BY <1>1, <1>5 DEF IInv, ThreadInv, Goes
  <2> QED
    BY <1>3, <1>5, <2>1, <2>2
<1>7. \A u \in Thread \ {t} : thread[u].pc = "tryAdd" => thread[u].local # b
  BY <1>1 DEF IInv, ThreadInv
<1> HIDE DEF b
<1> QED
  BY <1>1, <1>4, <1>5, <1>6, <1>7, GoesKeeps DEF Pc

(* The scan of IsEmpty stays inside the array.                             *)
LEMMA IsEmptyReadKeeps ==
  ASSUME IInv, NEW t \in Thread, IsEmptyRead(t)
  PROVE  IInv'
<1> DEFINE b == thread[t].local
           i == thread[t].pos
<1>1. /\ thread[t].pc = "isEmpty" /\ dict' = dict /\ heap' = heap
      /\ b \in BufferId /\ thread[t].op = "Remove" /\ i \in 0 .. Capacity
      /\ thread[t].alone => thread[t].entry.key \notin Visible
  BY DEF IsEmptyRead, IInv, ThreadInv, TypeOK, ThreadState
<1>2. Fits(t) /\ Visible' = Visible
  BY <1>1, UntouchedFits
<1>3. \A u \in Thread \ {t} : thread[u].pc = "tryAdd" => thread[u].local # b
  BY <1>1 DEF IInv, ThreadInv
<1>4. CASE i \in Slot /\ thread' = [thread EXCEPT ![t].pos = i + 1] /\ erased' = erased
  <2>1. i + 1 \in 0 .. Capacity
    BY <1>4, BufferAssumption DEF Slot
  <2>2. /\ thread' \in [Thread -> ThreadState] /\ Goes(t, "isEmpty", b) /\ Kept(t)
    BY <1>1, <1>4, <2>1, ReadEffect DEF IInv
  <2>3. thread'[t].alone => thread[t].alone
    BY <2>2 DEF Goes
  <2> HIDE DEF b, i
  <2> QED
    BY <1>1, <1>2, <1>3, <1>4, <2>2, <2>3, GoesKeeps DEF Pc
<1>5. CASE End(t)
  BY <1>1, <1>2, <1>5, EndKeeps
<1>6. CASE Continue(t, "tryRemove", b)
  <2>1. /\ thread' \in [Thread -> ThreadState] /\ Goes(t, "tryRemove", b) /\ Kept(t) /\ erased' = erased
    BY <1>1, <1>6, ContinueEffect DEF IInv, Pc
  <2>2. thread'[t].alone => thread[t].alone
    BY <2>1 DEF Goes
  <2> HIDE DEF b, i
  <2> QED
    BY <1>1, <1>2, <1>3, <2>1, <2>2, GoesKeeps DEF Pc
<1> QED
  BY <1>4, <1>5, <1>6 DEF IsEmptyRead

(* TryRemove takes everything out of sight.                                *)
LEMMA TryRemoveKeeps ==
  ASSUME IInv, NEW t \in Thread, TryRemove(t)
  PROVE  IInv'
<1>1. thread[t].pc = "tryRemove" /\ dict' = NoBuffer /\ heap' = heap /\ End(t)
  BY DEF TryRemove
<1>2. Visible' = {}
  BY <1>1 DEF Visible
<1>3. Fits(t)
  BY <1>1, <1>2, RepositoryAssumption DEF Fits, IInv, TypeOK, ThreadInv
<1> QED
  BY <1>1, <1>2, <1>3, EndKeeps

-----------------------------------------------------------------------------
(* The theorems                                                            *)

(* The conjuncts hold of every state the repository can reach.             *)
THEOREM RepositoryInvariant == Spec => []IInv
<1>1. Init => IInv
  <2> SUFFICES ASSUME Init PROVE IInv
    OBVIOUS
  <2>1. TypeOK
    BY NewEmpty, NewKeys, IdleFields DEF Init, TypeOK
  <2>2. \A t \in Thread : ThreadInv(t)
    BY IdleFields DEF Init, ThreadInv
  <2>3. ErasedStaysErased
    BY DEF Init, ErasedStaysErased
  <2> QED
    BY <2>1, <2>2, <2>3 DEF Init, IInv
<1>2. IInv /\ [Next]_vars => IInv'
  <2> SUFFICES ASSUME IInv, [Next]_vars PROVE IInv'
    OBVIOUS
  <2>1. ASSUME NEW t \in Thread, NEW e \in Entry, CallAddOrUpdate(t, e) PROVE IInv'
    <3>1. PICK items \in InitialItems : TRUE
      BY NewEmpty
    <3> QED
      BY <2>1, <3>1, CallsAreAdditions, CallBringingKeeps DEF CallAddOrUpdate
  <2>2. ASSUME NEW t \in Thread, NEW items \in InitialItems, CallSetEntries(t, items) PROVE IInv'
    <3>1. PICK e \in Entry : TRUE
      BY RepositoryAssumption
    <3> QED
      BY <2>2, <3>1, CallsAreAdditions, CallBringingKeeps DEF CallSetEntries
  <2>3. ASSUME NEW t \in Thread, NEW e \in Entry, CallRemove(t, e) PROVE IInv'
    BY <2>3, CallRemoveKeeps
  <2>4. ASSUME NEW t \in Thread, Step(t) PROVE IInv'
    BY <2>4, FoundKeeps, MissingKeeps, TryAddKeeps, WriteKeeps, EraseKeeps, IsEmptyReadKeeps,
       TryRemoveKeeps DEF Step
  <2>5. ASSUME UNCHANGED vars PROVE IInv'
    <3>1. dict' = dict /\ heap' = heap /\ thread' = thread /\ erased' = erased
      BY <2>5 DEF vars
    <3>2. Visible' = Visible
      BY <3>1, SameSight
    <3>3. \A t \in Thread : Stays(t)
      BY <3>1 DEF Stays
    <3>4. \A k : Adding(k)' <=> Adding(k)
      BY <3>3, BringsStep DEF Adding
    <3>5. ASSUME NEW t \in Thread PROVE ThreadInv(t)'
      <4>1. ThreadInv(t)
        BY DEF IInv
      <4>2. ~ Adding(thread[t].entry.key) => ~ Adding(thread[t].entry.key)'
        <5>1. ASSUME NEW x, x = thread[t].entry.key, ~ Adding(x) PROVE ~ Adding(x)'
          BY <3>4, <5>1
        <5> QED
          BY <3>1, <5>1
      <4> QED
        BY <3>1, <3>2, <4>1, <4>2 DEF ThreadInv
    <3> QED
      BY <3>1, <3>2, <3>4, <3>5 DEF IInv, TypeOK, ErasedStaysErased
  <2> QED
    BY <2>1, <2>2, <2>3, <2>4, <2>5 DEF Next
<1> QED
  BY <1>1, <1>2, PTL DEF Spec

(* TypeOK: every reference is to a buffer, and no scan of IsEmpty leaves   *)
(* the array.                                                              *)
THEOREM RepositoryTypeCorrect == Spec => []TypeOK
<1>1. IInv => TypeOK
  BY DEF IInv
<1> QED
  BY <1>1, RepositoryInvariant, PTL

(* ErasedStaysErased: what Remove took out while nobody was adding it is   *)
(* not found again until it is added again, unless SetEntries was given it *)
(* twice and a copy was left.                                              *)
THEOREM ErasedKeysStayErased == Spec => []ErasedStaysErased
<1>1. IInv => ErasedStaysErased
  BY DEF IInv
<1> QED
  BY <1>1, RepositoryInvariant, PTL

(* A buffer that left the dictionary never returns to it: what threads     *)
(* still holding it write there, and what was in it, stays out of sight.   *)
UnlinkedStaysUnlinked ==
  [][\A t \in Thread :
       thread[t].pc \in {"write", "erase", "isEmpty", "tryRemove"} /\ thread[t].local # dict
         => thread[t].local # dict']_vars

(* UnlinkedStaysUnlinked: only the buffer its maker has yet to offer is    *)
(* ever linked, so one that was unlinked is not linked again.              *)
THEOREM UnlinkedBuffersStayUnlinked == Spec => UnlinkedStaysUnlinked
<1> DEFINE Stay == \A t \in Thread :
       thread[t].pc \in {"write", "erase", "isEmpty", "tryRemove"} /\ thread[t].local # dict
         => thread[t].local # dict'
<1>1. IInv /\ [Next]_vars => [Stay]_vars
  <2> SUFFICES ASSUME IInv, Next, NEW t \in Thread,
                      thread[t].pc \in {"write", "erase", "isEmpty", "tryRemove"},
                      thread[t].local # dict
               PROVE  thread[t].local # dict'
    OBVIOUS
  <2>1. thread[t].local # NoBuffer
    BY RepositoryAssumption DEF IInv, ThreadInv
  <2>2. dict' \in {dict, NoBuffer} \/ \E u \in Thread : TryAdd(u)
    BY DEF Next, Step, CallBringing, CallAddOrUpdate, CallSetEntries, CallRemove, Found, Missing,
       Write, Erase, IsEmptyRead, TryRemove
  <2>3. ASSUME NEW u \in Thread, TryAdd(u) PROVE thread[t].local # dict'
    BY <2>1, <2>3 DEF TryAdd, IInv, ThreadInv
  <2> QED
    BY <2>1, <2>2, <2>3
<1> QED
  BY <1>1, RepositoryInvariant, PTL DEF Spec, UnlinkedStaysUnlinked

-----------------------------------------------------------------------------
(* The repository is a memory that may lose keys                           *)

Additions == {AdditionOf(t) : t \in {u \in Thread : ToAdd(u)}}
Removals == {RemovalOf(t) : t \in {u \in Thread : ToRemove(u)}}

(* An addition is known by its caller.                                     *)
LEMMA CallersDiffer ==
  ASSUME NEW t \in Thread, NEW u \in Thread, t # u
  PROVE  AdditionOf(t) # AdditionOf(u)
<1>1. AdditionOf(t).by = t /\ AdditionOf(u).by = u
  BY DEF AdditionOf
<1> QED
  BY <1>1

(* It stays what it is while its call goes on.                             *)
LEMMA SameCall ==
  ASSUME NEW u \in Thread, thread'[u].items = thread[u].items, thread'[u].entry = thread[u].entry,
         Brings(u)' = Brings(u)
  PROVE  AdditionOf(u)' = AdditionOf(u) /\ RemovalOf(u)' = RemovalOf(u)
<1>1. AdditionOf(u)' = AdditionOf(u)
  BY DEF AdditionOf, TwiceIn
<1>2. RemovalOf(u)' = RemovalOf(u)
  BY DEF RemovalOf
<1> QED
  BY <1>1, <1>2

(* The additions to come, when one thread takes a step.                    *)
LEMMA AdditionsStep ==
  ASSUME NEW t \in Thread, \A u \in Thread \ {t} : Stays(u)
  PROVE  /\ ~ ToAdd(t) /\ ~ ToAdd(t)' => Additions' = Additions
         /\ ToAdd(t) /\ ToAdd(t)' /\ AdditionOf(t)' = AdditionOf(t) => Additions' = Additions
         /\ ToAdd(t) /\ ~ ToAdd(t)' => Additions' = Additions \ {AdditionOf(t)}
         /\ ~ ToAdd(t) /\ ToAdd(t)' => Additions' = Additions \cup {AdditionOf(t)'}
<1>1. \A u \in Thread \ {t} : (ToAdd(u)' <=> ToAdd(u)) /\ AdditionOf(u)' = AdditionOf(u)
  <2> SUFFICES ASSUME NEW u \in Thread \ {t}
               PROVE  (ToAdd(u)' <=> ToAdd(u)) /\ AdditionOf(u)' = AdditionOf(u)
    OBVIOUS
  <2>1. Stays(u)
    OBVIOUS
  <2>2. Brings(u)' = Brings(u)
    BY <2>1, BringsStep
  <2>3. AdditionOf(u)' = AdditionOf(u)
    BY <2>1, <2>2, SameCall DEF Stays
  <2> QED
    BY <2>1, <2>3 DEF ToAdd, Stays
<1>2. \A u \in Thread \ {t} : AdditionOf(u) # AdditionOf(t)
  BY CallersDiffer
<1>3. \A x : x \in Additions <=> \E u \in Thread : ToAdd(u) /\ x = AdditionOf(u)
  BY DEF Additions
<1>4. \A x : x \in Additions' <=> \E u \in Thread : ToAdd(u)' /\ x = AdditionOf(u)'
  BY DEF Additions
<1> QED
  BY <1>1, <1>2, <1>3, <1>4

(* The removals to come, when no buffer a thread is about to erase from is *)
(* linked or unlinked.                                                     *)
LEMMA RemovalsStep ==
  ASSUME NEW t \in Thread,
         \A u \in Thread \ {t} : (ToRemove(u)' <=> ToRemove(u)) /\ thread'[u].entry = thread[u].entry
  PROVE  /\ ~ ToRemove(t) /\ ~ ToRemove(t)' => Removals' = Removals
         /\ ToRemove(t) /\ ToRemove(t)' /\ thread'[t].entry = thread[t].entry => Removals' = Removals
         /\ ToRemove(t) /\ ~ ToRemove(t)' => Removals' = Removals \ {RemovalOf(t)}
         /\ ~ ToRemove(t) /\ ToRemove(t)' => Removals' = Removals \cup {RemovalOf(t)'}
  BY DEF Removals, RemovalOf

Refined == [Memory!Next]_(Memory!vars)

(* The steps of the memory, in terms of the repository.                    *)
LEMMA MemorySteps ==
  ASSUME NEW t \in Thread, NEW k \in Key, NEW a,
         a \in [by : Thread, keys : SUBSET Key, twice : SUBSET Key]
  PROVE  /\ UNCHANGED <<Visible, Doubled, Additions, Removals>> => Refined
         /\ /\ Additions' = Additions \cup {a}
            /\ UNCHANGED <<Visible, Doubled, Removals>>
            => Refined
         /\ /\ Removals' = Removals \cup {<<t, k>>}
            /\ UNCHANGED <<Visible, Doubled, Additions>>
            => Refined
         /\ /\ a \in Additions /\ Additions' = Additions \ {a}
            /\ Visible' \subseteq Visible \cup a.keys /\ Doubled' \subseteq Doubled \cup a.twice
            /\ UNCHANGED Removals
            => Refined
         /\ /\ Visible' \subseteq Visible /\ Doubled' \subseteq Doubled /\ Removals' \subseteq Removals
            /\ \A r \in Removals \ Removals' : r[2] \in Visible' => r[2] \in Doubled
            /\ UNCHANGED Additions
            => Refined
<1>0. a \in Memory!Addition
  BY DEF Memory!Addition
<1>1. UNCHANGED <<Visible, Doubled, Additions, Removals>> => Refined
  BY DEF Refined, Additions, Removals, Doubled, Memory!vars
<1>2. Additions' = Additions \cup {a} /\ UNCHANGED <<Visible, Doubled, Removals>> => Refined
  BY <1>0 DEF Refined, Additions, Removals, Doubled, Memory!Next, Memory!BeginAdd
<1>3. Removals' = Removals \cup {<<t, k>>} /\ UNCHANGED <<Visible, Doubled, Additions>> => Refined
  BY DEF Refined, Additions, Removals, Doubled, Memory!Next, Memory!BeginRemove
<1>4. /\ a \in Additions /\ Additions' = Additions \ {a}
      /\ Visible' \subseteq Visible \cup a.keys /\ Doubled' \subseteq Doubled \cup a.twice
      /\ UNCHANGED Removals
      => Refined
  BY <1>0 DEF Refined, Additions, Removals, Doubled, Memory!Next, Memory!Add
<1>5. /\ Visible' \subseteq Visible /\ Doubled' \subseteq Doubled /\ Removals' \subseteq Removals
      /\ \A r \in Removals \ Removals' : r[2] \in Visible' => r[2] \in Doubled
      /\ UNCHANGED Additions
      => Refined
  BY DEF Refined, Additions, Removals, Doubled, Memory!Next, Memory!Forget
<1> QED
  BY <1>1, <1>2, <1>3, <1>4, <1>5

(* An addition under way is one of the memory's.                           *)
LEMMA AdditionType ==
  ASSUME IInv, NEW t \in Thread
  PROVE  /\ AdditionOf(t) \in [by : Thread, keys : SUBSET Key, twice : SUBSET Key]
         /\ AdditionOf(t).keys = Brings(t) /\ AdditionOf(t).twice = TwiceIn(thread[t].items)
<1>1. /\ thread[t].op \in Op /\ thread[t].entry.key \in Key
      /\ thread[t].items \in InitialItems
  BY DEF IInv, TypeOK, ThreadState, Entry
<1>2. KeysIn(thread[t].items) \subseteq Key
  BY <1>1, NewKeys
<1>3. Brings(t) \subseteq Key
  BY <1>1, <1>2 DEF Brings, Op
<1>4. TwiceIn(thread[t].items) \subseteq Key
  BY DEF TwiceIn
<1> QED
  BY <1>3, <1>4 DEF AdditionOf

(* What the other threads have to come stays to come.                      *)
LEMMA OthersToCome ==
  ASSUME NEW t \in Thread, Kept(t), dict' = dict
  PROVE  \A u \in Thread \ {t} : Stays(u) /\ (ToRemove(u)' <=> ToRemove(u))
  BY KeptStays DEF Stays, ToRemove

(* An addition that ends takes effect then.                                *)
LEMMA EndRefines ==
  ASSUME IInv, NEW t \in Thread, End(t), ToAdd(t),
         \A u \in Thread \ {t} : ToRemove(u)' <=> ToRemove(u),
         Visible' \subseteq Visible \cup Brings(t),
         Doubled' \subseteq Doubled \cup TwiceIn(thread[t].items)
  PROVE  Refined
<1>1. thread'[t] = Idle /\ Kept(t)
  BY EndEffect DEF IInv
<1>2. ~ ToAdd(t)' /\ ~ ToRemove(t) /\ ~ ToRemove(t)'
  BY <1>1, IdleFields DEF ToAdd, ToRemove
<1>3. PICK a : a = AdditionOf(t)
  OBVIOUS
<1>4. a \in Additions /\ Additions' = Additions \ {a}
  <2>1. Additions' = Additions \ {AdditionOf(t)}
    BY <1>1, <1>2, KeptStays, AdditionsStep
  <2> QED
    BY <1>3, <2>1 DEF Additions
<1>5. Removals' = Removals
  BY <1>1, <1>2, RemovalsStep DEF Kept
<1>6. thread[t].entry.key \in Key
  BY DEF IInv, TypeOK, ThreadState, Entry
<1>7. /\ a \in [by : Thread, keys : SUBSET Key, twice : SUBSET Key]
      /\ Visible' \subseteq Visible \cup a.keys /\ Doubled' \subseteq Doubled \cup a.twice
  BY <1>3, AdditionType
<1> QED
  BY <1>4, <1>5, <1>6, <1>7, MemorySteps

(* A call that goes on, with the same keys in sight, has nothing more or   *)
(* less to come; or it is a removal that is over.                          *)
LEMMA GoesRefines ==
  ASSUME IInv, NEW t \in Thread, thread[t].pc # "idle", NEW pc \in Pc, pc # "idle",
         NEW b \in BufferId \cup {NoBuffer}, Goes(t, pc, b), Kept(t),
         \A u \in Thread \ {t} : ToRemove(u)' <=> ToRemove(u),
         ToRemove(t)' => ToRemove(t),
         Visible' \subseteq Visible, Doubled' \subseteq Doubled,
         \/ Visible' = Visible /\ Doubled' = Doubled /\ (ToRemove(t) => ToRemove(t)')
         \/ ToRemove(t) /\ (thread[t].entry.key \in Visible' => thread[t].entry.key \in Doubled)
  PROVE  Refined
<1>1. ToAdd(t)' <=> ToAdd(t)
  BY DEF Goes, ToAdd
<1>2. Additions' = Additions
  <2>1. Brings(t)' = Brings(t)
    BY BringsStep
  <2>2. AdditionOf(t)' = AdditionOf(t)
    BY <2>1, SameCall DEF Goes
  <2> QED
    BY <1>1, <2>2, AdditionsStep, KeptStays
<1>3. Removals' = Removals \/ (ToRemove(t) /\ Removals' = Removals \ {RemovalOf(t)})
  BY RemovalsStep DEF Kept, Goes
<1>4. thread[t].entry.key \in Key
  BY DEF IInv, TypeOK, ThreadState, Entry
<1>5. PICK a : a = AdditionOf(t) /\ a \in [by : Thread, keys : SUBSET Key, twice : SUBSET Key]
  BY AdditionType
<1>6. CASE Visible' = Visible /\ Doubled' = Doubled /\ (ToRemove(t) => ToRemove(t)')
  <2>1. Removals' = Removals
    BY <1>6, RemovalsStep DEF Kept, Goes
  <2> QED
    BY <1>2, <1>4, <1>5, <1>6, <2>1, MemorySteps
<1>7. CASE ToRemove(t) /\ (thread[t].entry.key \in Visible' => thread[t].entry.key \in Doubled)
  <2>1. \A r \in Removals \ Removals' : r[2] \in Visible' => r[2] \in Doubled
    BY <1>3, <1>7 DEF RemovalOf
  <2> QED
    BY <1>2, <1>3, <1>4, <1>5, <2>1, MemorySteps
<1> QED
  BY <1>6, <1>7

(* A call that begins has its effect to come.                              *)
LEMMA CallBringingRefines ==
  ASSUME IInv, NEW t \in Thread, NEW K, NEW call, IsAddition(call, K), CallBringing(t, K, call)
  PROVE  Refined
<1>1. /\ thread[t].pc = "idle" /\ dict' = dict /\ heap' = heap /\ thread'[t] = call
      /\ \A u \in Thread \ {t} : Stays(u)
      /\ Brings(t)' = K
  BY BringingEffect
<1>2. PICK a : a = AdditionOf(t)'
  OBVIOUS
<1>3. a \in [by : Thread, keys : SUBSET Key, twice : SUBSET Key]
  <2>1. TwiceIn(thread[t].items)' \subseteq Key
    BY DEF TwiceIn
  <2>2. K \subseteq Key
    BY DEF IsAddition
  <2>3. a = [by |-> t, keys |-> Brings(t)', twice |-> TwiceIn(thread[t].items)']
    BY <1>2 DEF AdditionOf
  <2> QED
    BY <1>1, <2>1, <2>2, <2>3
<1>4. Additions' = Additions \cup {a}
  <2>1. ~ ToAdd(t) /\ ToAdd(t)'
    BY <1>1 DEF ToAdd, IsAddition
  <2> QED
    BY <1>1, <1>2, <2>1, AdditionsStep
<1>5. Removals' = Removals
  <2>1. ~ ToRemove(t) /\ ~ ToRemove(t)'
    BY <1>1 DEF ToRemove, IsAddition
  <2>2. \A u \in Thread \ {t} : (ToRemove(u)' <=> ToRemove(u)) /\ thread'[u].entry = thread[u].entry
    BY <1>1 DEF ToRemove, Stays
  <2> QED
    BY <2>1, <2>2, RemovalsStep
<1>6. Visible' = Visible /\ Doubled' = Doubled
  BY <1>1, SameSight
<1>7. PICK k \in Key : TRUE
  BY RepositoryAssumption DEF Entry
<1> QED
  BY <1>3, <1>4, <1>5, <1>6, <1>7, MemorySteps

LEMMA CallRemoveRefines ==
  ASSUME IInv, NEW t \in Thread, NEW e \in Entry, CallRemove(t, e)
  PROVE  Refined
<1>1. /\ thread[t].pc = "idle" /\ dict' = dict /\ heap' = heap /\ e.key \in Key
      /\ Kept(t) /\ thread'[t] = Begun("tryGet", "Remove", e, <<>>, ~ Adding(e.key))
  <2>1. [Idle EXCEPT !.pc = "tryGet", !.entry = e, !.alone = ~ Adding(e.key)]
          = Begun("tryGet", "Remove", e, <<>>, ~ Adding(e.key))
    BY BegunEffect
  <2> QED
    BY <2>1 DEF CallRemove, Entry, IInv, TypeOK, Kept
<1>2. /\ thread'[t].pc = "tryGet" /\ thread'[t].op = "Remove" /\ thread'[t].entry = e
  BY <1>1 DEF Begun
<1>3. Additions' = Additions
  <2>1. ~ ToAdd(t) /\ ~ ToAdd(t)'
    BY <1>1, <1>2 DEF ToAdd
  <2> QED
    BY <1>1, <2>1, KeptStays, AdditionsStep
<1>4. Removals' = Removals \cup {<<t, e.key>>}
  <2>1. ~ ToRemove(t) /\ ToRemove(t)'
    BY <1>1, <1>2 DEF ToRemove
  <2>2. RemovalOf(t)' = <<t, e.key>>
    BY <1>2 DEF RemovalOf
  <2> QED
    BY <1>1, <2>1, <2>2, OthersToCome, RemovalsStep DEF Stays
<1>5. Visible' = Visible /\ Doubled' = Doubled
  BY <1>1, SameSight
<1>6. PICK a : a \in [by : Thread, keys : SUBSET Key, twice : SUBSET Key]
  BY AdditionType
<1> QED
  BY <1>1, <1>3, <1>4, <1>5, <1>6, MemorySteps

(* Found changes nothing, but that SetEntries, which finds a buffer, ends. *)
LEMMA FoundRefines ==
  ASSUME IInv, NEW t \in Thread, Found(t)
  PROVE  Refined
<1>1. thread[t].pc = "tryGet" /\ dict' = dict /\ heap' = heap /\ dict \in BufferId /\ thread[t].op \in Op
  BY DEF Found, IInv, TypeOK, ThreadState
<1>2. Visible' = Visible /\ Doubled' = Doubled
  BY <1>1, SameSight
<1>3. CASE thread[t].op = "SetEntries"
  <2>1. End(t) /\ ToAdd(t)
    BY <1>1, <1>3 DEF Found, ToAdd
  <2>2. Kept(t)
    BY <2>1, EndEffect DEF IInv
  <2> QED
    BY <1>1, <1>2, <2>1, <2>2, OthersToCome, EndRefines
<1>4. ASSUME NEW pc \in {"write", "erase"}, Continue(t, pc, dict),
             pc = "erase" <=> thread[t].op = "Remove"
      PROVE  Refined
  <2>1. Goes(t, pc, dict) /\ Kept(t)
    BY <1>1, <1>4, ContinueEffect DEF IInv, Pc
  <2>2. ToRemove(t)' <=> ToRemove(t)
    BY <1>1, <1>4, <2>1 DEF ToRemove, Goes
  <2> QED
    BY <1>1, <1>2, <2>1, <2>2, OthersToCome, GoesRefines DEF Pc
<1> QED
  BY <1>1, <1>3, <1>4 DEF Found, Op

(* Missing changes nothing, but that a Remove finds nothing to remove.     *)
LEMMA MissingRefines ==
  ASSUME IInv, NEW t \in Thread, Missing(t)
  PROVE  Refined
<1>1. /\ thread[t].pc = "tryGet" /\ dict = NoBuffer /\ dict' = dict
      /\ Visible = {} /\ Visible' = {} /\ Doubled = {} /\ Doubled' = {}
  BY DEF Missing, Visible, Doubled
<1>2. CASE thread[t].op = "Remove"
  <2>1. End(t) /\ ToRemove(t) /\ ~ ToAdd(t)
    BY <1>1, <1>2 DEF Missing, ToRemove, ToAdd
  <2>2. thread'[t] = Idle /\ Kept(t)
    BY <2>1, EndEffect DEF IInv
  <2>3. ~ ToRemove(t)' /\ ~ ToAdd(t)'
    BY <2>2, IdleFields DEF ToRemove, ToAdd
  <2>4. Additions' = Additions
    BY <2>1, <2>2, <2>3, KeptStays, AdditionsStep
  <2>5. Removals' = Removals \ {RemovalOf(t)}
    BY <1>1, <2>1, <2>2, <2>3, OthersToCome, RemovalsStep DEF Stays
  <2>6. thread[t].entry.key \in Key
    BY DEF IInv, TypeOK, ThreadState, Entry
  <2>7. PICK a : a \in [by : Thread, keys : SUBSET Key, twice : SUBSET Key]
    BY AdditionType
  <2> QED
    BY <1>1, <2>4, <2>5, <2>6, <2>7, MemorySteps
<1>3. CASE thread[t].op # "Remove"
  <2>1. PICK b \in BufferId : Continue(t, "tryAdd", b)
    BY <1>3 DEF Missing
  <2>2. Goes(t, "tryAdd", b) /\ Kept(t)
    BY <2>1, ContinueEffect DEF IInv, Pc
  <2>3. ~ ToRemove(t)' /\ ~ ToRemove(t)
    BY <1>3, <2>2 DEF ToRemove, Goes
  <2> QED
    BY <1>1, <2>2, <2>3, OthersToCome, GoesRefines DEF Pc
<1> QED
  BY <1>2, <1>3

(* The entries of SetEntries come into sight; the buffer of AddOrUpdate is *)
(* empty still.                                                            *)
LEMMA TryAddRefines ==
  ASSUME IInv, NEW t \in Thread, TryAdd(t)
  PROVE  Refined
<1> DEFINE b == thread[t].local
<1>1. /\ thread[t].pc = "tryAdd" /\ heap' = heap
      /\ dict' = IF dict = NoBuffer THEN b ELSE dict
      /\ b \in BufferId /\ thread[t].op # "Remove" /\ thread[t].op \in Op
      /\ \A u \in Thread \ {t} : thread[u].local # b
  BY DEF TryAdd, IInv, ThreadInv, TypeOK, ThreadState
<1>2. /\ Visible' = IF dict = NoBuffer THEN KeysOf(heap[b]) ELSE Visible
      /\ Doubled' = IF dict = NoBuffer THEN Copied(heap[b]) ELSE Doubled
  <2>1. CASE dict = NoBuffer
    <3>1. PICK x \in BufferId : x = b
      BY <1>1
    <3> QED
      BY <1>1, <2>1, <3>1, SightAfterLink
  <2>2. CASE dict # NoBuffer
    BY <1>1, <2>2, SameSight
  <2> QED
    BY <2>1, <2>2
<1>3. dict = NoBuffer => Visible = {} /\ Doubled = {}
  BY DEF Visible, Doubled
<1>4. ASSUME Kept(t), NEW u \in Thread \ {t} PROVE ToRemove(u)' <=> ToRemove(u)
  <2>1. thread'[u] = thread[u] /\ thread[u].local # b
    BY <1>1, <1>4 DEF Kept
  <2>2. thread[u].pc = "erase" => thread[u].local # NoBuffer
    BY RepositoryAssumption DEF IInv, ThreadInv
  <2>3. thread[u].pc = "erase" => (thread[u].local = dict' <=> thread[u].local = dict)
    BY <1>1, <2>1, <2>2
  <2> HIDE DEF b
  <2> QED
    BY <2>1, <2>3 DEF ToRemove
<1>5. CASE thread[t].op = "SetEntries"
  <2>1. End(t) /\ ToAdd(t)
    BY <1>1, <1>5 DEF TryAdd, ToAdd
  <2>2. Kept(t)
    BY <2>1, EndEffect DEF IInv
  <2>3. /\ Visible' \subseteq Visible \cup Brings(t)
        /\ Doubled' \subseteq Doubled \cup TwiceIn(thread[t].items)
    BY <1>1, <1>2, OwnBuffer
  <2> QED
    BY <1>4, <2>1, <2>2, <2>3, EndRefines
<1>6. CASE thread[t].op = "AddOrUpdate"
  <2>1. Continue(t, "write", b)
    BY <1>6 DEF TryAdd
  <2>2. Goes(t, "write", b) /\ Kept(t)
    BY <1>1, <2>1, ContinueEffect DEF IInv, Pc
  <2>3. ~ ToRemove(t)' /\ ~ ToRemove(t)
    BY <1>6, <2>2 DEF ToRemove, Goes
  <2>4. Visible' = Visible /\ Doubled' = Doubled
    BY <1>1, <1>2, <1>3, <1>6, OwnBuffer
  <2> HIDE DEF b
  <2> QED
    BY <1>1, <1>4, <2>2, <2>3, <2>4, GoesRefines DEF Pc
<1> QED
  BY <1>1, <1>5, <1>6 DEF Op

(* The entry written comes into sight, if the buffer is linked.            *)
LEMMA WriteRefines ==
  ASSUME IInv, NEW t \in Thread, Write(t)
  PROVE  Refined
<1> DEFINE b == thread[t].local
           e == thread[t].entry
           c == AddOrUpdate(heap[b], e)
<1>1. /\ thread[t].pc = "write" /\ dict' = dict /\ End(t)
      /\ b \in BufferId /\ thread[t].op = "AddOrUpdate"
      /\ e \in Entry /\ heap[b] \in Buffer
  BY DEF Write, IInv, ThreadInv, TypeOK, ThreadState
<1>2. heap' = [heap EXCEPT ![b] = c]
  BY <1>1 DEF Write, IInv, TypeOK
<1>3. c \in Buffer /\ KeysOf(c) \subseteq KeysOf(heap[b]) \cup {e.key} /\ Copied(c) \subseteq Copied(heap[b])
  BY <1>1, KeysAfterAdd
<1> HIDE DEF c
<1>4. /\ Visible' = IF dict = b THEN KeysOf(c) ELSE Visible
      /\ Doubled' = IF dict = b THEN Copied(c) ELSE Doubled
      /\ dict = b => Visible = KeysOf(heap[b]) /\ Doubled = Copied(heap[b])
  BY <1>1, <1>2, <1>3, SightAfterChange
<1>5. Brings(t) = {e.key}
  BY <1>1 DEF Brings
<1>6. Visible' \subseteq Visible \cup Brings(t) /\ Doubled' \subseteq Doubled
  BY <1>3, <1>4, <1>5
<1>7. ToAdd(t)
  BY <1>1 DEF ToAdd
<1>8. Kept(t)
  BY <1>1, EndEffect DEF IInv
<1> QED
  BY <1>1, <1>6, <1>7, <1>8, OthersToCome, EndRefines

(* Erase takes the key out of sight, or one of its copies; or the buffer   *)
(* was unlinked since the Remove found it.                                 *)
LEMMA EraseRefines ==
  ASSUME IInv, NEW t \in Thread, Erase(t)
  PROVE  Refined
<1> DEFINE b == thread[t].local
           x == thread[t].entry.key
           c == Remove(heap[b], x)
<1>1. /\ thread[t].pc = "erase" /\ dict' = dict
      /\ b \in BufferId /\ thread[t].op = "Remove"
      /\ x \in Key /\ heap[b] \in Buffer
  BY DEF Erase, IInv, ThreadInv, TypeOK, ThreadState, Entry
<1>2. heap' = [heap EXCEPT ![b] = c]
  BY <1>1 DEF Erase, IInv, TypeOK
<1>3. /\ c \in Buffer /\ KeysOf(c) \subseteq KeysOf(heap[b]) /\ Copied(c) \subseteq Copied(heap[b])
      /\ x \in KeysOf(c) => x \in Copied(heap[b])
  BY <1>1, KeysAfterRemove
<1> HIDE DEF c
<1>4. /\ Visible' = IF dict = b THEN KeysOf(c) ELSE Visible
      /\ Doubled' = IF dict = b THEN Copied(c) ELSE Doubled
      /\ dict = b => Visible = KeysOf(heap[b]) /\ Doubled = Copied(heap[b])
  BY <1>1, <1>2, <1>3, SightAfterChange
<1>5. Goes(t, "isEmpty", b) /\ Kept(t)
  BY EraseEffect DEF IInv
<1>6. ~ ToRemove(t)' /\ (ToRemove(t) <=> dict = b)
  BY <1>1, <1>5 DEF ToRemove, Goes
<1>7. /\ Visible' \subseteq Visible /\ Doubled' \subseteq Doubled
      /\ dict = b => (x \in Visible' => x \in Doubled)
      /\ dict # b => Visible' = Visible /\ Doubled' = Doubled
  BY <1>3, <1>4
<1> HIDE DEF b
<1> QED
  BY <1>1, <1>5, <1>6, <1>7, OthersToCome, GoesRefines DEF Pc

(* The scan of IsEmpty comes after the effect of its Remove.               *)
LEMMA IsEmptyReadRefines ==
  ASSUME IInv, NEW t \in Thread, IsEmptyRead(t)
  PROVE  Refined
<1>1. /\ thread[t].pc = "isEmpty" /\ dict' = dict /\ heap' = heap
      /\ thread[t].op = "Remove" /\ thread[t].pos \in 0 .. Capacity
  BY DEF IsEmptyRead, IInv, ThreadInv, TypeOK, ThreadState
<1>2. Visible' = Visible /\ Doubled' = Doubled
  BY <1>1, SameSight
<1>3. Kept(t) /\ ~ ToAdd(t)' /\ ~ ToRemove(t)'
  <2>1. CASE End(t)
    BY <2>1, EndEffect, IdleFields DEF IInv, ToAdd, ToRemove
  <2>2. CASE Continue(t, "tryRemove", thread[t].local)
    <3>1. thread[t].local \in BufferId \cup {NoBuffer}
      BY DEF IInv, TypeOK, ThreadState
    <3>2. Goes(t, "tryRemove", thread[t].local) /\ Kept(t)
      BY <2>2, <3>1, ContinueEffect DEF IInv, Pc
    <3> QED
      BY <1>1, <3>2 DEF Goes, ToAdd, ToRemove
  <2>3. CASE thread[t].pos \in Slot /\ thread' = [thread EXCEPT ![t].pos = thread[t].pos + 1]
    <3>1. thread[t].pos + 1 \in 0 .. Capacity
      BY <2>3, BufferAssumption DEF Slot
    <3>2. Goes(t, thread[t].pc, thread[t].local) /\ Kept(t)
      BY <2>3, <3>1, ReadEffect DEF IInv
    <3> QED
      BY <1>1, <3>2 DEF Goes, ToAdd, ToRemove
  <2> QED
    BY <2>1, <2>2, <2>3 DEF IsEmptyRead
<1>4. ~ ToAdd(t) /\ ~ ToRemove(t)
  BY <1>1 DEF ToAdd, ToRemove
<1>5. Additions' = Additions /\ Removals' = Removals
  BY <1>1, <1>3, <1>4, OthersToCome, AdditionsStep, RemovalsStep DEF Stays
<1>6. thread[t].entry.key \in Key
  BY DEF IInv, TypeOK, ThreadState, Entry
<1>7. PICK a : a \in [by : Thread, keys : SUBSET Key, twice : SUBSET Key]
  BY AdditionType
<1> QED
  BY <1>2, <1>5, <1>6, <1>7, MemorySteps

(* With the buffer everything is lost, and every removal that found that   *)
(* buffer is over.                                                         *)
LEMMA TryRemoveRefines ==
  ASSUME IInv, NEW t \in Thread, TryRemove(t)
  PROVE  Refined
<1>1. /\ thread[t].pc = "tryRemove" /\ dict' = NoBuffer /\ End(t) /\ thread[t].op = "Remove"
      /\ thread[t].entry.key \in Key
  BY DEF TryRemove, IInv, ThreadInv, TypeOK, ThreadState, Entry
<1>2. Visible' = {} /\ Doubled' = {}
  BY <1>1 DEF Visible, Doubled
<1>3. Kept(t) /\ thread'[t] = Idle
  BY <1>1, EndEffect DEF IInv
<1>4. Additions' = Additions
  <2>1. ~ ToAdd(t) /\ ~ ToAdd(t)'
    BY <1>1, <1>3, IdleFields DEF ToAdd
  <2> QED
    BY <1>3, <2>1, KeptStays, AdditionsStep
<1>5. Removals' \subseteq Removals
  <2>1. ASSUME NEW u \in Thread, ToRemove(u)'
        PROVE  ToRemove(u) /\ thread'[u].entry = thread[u].entry
    <3>1. u # t
      BY <1>3, <2>1, IdleFields DEF ToRemove
    <3>2. thread'[u] = thread[u]
      BY <1>3, <3>1 DEF Kept
    <3>3. thread[u].pc = "erase" => thread[u].local # NoBuffer
      BY RepositoryAssumption DEF IInv, ThreadInv
    <3>4. thread[u].op = "Remove" /\ thread[u].pc = "tryGet"
      BY <1>1, <2>1, <3>2, <3>3 DEF ToRemove
    <3> QED
      BY <3>2, <3>4 DEF ToRemove
  <2> QED
    BY <2>1 DEF Removals, RemovalOf
<1>6. PICK a : a \in [by : Thread, keys : SUBSET Key, twice : SUBSET Key]
  BY AdditionType
<1> QED
  BY <1>1, <1>2, <1>4, <1>5, <1>6, MemorySteps

(* IsLossyMemory: however the threads interleave, each operation of the    *)
(* repository takes effect at one moment of its call, SetEntries with all  *)
(* its entries.                                                            *)
THEOREM RepositoryImplementsMemory == Spec => IsLossyMemory
<1>1. Init => Memory!Init
  <2> SUFFICES ASSUME Init PROVE Memory!Init
    OBVIOUS
  <2>1. dict = NoBuffer /\ Visible = {}
    BY DEF Init, Visible
  <2>2. \A t \in Thread : ~ ToAdd(t) /\ ~ ToRemove(t)
    BY IdleFields DEF Init, ToAdd, ToRemove
  <2> QED
    BY <2>1, <2>2 DEF Memory!Init
<1>2. IInv /\ [Next]_vars => [Memory!Next]_(Memory!vars)
  <2> SUFFICES ASSUME IInv, [Next]_vars PROVE Refined
    BY DEF Refined
  <2>1. ASSUME NEW t \in Thread, NEW e \in Entry, CallAddOrUpdate(t, e) PROVE Refined
    <3>1. PICK items \in InitialItems : TRUE
      BY NewEmpty
    <3> QED
      BY <2>1, <3>1, CallsAreAdditions, CallBringingRefines DEF CallAddOrUpdate
  <2>2. ASSUME NEW t \in Thread, NEW items \in InitialItems, CallSetEntries(t, items) PROVE Refined
    <3>1. PICK e \in Entry : TRUE
      BY RepositoryAssumption
    <3> QED
      BY <2>2, <3>1, CallsAreAdditions, CallBringingRefines DEF CallSetEntries
  <2>3. ASSUME NEW t \in Thread, NEW e \in Entry, CallRemove(t, e) PROVE Refined
    BY <2>3, CallRemoveRefines
  <2>4. ASSUME NEW t \in Thread, Step(t) PROVE Refined
    BY <2>4, FoundRefines, MissingRefines, TryAddRefines, WriteRefines, EraseRefines,
       IsEmptyReadRefines, TryRemoveRefines DEF Step
  <2>5. ASSUME UNCHANGED vars PROVE Refined
    <3>1. dict' = dict /\ heap' = heap /\ thread' = thread
      BY <2>5 DEF vars
    <3>2. Visible' = Visible /\ Doubled' = Doubled
      BY <3>1, SameSight
    <3>3. \A t \in Thread : /\ (ToAdd(t)' <=> ToAdd(t)) /\ (ToRemove(t)' <=> ToRemove(t))
                            /\ AdditionOf(t)' = AdditionOf(t) /\ RemovalOf(t)' = RemovalOf(t)
      BY <3>1, BringsStep, SameCall DEF ToAdd, ToRemove, Stays
    <3>4. Additions' = Additions /\ Removals' = Removals
      BY <3>3 DEF Additions, Removals
    <3> QED
      BY <3>2, <3>4 DEF Refined, Additions, Removals, Doubled, Memory!vars
  <2> QED
    BY <2>1, <2>2, <2>3, <2>4, <2>5 DEF Next
<1> QED
  BY <1>1, <1>2, RepositoryInvariant, PTL DEF Spec, IsLossyMemory, Memory!Spec

=============================================================================
