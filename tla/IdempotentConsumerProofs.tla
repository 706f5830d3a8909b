---------------------- MODULE IdempotentConsumerProofs ----------------------
(***************************************************************************)
(* The inductive invariant of IdempotentConsumer and what follows from it  *)
(* for any number of deliveries, keys and nodes and any number of faults.  *)
(*                                                                         *)
(* Keys share nothing, so the invariant is stated key by key, and a step   *)
(* of a call is looked at for the key of its delivery only.                *)
(***************************************************************************)
EXTENDS IdempotentConsumer, TLAPS

Writing == {"addMem", "existSql", "updateSql", "insertSql"}

DeliveriesOf(k) == {d \in Delivery : KeyOf[d] = k}

(* The call has put its key into the memory of its node.                   *)
WroteMem(d) ==
  \/ pc[d] \in {"existSql", "updateSql", "insertSql", "func", "removeMem"}
  \/ pc[d] = "addMem" /\ target[d] # "Reserved"

(* The call has passed its first write to the table.                       *)
WroteRow(d) ==
  \/ pc[d] \in {"func", "removeMem", "removeSql"}
  \/ pc[d] \in Writing /\ target[d] # "Reserved"

-----------------------------------------------------------------------------
(* What the place of a call says of its target and of the function.        *)
CallInv(k) ==
  \A d \in DeliveriesOf(k) :
    /\ pc[d] \in {"ready", "containsMem", "containsSql"} => target[d] = "Reserved"
    /\ pc[d] = "func" => target[d] = "Processing"
    /\ target[d] = "Committed" \/ pc[d] = "consumed" => runs[k] >= 1

(* A known key was processed, was struck by a fault, or belongs to a call  *)
(* that is still to commit or to roll back.                                *)
MemJustified(k) ==
  \A n \in Node :
    k \in mem[n] =>
      \/ runs[k] >= 1
      \/ fault[k] # {}
      \/ \E d \in DeliveriesOf(k) : at[d] = n /\ WroteMem(d)

RowJustified(k) ==
  sql[k] # "Absent" =>
    \/ runs[k] >= 1
    \/ fault[k] # {}
    \/ \E d \in DeliveriesOf(k) : WroteRow(d)

NotLost(k) ==
  /\ fault[k] = {}
  /\ DeliveriesOf(k) # {}
  /\ \A d \in DeliveriesOf(k) : pc[d] \in Ended
  => runs[k] >= 1

(* The calls of an undisturbed key come one after the other, and each      *)
(* finds in the table what its own writes left there.                      *)
OneCall(k) ==
  ~ overlap[k] =>
    \A d, e \in DeliveriesOf(k) : pc[d] \in Active /\ pc[e] \in Active => d = e

UndisturbedCalls(k) ==
  Undisturbed(k) => \A d \in DeliveriesOf(k) :
    /\ pc[d] \in Writing /\ target[d] = "Reserved" =>
         sql[k] = "Absent" /\ pc[d] # "updateSql"
    /\ pc[d] \in Writing /\ target[d] # "Reserved" => pc[d] # "insertSql"
    /\ pc[d] = "func" \/ (pc[d] \in Writing /\ target[d] = "Processing") =>
         sql[k] # "Absent" /\ runs[k] = 0
    /\ pc[d] \in {"removeMem", "removeSql"} => runs[k] = 0

UndisturbedKey(k) ==
  Undisturbed(k) =>
    /\ runs[k] <= 1
    /\ runs[k] >= 1 => sql[k] # "Absent"
    /\ sql[k] = "Committed" => runs[k] >= 1
    /\ runs[k] >= 1 /\ fault[k] = {} =>
         \/ sql[k] = "Committed"
         \/ \E d \in DeliveriesOf(k) : target[d] = "Committed" /\ pc[d] \in Writing

KeyInv(k) ==
  /\ CallInv(k)
  /\ MemJustified(k)
  /\ RowJustified(k)
  /\ NotLost(k)
  /\ OneCall(k)
  /\ UndisturbedCalls(k)
  /\ UndisturbedKey(k)

ConsumerInv == TypeOK /\ \A k \in Key : KeyInv(k)

-----------------------------------------------------------------------------
(* The initial state is typed.                                            *)
LEMMA TypeInit == Init => TypeOK
  BY ConsumerAssumption DEF Init, TypeOK, Active, Ended, EntryState

(* The part of TypeOK that says where the calls are, and a step that moves *)
(* one call only.                                                          *)
CallsTyped ==
  /\ pc \in [Delivery -> {"ready"} \cup Active \cup Ended]
  /\ at \in [Delivery -> Node \cup {NoNode}]
  /\ target \in [Delivery -> EntryState]
  /\ \A d \in Delivery : pc[d] \in Active <=> at[d] \in Node

OthersStay(d) ==
  \A e \in Delivery : e # d => pc'[e] = pc[e] /\ at'[e] = at[e] /\ target'[e] = target[e]

(* A call that goes on stays at its node.                                  *)
LEMMA GotoMoves ==
  ASSUME TypeOK, NEW d \in Delivery, NEW p \in Active, pc[d] \in Active, Goto(d, p)
  PROVE  /\ CallsTyped' /\ OthersStay(d)
         /\ pc'[d] = p /\ at'[d] = at[d] /\ target'[d] = target[d]
  BY DEF TypeOK, CallsTyped, OthersStay, Goto

(* A call that leaves is nowhere.                                          *)
LEMMA LeaveMoves ==
  ASSUME TypeOK, NEW d \in Delivery, NEW p \in {"ready"} \cup Ended, Leave(d, p)
  PROVE  /\ CallsTyped' /\ OthersStay(d)
         /\ pc'[d] = p /\ at'[d] = NoNode /\ target'[d] = "Reserved"
  BY ConsumerAssumption DEF TypeOK, CallsTyped, OthersStay, Leave, Active, Ended, EntryState

(* A call that throws leaves, or rolls back if it is in the try block.     *)
LEMMA ThrowMoves ==
  ASSUME TypeOK, NEW d \in Delivery, pc[d] \in Active, Throw(d)
  PROVE  /\ CallsTyped' /\ OthersStay(d)
         /\ \/ /\ target[d] = "Reserved" \/ pc[d] = "removeSql"
               /\ pc'[d] = "ready" /\ target'[d] = "Reserved"
            \/ /\ target[d] # "Reserved"
               /\ pc'[d] = "removeMem" /\ at'[d] = at[d] /\ target'[d] = target[d]
<1>1. CASE target[d] = "Reserved" \/ pc[d] = "removeSql"
  BY <1>1, LeaveMoves DEF Throw
<1>2. CASE ~ (target[d] = "Reserved" \/ pc[d] = "removeSql")
  BY <1>2, GotoMoves DEF Throw, Active
<1> QED
  BY <1>1, <1>2

(* After a write a call goes on to its next write, to the function, or is  *)
(* done.                                                                   *)
LEMMA AfterWriteMoves ==
  ASSUME TypeOK, NEW d \in Delivery, pc[d] \in Active, AfterWrite(d)
  PROVE  /\ CallsTyped' /\ OthersStay(d)
         /\ \/ /\ target[d] = "Reserved" /\ pc'[d] = "addMem"
               /\ target'[d] = "Processing" /\ at'[d] = at[d]
            \/ /\ target[d] = "Processing" /\ pc'[d] = "func"
               /\ target'[d] = "Processing" /\ at'[d] = at[d]
            \/ /\ target[d] = "Committed" /\ pc'[d] = "consumed" /\ target'[d] = "Reserved"
<1>1. target[d] \in EntryState
  BY DEF TypeOK
<1>2. CASE target[d] = "Reserved"
  BY <1>2 DEF TypeOK, CallsTyped, OthersStay, AfterWrite, Active, EntryState
<1>3. CASE target[d] = "Processing"
  BY <1>3, GotoMoves DEF AfterWrite, Active
<1>4. CASE target[d] = "Committed"
  BY <1>4, LeaveMoves DEF AfterWrite, Ended
<1> QED
  BY <1>1, <1>2, <1>3, <1>4 DEF EntryState

(* What the database does keeps the table typed and concerns one row.      *)
LEMMA ExecutedEffect ==
  ASSUME TypeOK, NEW d \in Delivery
  PROVE  /\ Executed(d) \in [Key -> EntryState \cup {"Absent"}]
         /\ \A k \in Key : k # KeyOf[d] => Executed(d)[k] = sql[k]
         /\ Executed(d)[KeyOf[d]] =
              IF \/ pc[d] = "updateSql" /\ sql[KeyOf[d]] # "Absent"
                 \/ pc[d] = "insertSql" /\ sql[KeyOf[d]] = "Absent"
                THEN target[d]
              ELSE IF pc[d] = "removeSql" THEN "Absent" ELSE sql[KeyOf[d]]
<1>1. KeyOf[d] \in Key /\ target[d] \in EntryState /\ sql \in [Key -> EntryState \cup {"Absent"}]
  BY ConsumerAssumption DEF TypeOK
<1>2. CASE pc[d] = "updateSql"
  BY <1>1, <1>2 DEF Executed
<1>3. CASE pc[d] = "insertSql"
  BY <1>1, <1>3 DEF Executed
<1>4. CASE pc[d] = "removeSql"
  BY <1>1, <1>4 DEF Executed
<1>5. CASE pc[d] \notin {"updateSql", "insertSql", "removeSql"}
  BY <1>1, <1>5 DEF Executed
<1> QED
  BY <1>2, <1>3, <1>4, <1>5

-----------------------------------------------------------------------------
(* A step of a call concerns its own key only.                             *)
Frame(d) ==
  /\ OthersStay(d)
  /\ \A k \in Key : k # KeyOf[d] =>
       /\ sql'[k] = sql[k] /\ runs'[k] = runs[k]
       /\ overlap'[k] = overlap[k] /\ fault'[k] = fault[k]
       /\ \A n \in Node : k \in mem'[n] <=> k \in mem[n]

(* Such a step keeps the invariant of every other key.                    *)
LEMMA OtherKeys ==
  ASSUME NEW d \in Delivery, Frame(d), NEW k \in Key, k # KeyOf[d], KeyInv(k)
  PROVE  KeyInv(k)'
<1>1. \A e \in DeliveriesOf(k) : pc'[e] = pc[e] /\ at'[e] = at[e] /\ target'[e] = target[e]
  BY DEF Frame, OthersStay, DeliveriesOf
<1>2. /\ sql'[k] = sql[k] /\ runs'[k] = runs[k]
      /\ overlap'[k] = overlap[k] /\ fault'[k] = fault[k]
      /\ \A n \in Node : k \in mem'[n] <=> k \in mem[n]
  BY DEF Frame
<1>3. \A e \in DeliveriesOf(k) : (WroteMem(e)' <=> WroteMem(e)) /\ (WroteRow(e)' <=> WroteRow(e))
  BY <1>1 DEF WroteMem, WroteRow
<1>4. CallInv(k)'
  BY <1>1, <1>2 DEF KeyInv, CallInv, DeliveriesOf
<1>5. MemJustified(k)'
  BY <1>1, <1>2, <1>3 DEF KeyInv, MemJustified, DeliveriesOf
<1>6. RowJustified(k)'
  BY <1>2, <1>3 DEF KeyInv, RowJustified, DeliveriesOf
<1>7. NotLost(k)'
  BY <1>1, <1>2 DEF KeyInv, NotLost, DeliveriesOf
<1>8. OneCall(k)'
  BY <1>1, <1>2 DEF KeyInv, OneCall, DeliveriesOf
<1>9. UndisturbedCalls(k)'
  BY <1>1, <1>2 DEF KeyInv, UndisturbedCalls, Undisturbed, DeliveriesOf
<1>10. UndisturbedKey(k)'
  BY <1>1, <1>2 DEF KeyInv, UndisturbedKey, Undisturbed, DeliveriesOf
<1> QED
  BY <1>4, <1>5, <1>6, <1>7, <1>8, <1>9, <1>10 DEF KeyInv


-----------------------------------------------------------------------------
(* The actions of a call, one by one.                                      *)

(* A call that begins has written nothing; if another is in progress the   *)
(* key is marked as overlapped.                                            *)
LEMMA DeliverKeeps ==
  ASSUME TypeOK, NEW k \in Key, NEW d \in DeliveriesOf(k), NEW n \in Node, KeyInv(k), Deliver(d, n)
  PROVE  TypeOK' /\ Frame(d) /\ KeyInv(k)'
<1> k = KeyOf[d] /\ d \in Delivery /\ runs[k] \in 0 .. 2
  BY DEF DeliveriesOf, TypeOK
<1>1. /\ CallsTyped' /\ OthersStay(d)
      /\ pc[d] = "ready" /\ pc'[d] = "containsMem" /\ at'[d] = n /\ target'[d] = target[d]
      /\ UNCHANGED <<mem, sql, runs, fault, faults>>
      /\ overlap' \in [Key -> BOOLEAN] /\ \A x \in Key : x # k => overlap'[x] = overlap[x]
      /\ ~ overlap'[k] => ~ overlap[k] /\ \A e \in DeliveriesOf(k) : pc[e] \notin Active
  BY ConsumerAssumption DEF TypeOK, Deliver, CallsTyped, OthersStay, Active, Ended, DeliveriesOf
<1>2. TypeOK' /\ Frame(d)
  BY <1>1, ConsumerAssumption DEF TypeOK, CallsTyped, Frame
<1>3. \A e \in DeliveriesOf(k) : e # d =>
        /\ pc'[e] = pc[e] /\ at'[e] = at[e] /\ target'[e] = target[e]
  BY <1>2 DEF Frame, OthersStay, DeliveriesOf
<1>4. CallInv(k)'
  BY <1>1, <1>3 DEF KeyInv, CallInv
<1>5. MemJustified(k)'
  BY <1>1, <1>3 DEF KeyInv, MemJustified, WroteMem
<1>6. RowJustified(k)'
  BY <1>1, <1>3 DEF KeyInv, RowJustified, WroteRow, Writing
<1>7. NotLost(k)'
  BY <1>1, <1>3 DEF KeyInv, NotLost, Ended
<1>8. OneCall(k)'
  BY <1>1, <1>3 DEF KeyInv, OneCall, Active, Ended
<1>9. UndisturbedCalls(k)'
  BY <1>1, <1>3 DEF KeyInv, UndisturbedCalls, Undisturbed, Writing
<1>10. UndisturbedKey(k)'
  BY <1>1, <1>3 DEF KeyInv, UndisturbedKey, Undisturbed, Writing
<1> QED
  BY <1>2, <1>4, <1>5, <1>6, <1>7, <1>8, <1>9, <1>10 DEF KeyInv

(* A delivery ignored for its key in memory leaves, by MemJustified, a     *)
(* processed message, a fault or a call that has not ended.                *)
LEMMA ContainsMemKeeps ==
  ASSUME TypeOK, NEW k \in Key, NEW d \in DeliveriesOf(k), KeyInv(k), ContainsMem(d)
  PROVE  TypeOK' /\ Frame(d) /\ KeyInv(k)'
<1> k = KeyOf[d] /\ d \in Delivery /\ runs[k] \in 0 .. 2
  BY DEF DeliveriesOf, TypeOK
<1>1. /\ CallsTyped' /\ OthersStay(d)
      /\ pc[d] = "containsMem" /\ at[d] \in Node
      /\ UNCHANGED <<mem, sql, runs, overlap, fault, faults>>
      /\ \/ pc'[d] = "ignored" /\ k \in mem[at[d]] /\ target'[d] = "Reserved"
         \/ pc'[d] = "containsSql" /\ at'[d] = at[d] /\ target'[d] = target[d]
  BY GotoMoves, LeaveMoves DEF ContainsMem, history, TypeOK, Active, Ended
<1>2. TypeOK' /\ Frame(d)
  BY <1>1, ConsumerAssumption DEF TypeOK, CallsTyped, Frame
<1>3. \A e \in DeliveriesOf(k) : e # d =>
        /\ pc'[e] = pc[e] /\ at'[e] = at[e] /\ target'[e] = target[e]
  BY <1>2 DEF Frame, OthersStay, DeliveriesOf
<1>4. CallInv(k)'
  BY <1>1, <1>3 DEF KeyInv, CallInv
<1>5. MemJustified(k)'
  BY <1>1, <1>3 DEF KeyInv, MemJustified, WroteMem
<1>6. RowJustified(k)'
  BY <1>1, <1>3 DEF KeyInv, RowJustified, WroteRow, Writing
<1>7. NotLost(k)'
  BY <1>1, <1>3 DEF KeyInv, NotLost, MemJustified, WroteMem, Ended
<1>8. OneCall(k)'
  BY <1>1, <1>3 DEF KeyInv, OneCall, Active, Ended
<1>9. UndisturbedCalls(k)'
  BY <1>1, <1>3 DEF KeyInv, UndisturbedCalls, Undisturbed, Writing
<1>10. UndisturbedKey(k)'
  BY <1>1, <1>3 DEF KeyInv, UndisturbedKey, Undisturbed, Writing
<1> QED
  BY <1>2, <1>4, <1>5, <1>6, <1>7, <1>8, <1>9, <1>10 DEF KeyInv

(* The same for a delivery ignored for its row, by RowJustified;           *)
(* otherwise the row is absent when the call reserves the key.             *)
LEMMA ContainsSqlKeeps ==
  ASSUME TypeOK, NEW k \in Key, NEW d \in DeliveriesOf(k), KeyInv(k), ContainsSql(d)
  PROVE  TypeOK' /\ Frame(d) /\ KeyInv(k)'
<1> k = KeyOf[d] /\ d \in Delivery /\ runs[k] \in 0 .. 2
  BY DEF DeliveriesOf, TypeOK
<1>1. /\ CallsTyped' /\ OthersStay(d)
      /\ pc[d] = "containsSql"
      /\ UNCHANGED <<mem, sql, runs, overlap, fault, faults>>
      /\ \/ pc'[d] = "ignored" /\ sql[k] # "Absent" /\ target'[d] = "Reserved"
         \/ /\ pc'[d] = "addMem" /\ sql[k] = "Absent" /\ at'[d] = at[d]
            /\ target[d] = "Reserved" /\ target'[d] = "Reserved"
  BY GotoMoves, LeaveMoves DEF ContainsSql, history, KeyInv, CallInv, Active, Ended
<1>2. TypeOK' /\ Frame(d)
  BY <1>1, ConsumerAssumption DEF TypeOK, CallsTyped, Frame
<1>3. \A e \in DeliveriesOf(k) : e # d =>
        /\ pc'[e] = pc[e] /\ at'[e] = at[e] /\ target'[e] = target[e]
  BY <1>2 DEF Frame, OthersStay, DeliveriesOf
<1>4. CallInv(k)'
  BY <1>1, <1>3 DEF KeyInv, CallInv
<1>5. MemJustified(k)'
  BY <1>1, <1>3 DEF KeyInv, MemJustified, WroteMem
<1>6. RowJustified(k)'
  BY <1>1, <1>3 DEF KeyInv, RowJustified, WroteRow, Writing
<1>7. NotLost(k)'
  BY <1>1, <1>3 DEF KeyInv, NotLost, RowJustified, WroteRow, Writing, Ended
<1>8. OneCall(k)'
  BY <1>1, <1>3 DEF KeyInv, OneCall, Active, Ended
<1>9. UndisturbedCalls(k)'
  BY <1>1, <1>3 DEF KeyInv, UndisturbedCalls, Undisturbed, Writing
<1>10. UndisturbedKey(k)'
  BY <1>1, <1>3 DEF KeyInv, UndisturbedKey, Undisturbed, Writing
<1> QED
  BY <1>2, <1>4, <1>5, <1>6, <1>7, <1>8, <1>9, <1>10 DEF KeyInv

(* The key is in memory for as long as the call counts as having written   *)
(* it.                                                                     *)
LEMMA AddMemKeeps ==
  ASSUME TypeOK, NEW k \in Key, NEW d \in DeliveriesOf(k), KeyInv(k), AddMem(d)
  PROVE  TypeOK' /\ Frame(d) /\ KeyInv(k)'
<1> k = KeyOf[d] /\ d \in Delivery /\ runs[k] \in 0 .. 2
  BY DEF DeliveriesOf, TypeOK
<1>1. /\ CallsTyped' /\ OthersStay(d)
      /\ pc[d] = "addMem" /\ pc'[d] = "existSql" /\ at'[d] = at[d] /\ target'[d] = target[d]
      /\ UNCHANGED <<sql, runs, overlap, fault, faults>>
      /\ mem' \in [Node -> SUBSET Key]
      /\ \A n \in Node, x \in Key : x \in mem'[n] <=> x \in mem[n] \/ (x = k /\ n = at[d])
  BY GotoMoves DEF AddMem, history, TypeOK, Active
<1>2. TypeOK' /\ Frame(d)
  BY <1>1, ConsumerAssumption DEF TypeOK, CallsTyped, Frame
<1>3. \A e \in DeliveriesOf(k) : e # d =>
        /\ pc'[e] = pc[e] /\ at'[e] = at[e] /\ target'[e] = target[e]
  BY <1>2 DEF Frame, OthersStay, DeliveriesOf
<1>4. CallInv(k)'
  BY <1>1, <1>3 DEF KeyInv, CallInv
<1>5. MemJustified(k)'
  BY <1>1, <1>3 DEF KeyInv, MemJustified, WroteMem
<1>6. RowJustified(k)'
  BY <1>1, <1>3 DEF KeyInv, RowJustified, WroteRow, Writing
<1>7. NotLost(k)'
  BY <1>1, <1>3 DEF KeyInv, NotLost, Ended
<1>8. OneCall(k)'
  BY <1>1, <1>3 DEF KeyInv, OneCall, Active, Ended
<1>9. UndisturbedCalls(k)'
  BY <1>1, <1>3 DEF KeyInv, UndisturbedCalls, Undisturbed, Writing
<1>10. UndisturbedKey(k)'
  BY <1>1, <1>3 DEF KeyInv, UndisturbedKey, Undisturbed, Writing
<1> QED
  BY <1>2, <1>4, <1>5, <1>6, <1>7, <1>8, <1>9, <1>10 DEF KeyInv

(* An undisturbed call inserts exactly when it reserves the key.           *)
LEMMA ExistSqlKeeps ==
  ASSUME TypeOK, NEW k \in Key, NEW d \in DeliveriesOf(k), KeyInv(k), ExistSql(d)
  PROVE  TypeOK' /\ Frame(d) /\ KeyInv(k)'
<1> k = KeyOf[d] /\ d \in Delivery /\ runs[k] \in 0 .. 2
  BY DEF DeliveriesOf, TypeOK
<1>1. /\ CallsTyped' /\ OthersStay(d)
      /\ pc[d] = "existSql" /\ at'[d] = at[d] /\ target'[d] = target[d]
      /\ pc'[d] = IF sql[k] # "Absent" THEN "updateSql" ELSE "insertSql"
      /\ UNCHANGED <<mem, sql, runs, overlap, fault, faults>>
  BY GotoMoves DEF ExistSql, history, Active
<1>2. TypeOK' /\ Frame(d)
  BY <1>1, ConsumerAssumption DEF TypeOK, CallsTyped, Frame
<1>3. \A e \in DeliveriesOf(k) : e # d =>
        /\ pc'[e] = pc[e] /\ at'[e] = at[e] /\ target'[e] = target[e]
  BY <1>2 DEF Frame, OthersStay, DeliveriesOf
<1>4. CallInv(k)'
  BY <1>1, <1>3 DEF KeyInv, CallInv
<1>5. MemJustified(k)'
  BY <1>1, <1>3 DEF KeyInv, MemJustified, WroteMem
<1>6. RowJustified(k)'
  BY <1>1, <1>3 DEF KeyInv, RowJustified, WroteRow, Writing
<1>7. NotLost(k)'
  BY <1>1, <1>3 DEF KeyInv, NotLost, Ended
<1>8. OneCall(k)'
  BY <1>1, <1>3 DEF KeyInv, OneCall, Active, Ended
<1>9. UndisturbedCalls(k)'
  <2>1. target[d] \in EntryState
    BY DEF TypeOK
  <2> QED
    BY <1>1, <1>3, <2>1 DEF KeyInv, UndisturbedCalls, UndisturbedKey, CallInv,
       Undisturbed, Writing, EntryState
<1>10. UndisturbedKey(k)'
  BY <1>1, <1>3 DEF KeyInv, UndisturbedKey, Undisturbed, Writing
<1> QED
  BY <1>2, <1>4, <1>5, <1>6, <1>7, <1>8, <1>9, <1>10 DEF KeyInv

(* The UPDATE writes the state the call has reached, or nothing.           *)
LEMMA UpdateSqlKeeps ==
  ASSUME TypeOK, NEW k \in Key, NEW d \in DeliveriesOf(k), KeyInv(k), UpdateSql(d)
  PROVE  TypeOK' /\ Frame(d) /\ KeyInv(k)'
<1> k = KeyOf[d] /\ d \in Delivery /\ runs[k] \in 0 .. 2
  BY DEF DeliveriesOf, TypeOK
<1>1. /\ CallsTyped' /\ OthersStay(d)
      /\ pc[d] = "updateSql"
      /\ UNCHANGED <<mem, runs, overlap, fault, faults>>
      /\ sql' \in [Key -> EntryState \cup {"Absent"}] /\ \A x \in Key : x # k => sql'[x] = sql[x]
      /\ sql'[k] = IF sql[k] # "Absent" THEN target[d] ELSE "Absent"
      /\ \/ /\ target[d] = "Reserved" /\ pc'[d] = "addMem"
            /\ target'[d] = "Processing" /\ at'[d] = at[d]
         \/ /\ target[d] = "Processing" /\ pc'[d] = "func"
            /\ target'[d] = "Processing" /\ at'[d] = at[d]
         \/ /\ target[d] = "Committed" /\ pc'[d] = "consumed" /\ target'[d] = "Reserved"
  BY AfterWriteMoves, ExecutedEffect DEF UpdateSql, history, Active
<1>2. TypeOK' /\ Frame(d)
  BY <1>1, ConsumerAssumption DEF TypeOK, CallsTyped, Frame
<1>3. \A e \in DeliveriesOf(k) : e # d =>
        /\ pc'[e] = pc[e] /\ at'[e] = at[e] /\ target'[e] = target[e]
  BY <1>2 DEF Frame, OthersStay, DeliveriesOf
<1>4. Undisturbed(k)' => /\ Undisturbed(k)
                           /\ \A e \in DeliveriesOf(k) : e # d => pc[e] \notin Active
  BY <1>1 DEF KeyInv, OneCall, Undisturbed, Active
<1>5. CallInv(k)'
  BY <1>1, <1>3 DEF KeyInv, CallInv
<1>6. MemJustified(k)'
  BY <1>1, <1>3 DEF KeyInv, CallInv, MemJustified, WroteMem
<1>7. RowJustified(k)'
  BY <1>1, <1>3 DEF KeyInv, CallInv, RowJustified, WroteRow, Writing
<1>8. NotLost(k)'
  BY <1>1, <1>3 DEF KeyInv, CallInv, NotLost, Ended
<1>9. OneCall(k)'
  BY <1>1, <1>3 DEF KeyInv, OneCall, Active, Ended
<1>10. UndisturbedCalls(k)'
  BY <1>1, <1>3, <1>4 DEF KeyInv, UndisturbedCalls, UndisturbedKey, CallInv, Writing, Active
<1>11. UndisturbedKey(k)'
  BY <1>1, <1>3, <1>4 DEF KeyInv, UndisturbedCalls, UndisturbedKey, CallInv, Writing, Active
<1> QED
  BY <1>2, <1>5, <1>6, <1>7, <1>8, <1>9, <1>10, <1>11 DEF KeyInv

(* The INSERT of an undisturbed call is the reservation of the key.        *)
LEMMA InsertSqlKeeps ==
  ASSUME TypeOK, NEW k \in Key, NEW d \in DeliveriesOf(k), KeyInv(k), InsertSql(d)
  PROVE  TypeOK' /\ Frame(d) /\ KeyInv(k)'
<1> k = KeyOf[d] /\ d \in Delivery /\ runs[k] \in 0 .. 2
  BY DEF DeliveriesOf, TypeOK
<1>1. /\ CallsTyped' /\ OthersStay(d)
      /\ pc[d] = "insertSql"
      /\ UNCHANGED <<mem, runs, overlap, fault, faults>>
      /\ sql' \in [Key -> EntryState \cup {"Absent"}] /\ \A x \in Key : x # k => sql'[x] = sql[x]
      /\ sql[k] = "Absent" /\ sql'[k] = target[d]
      /\ \/ /\ target[d] = "Reserved" /\ pc'[d] = "addMem"
            /\ target'[d] = "Processing" /\ at'[d] = at[d]
         \/ /\ target[d] = "Processing" /\ pc'[d] = "func"
            /\ target'[d] = "Processing" /\ at'[d] = at[d]
         \/ /\ target[d] = "Committed" /\ pc'[d] = "consumed" /\ target'[d] = "Reserved"
  BY AfterWriteMoves, ExecutedEffect DEF InsertSql, history, Active
<1>2. TypeOK' /\ Frame(d)
  BY <1>1, ConsumerAssumption DEF TypeOK, CallsTyped, Frame
<1>3. \A e \in DeliveriesOf(k) : e # d =>
        /\ pc'[e] = pc[e] /\ at'[e] = at[e] /\ target'[e] = target[e]
  BY <1>2 DEF Frame, OthersStay, DeliveriesOf
<1>4. Undisturbed(k)' => /\ Undisturbed(k)
                           /\ \A e \in DeliveriesOf(k) : e # d => pc[e] \notin Active
  BY <1>1 DEF KeyInv, OneCall, Undisturbed, Active
<1>5. CallInv(k)'
  BY <1>1, <1>3 DEF KeyInv, CallInv
<1>6. MemJustified(k)'
  BY <1>1, <1>3 DEF KeyInv, CallInv, MemJustified, WroteMem
<1>7. RowJustified(k)'
  BY <1>1, <1>3 DEF KeyInv, CallInv, RowJustified, WroteRow, Writing
<1>8. NotLost(k)'
  BY <1>1, <1>3 DEF KeyInv, CallInv, NotLost, Ended
<1>9. OneCall(k)'
  BY <1>1, <1>3 DEF KeyInv, OneCall, Active, Ended
<1>10. UndisturbedCalls(k)'
  BY <1>1, <1>3, <1>4 DEF KeyInv, UndisturbedCalls, UndisturbedKey, CallInv, Writing, Active
<1>11. UndisturbedKey(k)'
  BY <1>1, <1>3, <1>4 DEF KeyInv, UndisturbedCalls, UndisturbedKey, CallInv, Writing, Active
<1> QED
  BY <1>2, <1>5, <1>6, <1>7, <1>8, <1>9, <1>10, <1>11 DEF KeyInv

(* The primary key refuses an INSERT only to calls that overlap.           *)
LEMMA InsertDuplicateKeeps ==
  ASSUME TypeOK, NEW k \in Key, NEW d \in DeliveriesOf(k), KeyInv(k), InsertDuplicate(d)
  PROVE  TypeOK' /\ Frame(d) /\ KeyInv(k)'
<1> k = KeyOf[d] /\ d \in Delivery /\ runs[k] \in 0 .. 2
  BY DEF DeliveriesOf, TypeOK
<1>1. /\ CallsTyped' /\ OthersStay(d)
      /\ pc[d] = "insertSql" /\ sql[k] # "Absent"
      /\ UNCHANGED <<mem, sql, runs, overlap, faults>>
      /\ fault' \in [Key -> SUBSET {"crash", "sql", "pk"}]
      /\ \A x \in Key : x # k => fault'[x] = fault[x]
      /\ fault'[k] # {} /\ ("sql" \in fault[k] => "sql" \in fault'[k])
      /\ \/ /\ target[d] = "Reserved" /\ pc'[d] = "ready" /\ target'[d] = "Reserved"
         \/ /\ target[d] # "Reserved"
            /\ pc'[d] = "removeMem" /\ at'[d] = at[d] /\ target'[d] = target[d]
  BY ThrowMoves, ConsumerAssumption DEF InsertDuplicate, TypeOK, Active
<1>2. TypeOK' /\ Frame(d)
  BY <1>1, ConsumerAssumption DEF TypeOK, CallsTyped, Frame
<1>3. \A e \in DeliveriesOf(k) : e # d =>
        /\ pc'[e] = pc[e] /\ at'[e] = at[e] /\ target'[e] = target[e]
  BY <1>2 DEF Frame, OthersStay, DeliveriesOf
<1>4. Undisturbed(k)' => /\ Undisturbed(k)
                           /\ \A e \in DeliveriesOf(k) : e # d => pc[e] \notin Active
  BY <1>1 DEF KeyInv, OneCall, Undisturbed, Active
<1>5. CallInv(k)'
  BY <1>1, <1>3 DEF KeyInv, CallInv
<1>6. MemJustified(k)'
  BY <1>1, <1>3 DEF KeyInv, CallInv, MemJustified, WroteMem
<1>7. RowJustified(k)'
  BY <1>1, <1>3 DEF KeyInv, CallInv, RowJustified, WroteRow, Writing
<1>8. NotLost(k)'
  BY <1>1, <1>3 DEF KeyInv, CallInv, NotLost, Ended
<1>9. OneCall(k)'
  BY <1>1, <1>3 DEF KeyInv, OneCall, Active, Ended
<1>10. UndisturbedCalls(k)'
  BY <1>1, <1>3, <1>4 DEF KeyInv, UndisturbedCalls, UndisturbedKey, CallInv, Writing, Active
<1>11. UndisturbedKey(k)'
  BY <1>1, <1>3, <1>4 DEF KeyInv, UndisturbedCalls, UndisturbedKey, CallInv, Writing, Active
<1> QED
  BY <1>2, <1>5, <1>6, <1>7, <1>8, <1>9, <1>10, <1>11 DEF KeyInv

(* The function of an undisturbed call completes for the first time.       *)
LEMMA FuncSucceedsKeeps ==
  ASSUME TypeOK, NEW k \in Key, NEW d \in DeliveriesOf(k), KeyInv(k), FuncSucceeds(d)
  PROVE  TypeOK' /\ Frame(d) /\ KeyInv(k)'
<1> k = KeyOf[d] /\ d \in Delivery /\ runs[k] \in 0 .. 2
  BY DEF DeliveriesOf, TypeOK
<1>1. /\ CallsTyped' /\ OthersStay(d)
      /\ pc[d] = "func" /\ pc'[d] = "addMem" /\ at'[d] = at[d] /\ target'[d] = "Committed"
      /\ UNCHANGED <<mem, sql, overlap, fault, faults>>
      /\ runs' \in [Key -> 0 .. 2] /\ \A x \in Key : x # k => runs'[x] = runs[x]
      /\ runs'[k] >= 1 /\ (runs[k] = 0 => runs'[k] = 1)
  BY ConsumerAssumption DEF TypeOK, FuncSucceeds, CallsTyped, OthersStay, Active, Ended, EntryState
<1>2. TypeOK' /\ Frame(d)
  BY <1>1, ConsumerAssumption DEF TypeOK, CallsTyped, Frame
<1>3. \A e \in DeliveriesOf(k) : e # d =>
        /\ pc'[e] = pc[e] /\ at'[e] = at[e] /\ target'[e] = target[e]
  BY <1>2 DEF Frame, OthersStay, DeliveriesOf
<1>4. Undisturbed(k)' => /\ Undisturbed(k)
                           /\ \A e \in DeliveriesOf(k) : e # d => pc[e] \notin Active
  BY <1>1 DEF KeyInv, OneCall, Undisturbed, Active
<1>5. CallInv(k)'
  BY <1>1, <1>3 DEF KeyInv, CallInv
<1>6. MemJustified(k)'
  BY <1>1, <1>3 DEF KeyInv, CallInv, MemJustified, WroteMem
<1>7. RowJustified(k)'
  BY <1>1, <1>3 DEF KeyInv, CallInv, RowJustified, WroteRow, Writing
<1>8. NotLost(k)'
  BY <1>1, <1>3 DEF KeyInv, CallInv, NotLost, Ended
<1>9. OneCall(k)'
  BY <1>1, <1>3 DEF KeyInv, OneCall, Active, Ended
<1>10. UndisturbedCalls(k)'
  BY <1>1, <1>3, <1>4 DEF KeyInv, UndisturbedCalls, UndisturbedKey, CallInv, Writing, Active
<1>11. UndisturbedKey(k)'
  BY <1>1, <1>3, <1>4 DEF KeyInv, UndisturbedCalls, UndisturbedKey, CallInv, Writing, Active
<1> QED
  BY <1>2, <1>5, <1>6, <1>7, <1>8, <1>9, <1>10, <1>11 DEF KeyInv

(* A call whose function failed rolls back a message that was not run.     *)
LEMMA FuncFailsKeeps ==
  ASSUME TypeOK, NEW k \in Key, NEW d \in DeliveriesOf(k), KeyInv(k), FuncFails(d)
  PROVE  TypeOK' /\ Frame(d) /\ KeyInv(k)'
<1> k = KeyOf[d] /\ d \in Delivery /\ runs[k] \in 0 .. 2
  BY DEF DeliveriesOf, TypeOK
<1>1. /\ CallsTyped' /\ OthersStay(d)
      /\ pc[d] = "func" /\ target[d] = "Processing"
      /\ pc'[d] = "removeMem" /\ at'[d] = at[d] /\ target'[d] = target[d]
      /\ UNCHANGED <<mem, sql, runs, overlap, fault, faults>>
  BY ThrowMoves DEF FuncFails, history, KeyInv, CallInv, Active
<1>2. TypeOK' /\ Frame(d)
  BY <1>1, ConsumerAssumption DEF TypeOK, CallsTyped, Frame
<1>3. \A e \in DeliveriesOf(k) : e # d =>
        /\ pc'[e] = pc[e] /\ at'[e] = at[e] /\ target'[e] = target[e]
  BY <1>2 DEF Frame, OthersStay, DeliveriesOf
<1>4. CallInv(k)'
  BY <1>1, <1>3 DEF KeyInv, CallInv
<1>5. MemJustified(k)'
  BY <1>1, <1>3 DEF KeyInv, MemJustified, WroteMem
<1>6. RowJustified(k)'
  BY <1>1, <1>3 DEF KeyInv, RowJustified, WroteRow, Writing
<1>7. NotLost(k)'
  BY <1>1, <1>3 DEF KeyInv, NotLost, Ended
<1>8. OneCall(k)'
  BY <1>1, <1>3 DEF KeyInv, OneCall, Active, Ended
<1>9. UndisturbedCalls(k)'
  BY <1>1, <1>3 DEF KeyInv, UndisturbedCalls, Undisturbed, Writing
<1>10. UndisturbedKey(k)'
  BY <1>1, <1>3 DEF KeyInv, UndisturbedKey, Undisturbed, Writing
<1> QED
  BY <1>2, <1>4, <1>5, <1>6, <1>7, <1>8, <1>9, <1>10 DEF KeyInv

(* The key leaves the memory the call had put it in.                       *)
LEMMA RemoveMemKeeps ==
  ASSUME TypeOK, NEW k \in Key, NEW d \in DeliveriesOf(k), KeyInv(k), RemoveMem(d)
  PROVE  TypeOK' /\ Frame(d) /\ KeyInv(k)'
<1> k = KeyOf[d] /\ d \in Delivery /\ runs[k] \in 0 .. 2
  BY DEF DeliveriesOf, TypeOK
<1>1. /\ CallsTyped' /\ OthersStay(d)
      /\ pc[d] = "removeMem" /\ pc'[d] = "removeSql" /\ at'[d] = at[d] /\ target'[d] = target[d]
      /\ UNCHANGED <<sql, runs, overlap, fault, faults>>
      /\ mem' \in [Node -> SUBSET Key]
      /\ \A n \in Node, x \in Key : x \in mem'[n] <=> x \in mem[n] /\ ~ (x = k /\ n = at[d])
  BY GotoMoves DEF RemoveMem, history, TypeOK, Active
<1>2. TypeOK' /\ Frame(d)
  BY <1>1, ConsumerAssumption DEF TypeOK, CallsTyped, Frame
<1>3. \A e \in DeliveriesOf(k) : e # d =>
        /\ pc'[e] = pc[e] /\ at'[e] = at[e] /\ target'[e] = target[e]
  BY <1>2 DEF Frame, OthersStay, DeliveriesOf
<1>4. CallInv(k)'
  BY <1>1, <1>3 DEF KeyInv, CallInv
<1>5. MemJustified(k)'
  BY <1>1, <1>3 DEF KeyInv, MemJustified, WroteMem
<1>6. RowJustified(k)'
  BY <1>1, <1>3 DEF KeyInv, RowJustified, WroteRow, Writing
<1>7. NotLost(k)'
  BY <1>1, <1>3 DEF KeyInv, NotLost, Ended
<1>8. OneCall(k)'
  BY <1>1, <1>3 DEF KeyInv, OneCall, Active, Ended
<1>9. UndisturbedCalls(k)'
  BY <1>1, <1>3 DEF KeyInv, UndisturbedCalls, Undisturbed, Writing
<1>10. UndisturbedKey(k)'
  BY <1>1, <1>3 DEF KeyInv, UndisturbedKey, Undisturbed, Writing
<1> QED
  BY <1>2, <1>4, <1>5, <1>6, <1>7, <1>8, <1>9, <1>10 DEF KeyInv

(* The row leaves the table only if an undisturbed message was not run.    *)
LEMMA RemoveSqlKeeps ==
  ASSUME TypeOK, NEW k \in Key, NEW d \in DeliveriesOf(k), KeyInv(k), RemoveSql(d)
  PROVE  TypeOK' /\ Frame(d) /\ KeyInv(k)'
<1> k = KeyOf[d] /\ d \in Delivery /\ runs[k] \in 0 .. 2
  BY DEF DeliveriesOf, TypeOK
<1>1. /\ CallsTyped' /\ OthersStay(d)
      /\ pc[d] = "removeSql" /\ pc'[d] = "ready" /\ target'[d] = "Reserved"
      /\ UNCHANGED <<mem, runs, overlap, fault, faults>>
      /\ sql' \in [Key -> EntryState \cup {"Absent"}] /\ \A x \in Key : x # k => sql'[x] = sql[x]
      /\ sql'[k] = "Absent"
  BY LeaveMoves, ExecutedEffect DEF RemoveSql, history
<1>2. TypeOK' /\ Frame(d)
  BY <1>1, ConsumerAssumption DEF TypeOK, CallsTyped, Frame
<1>3. \A e \in DeliveriesOf(k) : e # d =>
        /\ pc'[e] = pc[e] /\ at'[e] = at[e] /\ target'[e] = target[e]
  BY <1>2 DEF Frame, OthersStay, DeliveriesOf
<1>4. Undisturbed(k)' => /\ Undisturbed(k)
                           /\ \A e \in DeliveriesOf(k) : e # d => pc[e] \notin Active
  BY <1>1 DEF KeyInv, OneCall, Undisturbed, Active
<1>5. CallInv(k)'
  BY <1>1, <1>3 DEF KeyInv, CallInv
<1>6. MemJustified(k)'
  BY <1>1, <1>3 DEF KeyInv, CallInv, MemJustified, WroteMem
<1>7. RowJustified(k)'
  BY <1>1, <1>3 DEF KeyInv, CallInv, RowJustified, WroteRow, Writing
<1>8. NotLost(k)'
  BY <1>1, <1>3 DEF KeyInv, CallInv, NotLost, Ended
<1>9. OneCall(k)'
  BY <1>1, <1>3 DEF KeyInv, OneCall, Active, Ended
<1>10. UndisturbedCalls(k)'
  BY <1>1, <1>3, <1>4 DEF KeyInv, UndisturbedCalls, UndisturbedKey, CallInv, Writing, Active
<1>11. UndisturbedKey(k)'
  BY <1>1, <1>3, <1>4 DEF KeyInv, UndisturbedCalls, UndisturbedKey, CallInv, Writing, Active
<1> QED
  BY <1>2, <1>5, <1>6, <1>7, <1>8, <1>9, <1>10, <1>11 DEF KeyInv

(* A failing command marks the key as disturbed.                           *)
LEMMA SqlFailsKeeps ==
  ASSUME TypeOK, NEW k \in Key, NEW d \in DeliveriesOf(k), KeyInv(k), SqlFails(d)
  PROVE  TypeOK' /\ Frame(d) /\ KeyInv(k)'
<1> k = KeyOf[d] /\ d \in Delivery /\ runs[k] \in 0 .. 2
  BY DEF DeliveriesOf, TypeOK
<1>1. /\ CallsTyped' /\ OthersStay(d)
      /\ pc[d] \in SqlCommand
      /\ UNCHANGED <<mem, runs, overlap>> /\ faults' \in 0 .. MaxFaults
      /\ sql' \in [Key -> EntryState \cup {"Absent"}] /\ \A x \in Key : x # k => sql'[x] = sql[x]
      /\ fault' \in [Key -> SUBSET {"crash", "sql", "pk"}]
      /\ \A x \in Key : x # k => fault'[x] = fault[x]
      /\ "sql" \in fault'[k]
      /\ \/ pc'[d] = "ready" /\ target'[d] = "Reserved"
         \/ pc'[d] = "removeMem" /\ at'[d] = at[d] /\ target'[d] = target[d]
  BY ThrowMoves, ExecutedEffect, ConsumerAssumption DEF SqlFails, SqlCommand, TypeOK, Active
<1>2. TypeOK' /\ Frame(d)
  BY <1>1, ConsumerAssumption DEF TypeOK, CallsTyped, Frame
<1>3. \A e \in DeliveriesOf(k) : e # d =>
        /\ pc'[e] = pc[e] /\ at'[e] = at[e] /\ target'[e] = target[e]
  BY <1>2 DEF Frame, OthersStay, DeliveriesOf
<1>4. CallInv(k)'
  BY <1>1, <1>3 DEF KeyInv, CallInv
<1>5. MemJustified(k)'
  BY <1>1, <1>3 DEF KeyInv, MemJustified, WroteMem
<1>6. RowJustified(k)'
  BY <1>1, <1>3 DEF KeyInv, RowJustified, WroteRow, Writing
<1>7. NotLost(k)'
  BY <1>1, <1>3 DEF KeyInv, NotLost, Ended
<1>8. OneCall(k)'
  BY <1>1, <1>3 DEF KeyInv, OneCall, Active, SqlCommand
<1>9. UndisturbedCalls(k)'
  BY <1>1, <1>3 DEF KeyInv, UndisturbedCalls, Undisturbed, Writing
<1>10. UndisturbedKey(k)'
  BY <1>1, <1>3 DEF KeyInv, UndisturbedKey, Undisturbed, Writing
<1> QED
  BY <1>2, <1>4, <1>5, <1>6, <1>7, <1>8, <1>9, <1>10 DEF KeyInv
-----------------------------------------------------------------------------
(* The steps that are no call's: a crash ends all the calls of a node at   *)
(* once, and an eviction only makes a memory forget.                       *)
LEMMA CrashTyped ==
  ASSUME TypeOK, NEW n \in Node, Crash(n)
  PROVE  TypeOK'
<1>1. CallsTyped'
  BY ConsumerAssumption DEF TypeOK, CallsTyped, Crash, Active, Ended, EntryState
<1>2. /\ UNCHANGED <<sql, runs, overlap>>
      /\ mem' \in [Node -> SUBSET Key]
      /\ faults' \in 0 .. MaxFaults
      /\ fault' \in [Key -> SUBSET {"crash", "sql", "pk"}]
  BY ConsumerAssumption DEF TypeOK, Crash
<1> QED
  BY <1>1, <1>2 DEF TypeOK, CallsTyped

(* A crash marks the keys of the calls it ended.                          *)
LEMMA CrashKeeps ==
  ASSUME TypeOK, NEW k \in Key, KeyInv(k), NEW n \in Node, Crash(n)
  PROVE  KeyInv(k)'
<1>1. /\ UNCHANGED <<sql, runs, overlap>>
      /\ \A d \in Delivery :
           IF at[d] = n
             THEN pc'[d] = "ready" /\ at'[d] = NoNode /\ target'[d] = "Reserved"
             ELSE pc'[d] = pc[d] /\ at'[d] = at[d] /\ target'[d] = target[d]
      /\ mem'[n] = {} /\ \A m \in Node : m # n => mem'[m] = mem[m]
      /\ IF \E d \in DeliveriesOf(k) : at[d] = n
           THEN "crash" \in fault'[k] /\ ("sql" \in fault'[k] <=> "sql" \in fault[k])
           ELSE fault'[k] = fault[k]
  BY ConsumerAssumption DEF TypeOK, Crash, DeliveriesOf
<1>2. CallInv(k)'
  BY <1>1 DEF KeyInv, CallInv, DeliveriesOf
<1>3. MemJustified(k)'
  BY <1>1 DEF KeyInv, MemJustified, WroteMem, DeliveriesOf
<1>4. RowJustified(k)'
  BY <1>1 DEF KeyInv, RowJustified, WroteRow, Writing, DeliveriesOf
<1>5. NotLost(k)'
  BY <1>1 DEF KeyInv, NotLost, Ended, DeliveriesOf
<1>6. OneCall(k)'
  BY <1>1 DEF KeyInv, OneCall, Active, DeliveriesOf
<1>7. UndisturbedCalls(k)'
  BY <1>1 DEF KeyInv, UndisturbedCalls, Undisturbed, Writing, DeliveriesOf
<1>8. UndisturbedKey(k)'
  BY <1>1 DEF KeyInv, UndisturbedKey, Undisturbed, Writing, DeliveriesOf
<1> QED
  BY <1>2, <1>3, <1>4, <1>5, <1>6, <1>7, <1>8 DEF KeyInv

(* A memory that forgets a key has nothing left to justify.               *)
LEMMA EvictKeeps ==
  ASSUME TypeOK, NEW k \in Key, KeyInv(k), NEW n \in Node, NEW x \in Key, Evict(n, x)
  PROVE  TypeOK' /\ KeyInv(k)'
<1>1. /\ UNCHANGED <<pc, at, target, sql, runs, overlap, fault, faults>>
      /\ mem' \in [Node -> SUBSET Key] /\ \A m \in Node : mem'[m] \subseteq mem[m]
  BY DEF TypeOK, Evict, history
<1>2. TypeOK'
  BY <1>1 DEF TypeOK
<1>3. MemJustified(k)'
  BY <1>1 DEF KeyInv, MemJustified, WroteMem
<1> QED
  BY <1>1, <1>2, <1>3 DEF KeyInv, CallInv, RowJustified, NotLost, OneCall, UndisturbedCalls,
     UndisturbedKey, Undisturbed, WroteRow

(* A step that changes nothing keeps it.                                  *)
LEMMA StutterKeeps ==
  ASSUME ConsumerInv, UNCHANGED vars
  PROVE  ConsumerInv'
  BY DEF vars, history, ConsumerInv, TypeOK, KeyInv, CallInv, MemJustified, RowJustified, NotLost,
     OneCall, UndisturbedCalls, UndisturbedKey, Undisturbed, WroteMem, WroteRow

-----------------------------------------------------------------------------
(* The invariant holds initially and every step keeps it.                 *)
LEMMA ConsumerInvInit == Init => ConsumerInv
<1> SUFFICES ASSUME Init PROVE ConsumerInv
  OBVIOUS
<1>1. TypeOK
  BY TypeInit
<1>2. ASSUME NEW k \in Key PROVE KeyInv(k)
  BY DEF Init, KeyInv, CallInv, MemJustified, RowJustified, NotLost, OneCall, UndisturbedCalls,
     UndisturbedKey, DeliveriesOf, Active, Ended, Writing
<1> QED
  BY <1>1, <1>2 DEF ConsumerInv

(* A step of the call of d keeps the invariant of every key.               *)
LEMMA CallKeepsConsumerInv ==
  ASSUME ConsumerInv, NEW d \in Delivery,
         (\E n \in Node : Deliver(d, n)) \/ Step(d) \/ SqlFails(d)
  PROVE  ConsumerInv'
<1> DEFINE k == KeyOf[d]
<1>1. k \in Key /\ d \in DeliveriesOf(k) /\ TypeOK /\ KeyInv(k)
  BY ConsumerAssumption DEF ConsumerInv, DeliveriesOf
<1>2. TypeOK' /\ Frame(d) /\ KeyInv(k)'
  BY <1>1, DeliverKeeps, ContainsMemKeeps, ContainsSqlKeeps, AddMemKeeps, ExistSqlKeeps,
     UpdateSqlKeeps, InsertSqlKeeps, InsertDuplicateKeeps, FuncSucceedsKeeps, FuncFailsKeeps,
     RemoveMemKeeps, RemoveSqlKeeps, SqlFailsKeeps DEF Step
<1>3. \A x \in Key : x # k => KeyInv(x)'
  BY <1>2, OtherKeys DEF ConsumerInv
<1> QED
  BY <1>2, <1>3 DEF ConsumerInv

(* Every step is a call's, a crash, an eviction or a stutter.              *)
LEMMA ConsumerInvNext ==
  ASSUME ConsumerInv, [Next]_vars
  PROVE  ConsumerInv'
<1>1. ASSUME NEW d \in Delivery, (\E n \in Node : Deliver(d, n)) \/ Step(d) \/ SqlFails(d)
      PROVE  ConsumerInv'
  BY <1>1, CallKeepsConsumerInv
<1>2. ASSUME NEW n \in Node, Crash(n) PROVE ConsumerInv'
  BY <1>2, CrashTyped, CrashKeeps DEF ConsumerInv
<1>3. ASSUME NEW n \in Node, NEW x \in Key, Evict(n, x) PROVE ConsumerInv'
  BY <1>3, EvictKeeps DEF ConsumerInv
<1>4. ASSUME UNCHANGED vars PROVE ConsumerInv'
  BY <1>4, StutterKeeps
<1> QED
  BY <1>1, <1>2, <1>3, <1>4 DEF Next

(* The inductive invariant, from which the properties follow.             *)
THEOREM ConsumerInvariant == Spec => []ConsumerInv
<1>1. Init => ConsumerInv
  BY ConsumerInvInit
<1>2. ConsumerInv /\ [Next]_vars => ConsumerInv'
  BY ConsumerInvNext
<1> QED
  BY <1>1, <1>2, PTL DEF Spec

(* Every reachable state is typed; a call is at a node just while it runs. *)
THEOREM ConsumerTypeCorrect == Spec => []TypeOK
<1>1. ConsumerInv => TypeOK
  BY DEF ConsumerInv
<1> QED
  BY <1>1, ConsumerInvariant, PTL

(* A message whose calls never overlapped and met no failing SQL command   *)
(* is processed at most once, however often it is delivered and however    *)
(* many processes crash.                                                   *)
THEOREM FunctionRunsOnce == Spec => []EffectOnce
<1>1. ConsumerInv => EffectOnce
  BY DEF ConsumerInv, KeyInv, UndisturbedKey, EffectOnce
<1> QED
  BY <1>1, ConsumerInvariant, PTL

(* Without a fault, deliveries are not all acknowledged before the message *)
(* was processed, whatever the interleaving of its duplicates.             *)
THEOREM NoMessageIsLost == Spec => []NoLostMessage
<1>1. ConsumerInv => NoLostMessage
  BY DEF ConsumerInv, KeyInv, NotLost, NoLostMessage, DeliveriesOf
<1> QED
  BY <1>1, ConsumerInvariant, PTL

(* Between undisturbed calls a message is unknown everywhere or committed. *)
THEOREM CallsAreAllOrNothing == Spec => []AllOrNothing
<1>1. ConsumerInv => AllOrNothing
  <2> SUFFICES ASSUME ConsumerInv, NEW k \in Key, Quiet(k), ~ overlap[k], fault[k] = {}
               PROVE  \/ sql[k] = "Absent" /\ runs[k] = 0 /\ \A n \in Node : k \notin mem[n]
                      \/ sql[k] = "Committed" /\ runs[k] = 1
    BY DEF AllOrNothing
  <2>1. \A d \in DeliveriesOf(k) : ~ WroteMem(d) /\ ~ WroteRow(d) /\ pc[d] \notin Writing
    BY DEF Quiet, WroteMem, WroteRow, Writing, Active, DeliveriesOf
  <2>2. KeyInv(k) /\ Undisturbed(k) /\ runs[k] \in 0 .. 2
    BY DEF ConsumerInv, TypeOK, Undisturbed
  <2> QED
    BY <2>1, <2>2 DEF KeyInv, UndisturbedKey, MemJustified, RowJustified
<1> QED
  BY <1>1, ConsumerInvariant, PTL

(* No step takes back a committed row of an undisturbed key.               *)
THEOREM CommittedStays == Spec => CommittedIsFinal
<1>1. ConsumerInv /\ [Next]_vars =>
        [\A k \in Key : sql[k] = "Committed" /\ Undisturbed(k)' => sql'[k] = "Committed"]_vars
  <2> SUFFICES ASSUME ConsumerInv, Next, NEW k \in Key, sql[k] = "Committed", Undisturbed(k)',
                      sql'[k] # "Committed"
               PROVE  FALSE
    OBVIOUS
  <2>1. PICK d \in Delivery : Step(d) \/ SqlFails(d)
    BY DEF Next, Deliver, Crash, Evict
  <2>2. KeyOf[d] \in Key /\ target[d] \in EntryState /\ KeyInv(k) /\ TypeOK
    BY ConsumerAssumption DEF ConsumerInv, TypeOK
  <2>3. KeyOf[d] = k
    BY <2>1, <2>2, ExecutedEffect DEF Step, ContainsMem, ContainsSql, AddMem, ExistSql, UpdateSql,
       InsertSql, InsertDuplicate, FuncSucceeds, FuncFails, RemoveMem, RemoveSql, SqlFails
  <2>4. ~ SqlFails(d)
    <3>1. SqlFails(d) => "sql" \in fault'[k]
      BY <2>2, <2>3 DEF SqlFails, TypeOK
    <3> QED
      BY <3>1 DEF Undisturbed
  <2>5. UpdateSql(d) \/ InsertSql(d) \/ RemoveSql(d)
    BY <2>1, <2>4 DEF Step, ContainsMem, ContainsSql, AddMem, ExistSql, InsertDuplicate,
       FuncSucceeds, FuncFails, RemoveMem
  <2>6. Undisturbed(k)
    BY <2>5 DEF UpdateSql, InsertSql, RemoveSql, history, Undisturbed
  <2>7. \/ pc[d] = "removeSql"
        \/ pc[d] \in {"updateSql", "insertSql"} /\ target[d] # "Committed"
    BY <2>2, <2>3, <2>5, ExecutedEffect DEF UpdateSql, InsertSql, RemoveSql
  <2> QED
    BY <2>2, <2>3, <2>6, <2>7 DEF KeyInv, UndisturbedKey, UndisturbedCalls, Writing, EntryState,
       DeliveriesOf, TypeOK
<1> QED
  BY <1>1, ConsumerInvariant, PTL DEF Spec, CommittedIsFinal

-----------------------------------------------------------------------------
(* A message all of whose deliveries are acknowledged was processed exactly*)
(* once and is recorded as Committed, if its calls never met and no crash, *)
(* failed command or refused INSERT struck them: failing functions,        *)
(* redeliveries to other nodes and evictions change nothing in that.       *)
ProcessedOnce ==
  \A k \in Key :
    /\ ~ overlap[k] /\ fault[k] = {}
    /\ \E d \in Delivery : KeyOf[d] = k
    /\ \A d \in Delivery : KeyOf[d] = k => pc[d] \in Ended
    => runs[k] = 1 /\ sql[k] = "Committed"

(* ProcessedOnce: what the invariants promise together.                    *)
THEOREM AcknowledgedIsProcessedOnce == Spec => []ProcessedOnce
<1>1. NoLostMessage /\ AllOrNothing => ProcessedOnce
  BY DEF NoLostMessage, AllOrNothing, ProcessedOnce, Quiet, Ended, Active
<1> QED
  BY <1>1, NoMessageIsLost, CallsAreAllOrNothing, PTL

=============================================================================
