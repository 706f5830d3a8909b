------------------------- MODULE IdempotentConsumer -------------------------
(***************************************************************************)
(* IdempotentConsumer.ProcessAsync over RepositoryMembershipStrategy and   *)
(* SqlServerRepository: the processes (nodes) of a service consume the     *)
(* deliveries of a broker, each node with its own in-memory repository, all *)
(* with one SQL table.  Every await is a step boundary: the two lookups of *)
(* ContainsAsync, the four parts of AddOrUpdateAsync (called with the      *)
(* states Reserved, Processing and Committed in turn), the caller's        *)
(* function, and the two parts of RemoveAsync.                             *)
(*                                                                         *)
(* The broker is the caller's and is modelled from what ProcessAsync tells *)
(* it: a call that returns Consumed or Ignored is acknowledged, one that   *)
(* throws or dies with its process is delivered again, on any node.  The   *)
(* in-memory repository is the set of keys it answers for: it may lose any *)
(* of them at any time, to eviction and to the races of                    *)
(* InMemoryCircularBufferRepository.                                       *)
(***************************************************************************)
EXTENDS Naturals

CONSTANTS
  Delivery,   \* messages handed over by the broker, duplicates included
  Key,        \* idempotency keys (of one InstanceId)
  KeyOf,      \* the key of each delivery
  Node,       \* processes, each with its singleton in-memory repository
  NoNode,
  MaxFaults   \* bound: crashes and failing SQL commands in a behaviour

ASSUME ConsumerAssumption ==
  /\ KeyOf \in [Delivery -> Key]
  /\ NoNode \notin Node
  /\ MaxFaults \in Nat

VARIABLES
  pc,         \* where the call for each delivery is
  at,         \* the node that runs it
  target,     \* the entry state AddOrUpdateAsync is writing for it
  mem,        \* the keys each node's in-memory repository contains
  sql,        \* the STATE column of each key's row, or "Absent"
  runs,       \* history: how often the function completed (2 is "again")
  overlap,    \* history: two calls for the key were once in progress together
  fault,      \* history: what struck a call for the key
  faults      \* how many crashes and SQL failures there were

history == <<runs, overlap, fault, faults>>
vars == <<pc, at, target, mem, sql, history>>

Active == {"containsMem", "containsSql", "addMem", "existSql", "updateSql",
           "insertSql", "func", "removeMem", "removeSql"}
Ended == {"consumed", "ignored"}
EntryState == {"Reserved", "Processing", "Committed"}
SqlCommand == {"containsSql", "existSql", "updateSql", "insertSql", "removeSql"}

TypeOK ==
  /\ pc \in [Delivery -> {"ready"} \cup Active \cup Ended]
  /\ at \in [Delivery -> Node \cup {NoNode}]
  /\ target \in [Delivery -> EntryState]
  /\ mem \in [Node -> SUBSET Key]
  /\ sql \in [Key -> EntryState \cup {"Absent"}]
  /\ runs \in [Key -> 0 .. 2]
  /\ overlap \in [Key -> BOOLEAN]
  /\ fault \in [Key -> SUBSET {"crash", "sql", "pk"}]
  /\ faults \in 0 .. MaxFaults
  /\ \A d \in Delivery : pc[d] \in Active <=> at[d] \in Node

Init ==
  /\ pc = [d \in Delivery |-> "ready"]
  /\ at = [d \in Delivery |-> NoNode]
  /\ target = [d \in Delivery |-> "Reserved"]
  /\ mem = [n \in Node |-> {}]
  /\ sql = [k \in Key |-> "Absent"]
  /\ runs = [k \in Key |-> 0]
  /\ overlap = [k \in Key |-> FALSE]
  /\ fault = [k \in Key |-> {}]
  /\ faults = 0

-----------------------------------------------------------------------------
Goto(d, p) ==
  /\ pc' = [pc EXCEPT ![d] = p]
  /\ UNCHANGED <<at, target>>

(* ProcessAsync returns or throws to its caller.                           *)
Leave(d, p) ==
  /\ pc' = [pc EXCEPT ![d] = p]
  /\ at' = [at EXCEPT ![d] = NoNode]
  /\ target' = [target EXCEPT ![d] = "Reserved"]

(* A mutant of Throw: the exception of the pre-processing and of the       *)
(* function reaches the caller without a rollback.                         *)
ThrowWithoutRollback(d) == Leave(d, "ready")

(* ExistsAsync, which writes Reserved, is outside the try; what fails in   *)
(* the try goes to RollbackAsync, and what fails there to the caller.      *)
Throw(d) ==
  IF target[d] = "Reserved" \/ pc[d] = "removeSql"
    THEN Leave(d, "ready")
    ELSE Goto(d, "removeMem")

(* The broker hands a delivery that is not acknowledged to some node.      *)
Deliver(d, n) ==
  /\ pc[d] = "ready"
  /\ pc' = [pc EXCEPT ![d] = "containsMem"]
  /\ at' = [at EXCEPT ![d] = n]
  /\ overlap' = [overlap EXCEPT ![KeyOf[d]] =
                   @ \/ \E e \in Delivery : /\ KeyOf[e] = KeyOf[d]
                                            /\ pc[e] \in Active]
  /\ UNCHANGED <<target, mem, sql, runs, fault, faults>>

-----------------------------------------------------------------------------
(* ContainsAsync: memory first, and the table only if memory does not have *)
(* the key.  The state of the entry is not looked at.                      *)
ContainsMem(d) ==
  /\ pc[d] = "containsMem"
  /\ IF KeyOf[d] \in mem[at[d]] THEN Leave(d, "ignored")
                                ELSE Goto(d, "containsSql")
  /\ UNCHANGED <<mem, sql, history>>

(* A mutant of ContainsSql: memory alone decides.                          *)
ContainsMemoryOnly(d) ==
  /\ pc[d] = "containsSql"
  /\ Goto(d, "addMem")
  /\ UNCHANGED <<mem, sql, history>>

ContainsSql(d) ==
  /\ pc[d] = "containsSql"
  /\ IF sql[KeyOf[d]] # "Absent" THEN Leave(d, "ignored")
                                 ELSE Goto(d, "addMem")
  /\ UNCHANGED <<mem, sql, history>>

-----------------------------------------------------------------------------
(* AddOrUpdateAsync of target[d]: memory first, then the table.            *)
AddMem(d) ==
  /\ pc[d] = "addMem"
  /\ mem' = [mem EXCEPT ![at[d]] = @ \cup {KeyOf[d]}]
  /\ Goto(d, "existSql")
  /\ UNCHANGED <<sql, history>>

ExistSql(d) ==
  /\ pc[d] = "existSql"
  /\ Goto(d, IF sql[KeyOf[d]] # "Absent" THEN "updateSql" ELSE "insertSql")
  /\ UNCHANGED <<mem, sql, history>>

(* What the database does with the command of a call: the UPDATE of a row  *)
(* that is not there changes nothing, the primary key refuses a second     *)
(* INSERT.                                                                 *)
Executed(d) ==
  LET k == KeyOf[d]
  IN  CASE pc[d] = "updateSql" /\ sql[k] # "Absent" -> [sql EXCEPT ![k] = target[d]]
        [] pc[d] = "insertSql" /\ sql[k] = "Absent" -> [sql EXCEPT ![k] = target[d]]
        [] pc[d] = "removeSql" -> [sql EXCEPT ![k] = "Absent"]
        [] OTHER -> sql

(* Mutants of AfterWrite: the rollback in a "finally", which runs after a  *)
(* commit too, and an entry written without its state.                     *)
AfterWriteFinally(d) ==
  CASE target[d] = "Reserved" ->
         /\ pc' = [pc EXCEPT ![d] = "addMem"]
         /\ target' = [target EXCEPT ![d] = "Processing"]
         /\ UNCHANGED at
    [] target[d] = "Processing" -> Goto(d, "func")
    [] target[d] = "Committed" -> Goto(d, "removeMem")

AfterWriteNoState(d) ==
  /\ pc' = [pc EXCEPT ![d] = "addMem"]
  /\ target' = [target EXCEPT ![d] = "None"]
  /\ UNCHANGED at

(* Where ProcessAsync goes on after each of its three writes.              *)
AfterWrite(d) ==
  CASE target[d] = "Reserved" ->
         /\ pc' = [pc EXCEPT ![d] = "addMem"]
         /\ target' = [target EXCEPT ![d] = "Processing"]
         /\ UNCHANGED at
    [] target[d] = "Processing" -> Goto(d, "func")
    [] target[d] = "Committed" -> Leave(d, "consumed")

UpdateSql(d) ==
  /\ pc[d] = "updateSql"
  /\ sql' = Executed(d)
  /\ AfterWrite(d)
  /\ UNCHANGED <<mem, history>>

InsertSql(d) ==
  /\ pc[d] = "insertSql"
  /\ sql[KeyOf[d]] = "Absent"
  /\ sql' = Executed(d)
  /\ AfterWrite(d)
  /\ UNCHANGED <<mem, history>>

(* Another call inserted the row after ExistSql: the INSERT throws.        *)
InsertDuplicate(d) ==
  /\ pc[d] = "insertSql"
  /\ sql[KeyOf[d]] # "Absent"
  /\ fault' = [fault EXCEPT ![KeyOf[d]] = @ \cup {"pk"}]
  /\ Throw(d)
  /\ UNCHANGED <<mem, sql, runs, overlap, faults>>

-----------------------------------------------------------------------------
FuncSucceeds(d) ==
  /\ pc[d] = "func"
  /\ runs' = [runs EXCEPT ![KeyOf[d]] = IF @ = 0 THEN 1 ELSE 2]
  /\ pc' = [pc EXCEPT ![d] = "addMem"]
  /\ target' = [target EXCEPT ![d] = "Committed"]
  /\ UNCHANGED <<at, mem, sql, overlap, fault, faults>>

FuncFails(d) ==
  /\ pc[d] = "func"
  /\ Throw(d)
  /\ UNCHANGED <<mem, sql, history>>

(* Mutants of the rollback: each half left out.                            *)
RemoveMemSkipped(d) ==
  /\ pc[d] = "removeMem"
  /\ Goto(d, "removeSql")
  /\ UNCHANGED <<mem, sql, history>>

RemoveSqlSkipped(d) ==
  /\ pc[d] = "removeSql"
  /\ Leave(d, "ready")
  /\ UNCHANGED <<mem, sql, history>>

(* RemoveAsync: the in-memory task has run when the DELETE is sent.  The   *)
(* exception that led here is then thrown to the caller.                   *)
RemoveMem(d) ==
  /\ pc[d] = "removeMem"
  /\ mem' = [mem EXCEPT ![at[d]] = @ \ {KeyOf[d]}]
  /\ Goto(d, "removeSql")
  /\ UNCHANGED <<sql, history>>

RemoveSql(d) ==
  /\ pc[d] = "removeSql"
  /\ sql' = Executed(d)
  /\ Leave(d, "ready")
  /\ UNCHANGED <<mem, history>>

-----------------------------------------------------------------------------
(* A SQL command fails, before or after the database executed it.          *)
SqlFails(d) ==
  /\ faults < MaxFaults
  /\ pc[d] \in SqlCommand
  /\ sql' \in {sql, Executed(d)}
  /\ Throw(d)
  /\ fault' = [fault EXCEPT ![KeyOf[d]] = @ \cup {"sql"}]
  /\ faults' = faults + 1
  /\ UNCHANGED <<mem, runs, overlap>>

(* A node dies and restarts with an empty memory.                          *)
Crash(n) ==
  LET Lost == {d \in Delivery : at[d] = n}
  IN  /\ faults < MaxFaults
      /\ pc' = [d \in Delivery |-> IF d \in Lost THEN "ready" ELSE pc[d]]
      /\ at' = [d \in Delivery |-> IF d \in Lost THEN NoNode ELSE at[d]]
      /\ target' = [d \in Delivery |-> IF d \in Lost THEN "Reserved" ELSE target[d]]
      /\ mem' = [mem EXCEPT ![n] = {}]
      /\ fault' = [k \in Key |-> IF \E d \in Lost : KeyOf[d] = k
                                   THEN fault[k] \cup {"crash"} ELSE fault[k]]
      /\ faults' = faults + 1
      /\ UNCHANGED <<sql, runs, overlap>>

(* The in-memory repository loses an entry.                                *)
Evict(n, k) ==
  /\ k \in mem[n]
  /\ mem' = [mem EXCEPT ![n] = @ \ {k}]
  /\ UNCHANGED <<pc, at, target, sql, history>>

(* What a call does by itself, whichever way the function ends.            *)
Step(d) ==
  \/ ContainsMem(d) \/ ContainsSql(d)
  \/ AddMem(d) \/ ExistSql(d) \/ UpdateSql(d) \/ InsertSql(d) \/ InsertDuplicate(d)
  \/ FuncSucceeds(d) \/ FuncFails(d)
  \/ RemoveMem(d) \/ RemoveSql(d)

Next ==
  \/ \E d \in Delivery : \/ \E n \in Node : Deliver(d, n)
                         \/ Step(d)
                         \/ SqlFails(d)
  \/ \E n \in Node : Crash(n) \/ \E k \in Key : Evict(n, k)

Spec == Init /\ [][Next]_vars

(* The thread pool runs every continuation, the broker delivers again what *)
(* was not acknowledged, and the function does not fail for ever.          *)
Fairness ==
  \A d \in Delivery :
    /\ WF_vars(\E n \in Node : Deliver(d, n))
    /\ WF_vars(Step(d))
    /\ SF_vars(FuncSucceeds(d))

FairSpec == Spec /\ Fairness

-----------------------------------------------------------------------------
(* Calls for a key never met and none of its SQL commands failed.          *)
Undisturbed(k) == ~ overlap[k] /\ "sql" \notin fault[k]

Quiet(k) == \A d \in Delivery : KeyOf[d] = k => pc[d] \notin Active

(* A message is processed twice only if two calls for its key were in      *)
(* progress together or a SQL command of one failed (after the function,   *)
(* say, so that the rollback forgot a completed message): redelivery after *)
(* an exception, a crash at any step, eviction from memory and another     *)
(* node never repeat the function.                                         *)
EffectOnce == \A k \in Key : Undisturbed(k) => runs[k] <= 1

(* As long as no crash, failed command or refused INSERT struck a call for *)
(* the key, the broker never ends up with every delivery of a message      *)
(* acknowledged and the message unprocessed, although duplicates are       *)
(* ignored while the first call may still fail and roll back.              *)
NoLostMessage ==
  \A k \in Key :
    /\ fault[k] = {}
    /\ \E d \in Delivery : KeyOf[d] = k
    /\ \A d \in Delivery : KeyOf[d] = k => pc[d] \in Ended
    => runs[k] >= 1

(* Between calls, a key that nothing disturbed is either unknown to every  *)
(* memory and to the table, or committed in the table with its function    *)
(* run: no half-made Reserved or Processing entry stays, and no memory     *)
(* knows a key the table does not.                                         *)
AllOrNothing ==
  \A k \in Key :
    Quiet(k) /\ ~ overlap[k] /\ fault[k] = {} =>
      \/ sql[k] = "Absent" /\ runs[k] = 0 /\ \A n \in Node : k \notin mem[n]
      \/ sql[k] = "Committed" /\ runs[k] = 1

(* A committed row of an undisturbed key is never taken back, neither by a *)
(* later state nor by a rollback.                                          *)
CommittedIsFinal ==
  [][\A k \in Key : sql[k] = "Committed" /\ Undisturbed(k)' => sql'[k] = "Committed"]_vars

(* Every message is processed in the end unless a fault strikes a call for *)
(* it: its duplicates ignore each other's reservations, but not for ever.  *)
EventuallyProcessed ==
  \A k \in Key :
    (\E d \in Delivery : KeyOf[d] = k) => <>(runs[k] >= 1 \/ fault[k] # {})

(* While the first delivery of a message is being processed, a second one  *)
(* is ignored: what the integration test of concurrent calls asserts.      *)
SecondIsIgnored ==
  \A d, e \in Delivery :
    KeyOf[d] = KeyOf[e] /\ pc[d] = "func" /\ pc[e] = "func" => d = e

=============================================================================
