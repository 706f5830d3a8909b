------------------------ MODULE ScheduledMessageProofs ------------------------
(***************************************************************************)
(* What holds of ScheduledMessage for every set of messages and requests   *)
(* and every bound: its invariants, by one inductive invariant, which is a *)
(* conjunction of facts about each message alone.                          *)
(***************************************************************************)
EXTENDS ScheduledMessage, TLAPS

(* A message has no job before it is scheduled, and one that has no job    *)
(* was never run.                                                          *)
Unscheduled(m) ==
  /\ pc[m] \in {"idle", "saving", "scheduling"} => job[m] = "none"
  /\ job[m] = "none" => failures[m] = 0 /\ delivered[m] = 0

(* What is left of the wait never exceeds what the job still waits for.    *)
OnTime(m) ==
  /\ pc[m] \in {"saving", "scheduling"} => until[m] <= delay[m] + Early(m)
  /\ job[m] = "scheduled" => until[m] <= due[m] + Early(m)
  /\ job[m] \notin {"none", "scheduled"} => until[m] <= Early(m)
  /\ delivered[m] > 0 => until[m] <= Early(m)

(* A job is created after its parameters, which go only when they expire.  *)
Durable(m) ==
  /\ pc[m] = "scheduling" \/ job[m] # "none" => stored[m] \/ ttl[m] = 0
  /\ pc[m] = "ok" => job[m] # "none"

(* Between two posts of a message there is a crash.                        *)
Counted(m) ==
  IF job[m] \in {"posted", "succeeded"}
  THEN delivered[m] <= 1 + crashes[m]
  ELSE delivered[m] <= crashes[m]

Explained(m) ==
  job[m] \in {"posted", "succeeded"} =>
    delivered[m] > 0 \/ gatewayError[m] \/ ~ Readable(input[m])

(* More runs threw than reads failed only when the parameters are gone.    *)
Attempted(m) ==
  /\ failures[m] > readFaults[m] => ~ stored[m] /\ ttl[m] = 0
  /\ IF job[m] = "failed" THEN failures[m] = Attempts ELSE failures[m] < Attempts

MessageInv(m) ==
  Unscheduled(m) /\ OnTime(m) /\ Durable(m) /\ Counted(m) /\ Explained(m) /\ Attempted(m)

IInv == TypeOK /\ \A m \in Message : MessageInv(m)

(* Every step keeps the types.                                             *)
LEMMA TypeStep == IInv /\ [Next]_vars => TypeOK'
<1> SUFFICES ASSUME IInv, [Next]_vars PROVE TypeOK'
  OBVIOUS
<1>0. TypeOK
  BY DEF IInv
<1>1. ASSUME NEW m \in Message, Receive(m) PROVE TypeOK'
  <2>1. DelayToWait(m) \in Nat
    BY <1>0, ScheduleAssumption DEF DelayToWait, Less, Early, TypeOK
  <2>2. delay' \in [Message -> Nat] /\ ttl' \in [Message -> Nat]
    BY <1>0, <1>1, <2>1, ScheduleAssumption DEF TypeOK, Receive
  <2>3. pc' \in [Message -> {"idle", "saving", "scheduling", "dropped"} \cup Replied]
    BY <1>0, <1>1 DEF TypeOK, Receive, Replied
  <2> QED
    BY <1>0, <1>1, <2>2, <2>3 DEF TypeOK, Receive, work, post
<1>2. ASSUME NEW m \in Message, SaveParams(m) PROVE TypeOK'
  <2>1. stored' \in [Message -> BOOLEAN]
    BY <1>0, <1>2, Zenon DEF TypeOK, SaveParams
  <2>2. ttl' \in [Message -> Nat]
    BY <1>0, <1>2 DEF TypeOK, SaveParams
  <2> QED
    BY <1>0, <1>2, <2>1, <2>2 DEF TypeOK, SaveParams, work, post, Replied
<1>3. ASSUME NEW m \in Message, ScheduleJob(m) PROVE TypeOK'
  BY <1>0, <1>3 DEF TypeOK, ScheduleJob, params, post, Replied
<1>4. ASSUME NEW m \in Message, Enqueue(m) \/ Fetch(m) \/ Refetch(m) \/ Complete(m) PROVE TypeOK'
  BY <1>0, <1>4 DEF TypeOK, Enqueue, Fetch, Refetch, Complete, request, params, post, Running, Finished
<1>5. ASSUME NEW m \in Message, RecoverParams(m) PROVE TypeOK'
  <2>1. failures[m] < Attempts
    BY <1>5 DEF IInv, MessageInv, Attempted, RecoverParams
  <2> QED
    BY <1>0, <1>5, <2>1, ScheduleAssumption
    DEF TypeOK, RecoverParams, Retry, request, params, post, Running, Finished
<1>6. ASSUME NEW m \in Message, PostMessage(m) PROVE TypeOK'
  <2>1. gatewayError' \in [Message -> BOOLEAN]
    <3>1. CASE Readable(input[m])
      BY <1>0, <1>6, <3>1, Zenon DEF TypeOK, PostMessage
    <3>2. CASE ~ Readable(input[m])
      BY <1>0, <1>6, <3>2, Zenon DEF TypeOK, PostMessage, post
    <3> QED
      BY <3>1, <3>2
  <2>2. delivered' \in [Message -> Nat]
    <3>1. CASE Readable(input[m])
      BY <1>0, <1>6, <3>1 DEF TypeOK, PostMessage
    <3>2. CASE ~ Readable(input[m])
      BY <1>0, <1>6, <3>2 DEF TypeOK, PostMessage, post
    <3> QED
      BY <3>1, <3>2
  <2>3. job' \in [Message -> {"none", "scheduled", "enqueued", "abandoned"} \cup Running \cup Finished]
    BY <1>0, <1>6 DEF TypeOK, PostMessage, Running
  <2> QED
    BY <1>0, <1>6, <2>1, <2>2, <2>3 DEF TypeOK, PostMessage, request, params
<1>7. ASSUME NEW m \in Message, ExpireParams(m) PROVE TypeOK'
  BY <1>0, <1>7 DEF TypeOK, ExpireParams, request, work, post
<1>8. ASSUME NEW down \in SUBSET Message, Crash(down) PROVE TypeOK'
  BY <1>0, <1>8, ScheduleAssumption DEF TypeOK, Crash, params, post, Replied, Running, Finished
<1>9. ASSUME Tick PROVE TypeOK'
  BY <1>0, <1>9 DEF TypeOK, Tick, Less, request, post
<1>10. ASSUME UNCHANGED vars PROVE TypeOK'
  BY <1>0, <1>10 DEF TypeOK, vars, request, params, work, post
<1> QED
  BY <1>1, <1>2, <1>3, <1>4, <1>5, <1>6, <1>7, <1>8, <1>9, <1>10 DEF Next, Serve, Execute

(* Every step keeps the facts about a message.                             *)
LEMMA MessageStep == IInv /\ [Next]_vars => \A n \in Message : MessageInv(n)'
<1> SUFFICES ASSUME IInv, [Next]_vars, NEW n \in Message PROVE MessageInv(n)'
  OBVIOUS
<1> USE DEF MessageInv, Unscheduled, OnTime, Durable, Counted, Explained, Attempted
<1>0. TypeOK /\ MessageInv(n)
  BY DEF IInv
<1>1. ASSUME NEW m \in Message, Receive(m) PROVE MessageInv(n)'
  <2>1. until[m] <= DelayToWait(m) + Early(m)
    BY <1>0, ScheduleAssumption DEF DelayToWait, Less, Early, TypeOK
  <2> QED
    BY <1>0, <1>1, <2>1 DEF TypeOK, Receive, params, work, post, Early
<1>2. ASSUME NEW m \in Message, SaveParams(m) PROVE MessageInv(n)'
  BY <1>0, <1>2, ScheduleAssumption DEF TypeOK, SaveParams, work, post, Early
<1>3. ASSUME NEW m \in Message, ScheduleJob(m) PROVE MessageInv(n)'
  BY <1>0, <1>3 DEF TypeOK, ScheduleJob, params, post, Early
<1>4. ASSUME NEW m \in Message, Enqueue(m) PROVE MessageInv(n)'
  BY <1>0, <1>4, ScheduleAssumption DEF TypeOK, Enqueue, request, params, post, Early
<1>5. ASSUME NEW m \in Message, Fetch(m) \/ Refetch(m) \/ Complete(m) PROVE MessageInv(n)'
  BY <1>0, <1>5 DEF TypeOK, Fetch, Refetch, Complete, request, params, post, Early
<1>6. ASSUME NEW m \in Message, RecoverParams(m) PROVE MessageInv(n)'
  BY <1>0, <1>6, ScheduleAssumption DEF TypeOK, RecoverParams, Retry, request, params, post, Early
<1>7. ASSUME NEW m \in Message, PostMessage(m) PROVE MessageInv(n)'
  <2>1. CASE n # m
    BY <1>0, <1>7, <2>1 DEF TypeOK, PostMessage, request, params, post, Early
  <2>2. CASE n = m /\ ~ Readable(input[m])
    BY <1>0, <1>7, <2>2 DEF TypeOK, PostMessage, request, params, post, Early
  <2>3. CASE n = m /\ Readable(input[m])
    <3>1. PICK accepted \in BOOLEAN, answered \in BOOLEAN :
            /\ delivered' = [delivered EXCEPT ![m] = IF accepted THEN @ + 1 ELSE @]
            /\ gatewayError' = [gatewayError EXCEPT ![m] = @ \/ ~ (accepted /\ answered)]
      BY <1>7, <2>3, Zenon DEF PostMessage
    <3>2. accepted \/ gatewayError'[n]
      BY <1>0, <2>3, <3>1, Zenon DEF TypeOK
    <3>3. delivered'[n] = IF accepted THEN delivered[n] + 1 ELSE delivered[n]
      BY <1>0, <2>3, <3>1 DEF TypeOK
    <3> QED
      BY <1>0, <1>7, <2>3, <3>2, <3>3 DEF TypeOK, PostMessage, request, params, Early
  <2> QED
    BY <2>1, <2>2, <2>3
<1>8. ASSUME NEW m \in Message, ExpireParams(m) PROVE MessageInv(n)'
  BY <1>0, <1>8 DEF TypeOK, ExpireParams, request, work, post, Early
<1>9. ASSUME NEW down \in SUBSET Message, Crash(down) PROVE MessageInv(n)'
  BY <1>0, <1>9 DEF TypeOK, Crash, params, post, Running, Early
<1>10. ASSUME Tick PROVE MessageInv(n)'
  BY <1>0, <1>10, ScheduleAssumption DEF TypeOK, Tick, Less, request, post, Early
<1>11. ASSUME UNCHANGED vars PROVE MessageInv(n)'
  BY <1>0, <1>11 DEF TypeOK, vars, request, params, work, post, Early
<1> QED
  BY <1>1, <1>2, <1>3, <1>4, <1>5, <1>6, <1>7, <1>8, <1>9, <1>10, <1>11 DEF Next, Serve, Execute

(* The facts hold at the start, and so always.                             *)
THEOREM ScheduleInvariant == FairSpec => []IInv
<1>1. Init => IInv
  <2> SUFFICES ASSUME Init PROVE IInv
    OBVIOUS
  <2>1. input \in [Message -> ScheduleVollProcessModel]
    BY ScheduleAssumption DEF Init
  <2>2. TypeOK
    BY <2>1, ScheduleAssumption DEF Init, TypeOK, ScheduleVollProcessModel
  <2>3. ASSUME NEW m \in Message PROVE MessageInv(m)
    BY <2>3, ScheduleAssumption
    DEF Init, MessageInv, Unscheduled, OnTime, Durable, Counted, Explained, Attempted
  <2> QED
    BY <2>2, <2>3 DEF IInv
<1>2. IInv /\ [Next]_vars => IInv'
  BY TypeStep, MessageStep DEF IInv
<1> QED
  BY <1>1, <1>2, PTL DEF FairSpec

(* TypeOK is an invariant.                                                 *)
THEOREM ScheduleTypeCorrect == FairSpec => []TypeOK
<1>1. IInv => TypeOK
  BY DEF IInv
<1> QED
  BY <1>1, ScheduleInvariant, PTL

(* NeverEarly: no message is delivered before its time, whatever was       *)
(* retried meanwhile.                                                      *)
THEOREM DeliveryIsNeverEarly == FairSpec => []NeverEarly
<1>1. IInv => NeverEarly
  BY DEF IInv, MessageInv, OnTime, NeverEarly
<1> QED
  BY <1>1, ScheduleInvariant, PTL

(* OkMeansDurable: what was answered with 200 is in both collections.      *)
THEOREM OkIsDurable == FairSpec => []OkMeansDurable
<1>1. IInv => OkMeansDurable
  BY DEF IInv, MessageInv, Durable, OkMeansDurable
<1> QED
  BY <1>1, ScheduleInvariant, PTL

(* DuplicatedOnlyByCrash: gateway errors never duplicate a message.        *)
THEOREM DuplicateNeedsCrash == FairSpec => []DuplicatedOnlyByCrash
<1>1. IInv => DuplicatedOnlyByCrash
  <2> SUFFICES ASSUME IInv, NEW m \in Message PROVE delivered[m] <= 1 + crashes[m]
    BY DEF DuplicatedOnlyByCrash
  <2>1. delivered[m] \in Nat /\ crashes[m] \in Nat
    BY ScheduleAssumption DEF IInv, TypeOK
  <2>2. delivered[m] <= 1 + crashes[m] \/ delivered[m] <= crashes[m]
    BY DEF IInv, MessageInv, Counted
  <2> QED
    BY <2>1, <2>2
<1> QED
  BY <1>1, ScheduleInvariant, PTL

(* SilentLossExplained: only a failed post or an unreadable message is     *)
(* lost by a job that succeeds.                                            *)
THEOREM SilentLossNeedsCause == FairSpec => []SilentLossExplained
<1>1. IInv => SilentLossExplained
  BY DEF IInv, MessageInv, Explained, SilentLossExplained
<1> QED
  BY <1>1, ScheduleInvariant, PTL

(* GivenUpOnlyExpired: crashes and failing reads alone never make a job    *)
(* fail for good.                                                          *)
THEOREM GivingUpNeedsExpiration == FairSpec => []GivenUpOnlyExpired
<1>1. IInv => GivenUpOnlyExpired
  BY ScheduleAssumption DEF IInv, TypeOK, MessageInv, Attempted, GivenUpOnlyExpired
<1> QED
  BY <1>1, ScheduleInvariant, PTL

-----------------------------------------------------------------------------
(* An accepted message whose job is over, with no crash, no error of the   *)
(* gateway, readable contents and parameters that did not expire, was      *)
(* delivered once, and not before its time, although reads of its          *)
(* parameters failed on the way, if these are fewer than its attempts      *)
(* (MaxReadFaults < Attempts): with as many the job would be given up.     *)
DeliveredOnce ==
  \A m \in Message :
    /\ pc[m] = "ok" /\ job[m] \in Finished
    /\ crashes[m] = 0 /\ ~ gatewayError[m]
    /\ Readable(input[m])
    /\ stored[m] \/ ttl[m] > 0
    => job[m] = "succeeded" /\ delivered[m] = 1 /\ until[m] <= Early(m)

(* DeliveredOnce: what the invariants promise together.                    *)
THEOREM AcceptedIsDeliveredOnce == FairSpec => []DeliveredOnce
<1>1. IInv => DeliveredOnce
  <2> SUFFICES ASSUME IInv, NEW m \in Message, job[m] \in Finished,
                      crashes[m] = 0, ~ gatewayError[m], Readable(input[m]),
                      stored[m] \/ ttl[m] > 0
               PROVE  job[m] = "succeeded" /\ delivered[m] = 1 /\ until[m] <= Early(m)
    BY DEF DeliveredOnce
  <2>1. MessageInv(m) /\ delivered[m] \in Nat /\ ttl[m] \in Nat /\ failures[m] \in Nat
        /\ readFaults[m] \in Nat /\ readFaults[m] <= MaxReadFaults
    BY ScheduleAssumption DEF IInv, TypeOK
  <2>2. job[m] # "failed"
    BY <2>1, ScheduleAssumption DEF MessageInv, Attempted
  <2>3. job[m] = "succeeded"
    BY <2>2 DEF Finished
  <2>4. delivered[m] <= 1 /\ delivered[m] > 0
    BY <2>1, <2>3 DEF MessageInv, Counted, Explained
  <2>5. until[m] <= Early(m)
    BY <2>1, <2>4 DEF MessageInv, OnTime
  <2> QED
    BY <2>1, <2>3, <2>4, <2>5
<1> QED
  BY <1>1, ScheduleInvariant, PTL

=============================================================================
