--------------------------- MODULE ScheduledMessage ---------------------------
(***************************************************************************)
(* Projeto Schedule Message: POST api/v1/voll/schedule stores a message    *)
(* and schedules a Hangfire job; when the job is due a worker reads the    *)
(* message back and posts it to the gateway.  Every await is a step        *)
(* boundary.  The messages share nothing but the passing of time.          *)
(*                                                                         *)
(* Time is kept as countdowns: how long until the instant the request asks *)
(* for, until the job is due, until the stored parameters expire.          *)
(*                                                                         *)
(* Hangfire and MongoDB are modelled by what the program asks of them: a   *)
(* scheduled job is queued when due, a job that throws is scheduled again  *)
(* until its attempts are spent, a job whose worker died is fetched again  *)
(* after the invisibility timeout, and an expired document is deleted some *)
(* time after.                                                             *)
(***************************************************************************)
EXTENDS Naturals

CONSTANTS
  Message,
  Input,          \* the requests there may be
  Ttl,            \* TtlHangfireDocumentInDays
  West,           \* how far the machine's time zone lies west of UTC
  Attempts,       \* how often Hangfire runs a job that throws
  MaxReadFaults,  \* bound: failing reads of the parameters of a message
  MaxCrashes      \* bound: crashes of the process that handles a message

(* Key, Value and Headers are JSON elements: "json" is one whose ToString  *)
(* is JSON again (an object, an array, a number), "text" one for which it  *)
(* is not (a string loses its quotes), "absent" one the request leaves out *)
(* or sets to null.  The body stands for Value and Headers, the one of     *)
(* them that is least readable.  A complete request has a When, a JobName  *)
(* and a TopicName.                                                        *)
Part == {"json", "text", "absent"}

ScheduleVollProcessModel ==
  [complete: BOOLEAN, wait: Nat, form: {"utc", "offset"}, key: Part, body: Part]

ASSUME ScheduleAssumption ==
  /\ Input \subseteq ScheduleVollProcessModel
  /\ Ttl \in Nat
  /\ West \in Nat
  /\ Attempts \in Nat
  /\ MaxReadFaults \in Nat
  /\ MaxReadFaults < Attempts
  /\ MaxCrashes \in Nat

VARIABLES
  pc,            \* where the request is
  input,         \* what it asks for
  delay,         \* the delayToWait it computed
  until,         \* how long until the instant it asks for
  stored,        \* the parameters are in the collection
  ttl,           \* how long until they expire, or will
  job,           \* the state of the job
  due,           \* how long until a scheduled job is due
  failures,      \* how many of its runs threw
  readFaults,    \* how many of them because the database failed
  delivered,     \* how many posts of the message the gateway accepted
  gatewayError,  \* a post was refused, or its answer lost
  crashes        \* how many crashes caught the message's request or job

request == <<pc, input, delay>>
params == <<stored, ttl>>
work == <<job, due, failures, readFaults>>
post == <<delivered, gatewayError>>
vars == <<request, until, params, work, post, crashes>>

Replied == {"ok", "rejected", "error"}
Running == {"fetched", "recovered", "posted"}
Finished == {"succeeded", "failed"}

TypeOK ==
  /\ pc \in [Message -> {"idle", "saving", "scheduling", "dropped"} \cup Replied]
  /\ input \in [Message -> ScheduleVollProcessModel]
  /\ delay \in [Message -> Nat]
  /\ until \in [Message -> Nat]
  /\ stored \in [Message -> BOOLEAN]
  /\ ttl \in [Message -> Nat]
  /\ job \in [Message -> {"none", "scheduled", "enqueued", "abandoned"} \cup Running \cup Finished]
  /\ due \in [Message -> Nat]
  /\ failures \in [Message -> 0 .. Attempts]
  /\ readFaults \in [Message -> 0 .. MaxReadFaults]
  /\ delivered \in [Message -> Nat]
  /\ gatewayError \in [Message -> BOOLEAN]
  /\ crashes \in [Message -> 0 .. MaxCrashes]

Init ==
  /\ pc = [m \in Message |-> "idle"]
  /\ input \in [Message -> Input]
  /\ delay = [m \in Message |-> 0]
  /\ until = [m \in Message |-> input[m].wait]
  /\ stored = [m \in Message |-> FALSE]
  /\ ttl = [m \in Message |-> 0]
  /\ job = [m \in Message |-> "none"]
  /\ due = [m \in Message |-> 0]
  /\ failures = [m \in Message |-> 0]
  /\ readFaults = [m \in Message |-> 0]
  /\ delivered = [m \in Message |-> 0]
  /\ gatewayError = [m \in Message |-> FALSE]
  /\ crashes = [m \in Message |-> 0]

(* What is left of a span of time after some of it; never less than none.  *)
Less(span, t) == IF t < span THEN span - t ELSE 0

-----------------------------------------------------------------------------
(* What the conversions do to the message                                  *)

(* JsonElement.ToString, of a nullable element too: an absent one is the   *)
(* empty string, never null.                                               *)
Text(part) == IF part = "absent" THEN "" ELSE part

(* ConvertStringToJsonElement: only null is replaced by {}; the empty      *)
(* string and a bare text throw a JsonException.                           *)
Parses(text) == text = "json"

Readable(i) == Parses(Text(i.key)) /\ Parses(Text(i.body))

(* ScheduleVollProcessUseCaseInputValidator                                *)
Valid(i) == i.complete /\ Text(i.key) # ""

(* How much too early the request is understood to be: a When written with *)
(* an offset is read as local time, which the program then takes for UTC.  *)
Early(m) == IF input[m].form = "offset" THEN West ELSE 0

(* When - DateTime.UtcNow                                                  *)
DelayToWait(m) ==
  Less(until[m], Early(m))

-----------------------------------------------------------------------------
(* VollScheduleController.ScheduleAsync, under UseCaseManager: an          *)
(* exception of the use case becomes a reply of 500.                       *)

(* The delay and ExpireAt are computed before the save is awaited.         *)
Receive(m) ==
  /\ pc[m] = "idle"
  /\ IF Valid(input[m])
     THEN /\ pc' = [pc EXCEPT ![m] = "saving"]
          /\ delay' = [delay EXCEPT ![m] = DelayToWait(m)]
          /\ ttl' = [ttl EXCEPT ![m] = Ttl]
     ELSE /\ pc' = [pc EXCEPT ![m] = "rejected"]
          /\ UNCHANGED <<delay, ttl>>
  /\ UNCHANGED <<input, until, stored, work, post, crashes>>

(* SaveParamsAsync; when it throws, the document may be there all the same.*)
SaveParams(m) ==
  /\ pc[m] = "saving"
  /\ \/ /\ pc' = [pc EXCEPT ![m] = "scheduling"]
        /\ stored' = [stored EXCEPT ![m] = TRUE]
     \/ /\ pc' = [pc EXCEPT ![m] = "error"]
        /\ \E b \in BOOLEAN : stored' = [stored EXCEPT ![m] = b]
  /\ UNCHANGED <<input, delay, until, ttl, work, post, crashes>>

(* A mutant of ScheduleJob: the error of the job storage is swallowed.     *)
ScheduleUnchecked(m) ==
  /\ pc[m] = "scheduling"
  /\ pc' = [pc EXCEPT ![m] = "ok"]
  /\ \E created \in BOOLEAN :
       job' = [job EXCEPT ![m] = IF created THEN "scheduled" ELSE "none"]
  /\ due' = [due EXCEPT ![m] = delay[m]]
  /\ UNCHANGED <<input, delay, until, params, failures, readFaults, post, crashes>>

(* A mutant of ScheduleJob: the time spent on saving is taken off.         *)
ScheduleFromReceipt(m) ==
  /\ pc[m] = "scheduling"
  /\ pc' = [pc EXCEPT ![m] = "ok"]
  /\ job' = [job EXCEPT ![m] = "scheduled"]
  /\ due' = [due EXCEPT ![m] = Less(delay[m], 1)]
  /\ UNCHANGED <<input, delay, until, params, failures, readFaults, post, crashes>>

(* jobClient.Schedule, then Success; when it throws, the job may have been *)
(* created.                                                                *)
ScheduleJob(m) ==
  /\ pc[m] = "scheduling"
  /\ \/ /\ pc' = [pc EXCEPT ![m] = "ok"]
        /\ job' = [job EXCEPT ![m] = "scheduled"]
        /\ due' = [due EXCEPT ![m] = delay[m]]
     \/ /\ pc' = [pc EXCEPT ![m] = "error"]
        /\ \E created \in BOOLEAN :
             job' = [job EXCEPT ![m] = IF created THEN "scheduled" ELSE "none"]
        /\ due' = [due EXCEPT ![m] = delay[m]]
  /\ UNCHANGED <<input, delay, until, params, failures, readFaults, post, crashes>>

-----------------------------------------------------------------------------
(* The job: HangifireCallbackHandler.ExecuteAsync under Hangfire           *)

Enqueue(m) ==
  /\ job[m] = "scheduled"
  /\ due[m] = 0
  /\ job' = [job EXCEPT ![m] = "enqueued"]
  /\ UNCHANGED <<request, until, params, due, failures, readFaults, post, crashes>>

Fetch(m) ==
  /\ job[m] = "enqueued"
  /\ job' = [job EXCEPT ![m] = "fetched"]
  /\ UNCHANGED <<request, until, params, due, failures, readFaults, post, crashes>>

(* A mutant of Refetch: a job whose worker died is lost with it.           *)
NeverRefetched(m) ==
  /\ FALSE
  /\ UNCHANGED vars

(* The invisibility timeout of a job whose worker died passes.             *)
Refetch(m) ==
  /\ job[m] = "abandoned"
  /\ job' = [job EXCEPT ![m] = "enqueued"]
  /\ UNCHANGED <<request, until, params, due, failures, readFaults, post, crashes>>

(* A mutant of Retry: one attempt too many is counted.                     *)
RetryTooFew(m) ==
  /\ failures' = [failures EXCEPT ![m] = @ + 1]
  /\ job' = [job EXCEPT ![m] = IF failures[m] + 2 < Attempts THEN "scheduled" ELSE "failed"]
  /\ due' = [due EXCEPT ![m] = 1]

(* A mutant of Retry: the attempts are not limited.                        *)
RetryForEver(m) ==
  /\ failures' = [failures EXCEPT ![m] = @ + 1]
  /\ job' = [job EXCEPT ![m] = "scheduled"]
  /\ due' = [due EXCEPT ![m] = 1]

(* The job threw: it is scheduled again, or fails for good.                *)
Retry(m) ==
  /\ failures' = [failures EXCEPT ![m] = @ + 1]
  /\ job' = [job EXCEPT ![m] = IF failures[m] + 1 < Attempts THEN "scheduled" ELSE "failed"]
  /\ due' = [due EXCEPT ![m] = 1]

(* A mutant of RecoverParams: missing parameters count as nothing to do.   *)
RecoverNothing(m) ==
  /\ job[m] = "fetched"
  /\ job' = [job EXCEPT ![m] = IF stored[m] THEN "recovered" ELSE "succeeded"]
  /\ UNCHANGED <<request, until, params, due, failures, readFaults, post, crashes>>

(* RecoveryParamsAsync: missing parameters are null, and null.Input throws;*)
(* the read itself may throw too.                                          *)
RecoverParams(m) ==
  /\ job[m] = "fetched"
  /\ \/ /\ stored[m]
        /\ job' = [job EXCEPT ![m] = "recovered"]
        /\ UNCHANGED <<due, failures, readFaults>>
     \/ /\ ~ stored[m]
        /\ Retry(m)
        /\ UNCHANGED readFaults
     \/ /\ readFaults[m] < MaxReadFaults
        /\ readFaults' = [readFaults EXCEPT ![m] = @ + 1]
        /\ Retry(m)
  /\ UNCHANGED <<request, until, params, post, crashes>>

(* A mutant of PostMessage: a gateway error is rethrown, and Hangfire runs *)
(* the job again.                                                          *)
PostRethrows(m) ==
  /\ job[m] = "recovered"
  /\ \/ /\ Readable(input[m])
        /\ \E accepted, answered \in BOOLEAN :
             /\ delivered' = [delivered EXCEPT ![m] = IF accepted THEN @ + 1 ELSE @]
             /\ IF accepted /\ answered
                THEN /\ job' = [job EXCEPT ![m] = "posted"]
                     /\ UNCHANGED <<due, failures, gatewayError>>
                ELSE /\ Retry(m)
                     /\ gatewayError' = [gatewayError EXCEPT ![m] = TRUE]
     \/ /\ ~ Readable(input[m])
        /\ job' = [job EXCEPT ![m] = "posted"]
        /\ UNCHANGED <<due, failures, post>>
  /\ UNCHANGED <<request, until, params, readFaults, crashes>>

(* ProcessTriggeredVollScheduleHandler.ExecuteAsync: the stored message is *)
(* valid, so the use case posts it to the gateway.  UseCaseManager hands   *)
(* any exception, of the conversion or of the post, to a presenter that    *)
(* does nothing with it, so the job goes on as after a success.            *)
PostMessage(m) ==
  /\ job[m] = "recovered"
  /\ job' = [job EXCEPT ![m] = "posted"]
  /\ \/ /\ Readable(input[m])
        /\ \E accepted, answered \in BOOLEAN :
             /\ delivered' = [delivered EXCEPT ![m] = IF accepted THEN @ + 1 ELSE @]
             /\ gatewayError' = [gatewayError EXCEPT ![m] = @ \/ ~ (accepted /\ answered)]
     \/ /\ ~ Readable(input[m])
        /\ UNCHANGED post
  /\ UNCHANGED <<request, until, params, due, failures, readFaults, crashes>>

Complete(m) ==
  /\ job[m] = "posted"
  /\ job' = [job EXCEPT ![m] = "succeeded"]
  /\ UNCHANGED <<request, until, params, due, failures, readFaults, post, crashes>>

-----------------------------------------------------------------------------
(* The environment                                                         *)

(* The TTL index: expired parameters are deleted, sooner or later.         *)
ExpireParams(m) ==
  /\ stored[m]
  /\ ttl[m] = 0
  /\ stored' = [stored EXCEPT ![m] = FALSE]
  /\ UNCHANGED <<request, until, ttl, work, post, crashes>>

InFlight(m) == pc[m] \in {"saving", "scheduling"} \/ job[m] \in Running

(* A process dies, with the requests and the jobs it was running: down.    *)
Crash(down) ==
  /\ down # {}
  /\ \A m \in down : InFlight(m) /\ crashes[m] < MaxCrashes
  /\ crashes' = [m \in Message |-> crashes[m] + (IF m \in down THEN 1 ELSE 0)]
  /\ pc' = [m \in Message |-> IF m \in down /\ pc[m] \in {"saving", "scheduling"}
                               THEN "dropped" ELSE pc[m]]
  /\ job' = [m \in Message |-> IF m \in down /\ job[m] \in Running
                                THEN "abandoned" ELSE job[m]]
  /\ UNCHANGED <<input, delay, until, params, due, failures, readFaults, post>>

Tick ==
  /\ until' = [m \in Message |-> Less(until[m], 1)]
  /\ ttl' = [m \in Message |-> Less(ttl[m], 1)]
  /\ due' = [m \in Message |-> Less(due[m], 1)]
  /\ UNCHANGED <<request, stored, job, failures, readFaults, post, crashes>>

Serve(m) == Receive(m) \/ SaveParams(m) \/ ScheduleJob(m)
Execute(m) == Enqueue(m) \/ Fetch(m) \/ Refetch(m) \/ RecoverParams(m) \/ PostMessage(m) \/ Complete(m)

Next ==
  \/ \E m \in Message : Serve(m) \/ Execute(m) \/ ExpireParams(m)
  \/ \E down \in SUBSET Message : Crash(down)
  \/ Tick

(* Time passes, and Hangfire's poller and workers run the jobs.            *)
Fairness ==
  /\ WF_vars(Tick)
  /\ \A m \in Message : WF_vars(Execute(m))

FairSpec == Init /\ [][Next]_vars /\ Fairness

-----------------------------------------------------------------------------
(* A message is never delivered before the instant its request asks for,   *)
(* however long the request took and however often the job ran; an instant *)
(* written with an offset is missed by the machine's own, no more.         *)
NeverEarly == \A m \in Message : delivered[m] > 0 => until[m] <= Early(m)

(* A reply of 200 means that the job exists, and that its parameters are   *)
(* stored until they expire, whatever crashed meanwhile.                   *)
OkMeansDurable ==
  \A m \in Message : pc[m] = "ok" => job[m] # "none" /\ (stored[m] \/ ttl[m] = 0)

(* A message is delivered again only when a worker died on it: an error of *)
(* the gateway, which may have accepted the post, is never followed by     *)
(* another attempt.                                                        *)
DuplicatedOnlyByCrash == \A m \in Message : delivered[m] <= 1 + crashes[m]

(* A job that succeeds without having delivered its message is one whose   *)
(* post failed or whose message could not be converted: nothing else loses *)
(* a message silently, the expiration of its parameters in particular.     *)
SilentLossExplained ==
  \A m \in Message : job[m] = "succeeded" =>
    delivered[m] > 0 \/ gatewayError[m] \/ ~ Readable(input[m])

(* A job is given up only because its parameters expired: not because of   *)
(* the crashes and the failing reads it is retried for.                    *)
GivenUpOnlyExpired ==
  \A m \in Message : job[m] = "failed" => ~ stored[m] /\ ttl[m] = 0

(* An accepted message is settled in the end: its job succeeds, or is      *)
(* given up.                                                               *)
AcceptedIsSettled == \A m \in Message : pc[m] = "ok" ~> job[m] \in Finished

(* What a test of the gateway says: a message with only its required       *)
(* values is sent, without a body.                                         *)
RequiredValuesAreSent ==
  \A m \in Message :
    input[m].key = "json" /\ input[m].body = "absent" /\ job[m] = "succeeded" =>
      delivered[m] > 0 \/ gatewayError[m]

=============================================================================
