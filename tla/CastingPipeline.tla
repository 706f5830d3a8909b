---------------------------- MODULE CastingPipeline ----------------------------
(***************************************************************************)
(* The pipelines over BlockingCollection of Estudos-PipelinePattern.  A    *)
(* buffer stands before every step; the workers of a step take from its    *)
(* buffer, invoke its function and add what it returns to the next buffer. *)
(* Three classes differ in what an exception does, in the number of        *)
(* workers and in the capacity of the buffers:                             *)
(*                                                                         *)
(*   "await"        CastingPipelineWithAwait: unbounded buffers (it ignores*)
(*                  MaxCapacity), an exception goes to the caller's task   *)
(*   "parallelism"  CastingPipelineWithParallelism: bounded buffers, an    *)
(*                  exception ends the worker                              *)
(*   "builder"      CastingPipelineBuilder: unbounded, one worker a step,  *)
(*                  an exception ends it (GenericBCPipeline does the same) *)
(*                                                                         *)
(* The workers of a step are alike, so they are counted and what one has in*)
(* hand is told by the item.                                               *)
(***************************************************************************)
EXTENDS Naturals, Sequences, FiniteSets

CONSTANTS
  Item,         \* the inputs of the calls of Execute
  Steps,        \* the number of steps
  Degree,       \* DegreeOfParallelism of each step
  MaxCapacity   \* MaxCapacity of each step

Step == 1 .. Steps

ASSUME PipelineAssumption ==
  /\ IsFiniteSet(Item)
  /\ Steps \in Nat \ {0}
  /\ Degree \in [Step -> Nat]
  /\ MaxCapacity \in [Step -> Nat \ {0}]

VARIABLES
  class,     \* the class of the pipeline
  buffers,   \* _buffers, by step
  alive,     \* how many of a step's workers have not died
  at,        \* what happens to an item
  step,      \* the step it is being added to, waits for or is worked on by
  outcome,   \* the caller's task, or the Finished event
  ticket,    \* history: the order in which the items entered, 0 is outside
  tickets    \* history: how many have entered

vars == <<class, buffers, alive, at, step, outcome, ticket, tickets>>

TypeOK ==
  /\ class \in {"await", "parallelism", "builder"}
  /\ buffers \in [Step -> Seq(Item)]
  /\ alive \in [Step -> Nat]
  /\ at \in [Item -> {"idle", "putting", "queued", "working", "out", "lost"}]
  /\ step \in [Item -> Step]
  /\ outcome \in [Item -> {"none", "result", "exception"}]
  /\ ticket \in [Item -> Nat]
  /\ tickets \in Nat

(* How many workers GetPipeline starts for a step                          *)
Workers(k) == IF class = "builder" THEN 1 ELSE Degree[k]

Init ==
  /\ class \in {"await", "parallelism", "builder"}
  /\ buffers = [k \in Step |-> <<>>]
  /\ alive = [k \in Step |-> Workers(k)]
  /\ at = [x \in Item |-> "idle"]
  /\ step = [x \in Item |-> 1]
  /\ outcome = [x \in Item |-> "none"]
  /\ ticket = [x \in Item |-> 0]
  /\ tickets = 0

(* A worker holds an item until it has added it to the next buffer.        *)
Held(x, k) ==
  \/ at[x] = "working" /\ step[x] = k
  \/ at[x] = "putting" /\ step[x] = k + 1

InHand(k) == {x \in Item : Held(x, k)}

(* Mutants: every buffer is built without its capacity, and the comparison *)
(* with it off by one.                                                     *)
AlwaysRoom(k) == TRUE
RoomForTwo(k) == class = "parallelism" => Len(buffers[k]) + 1 < MaxCapacity[k]

HasRoom(k) == class = "parallelism" => Len(buffers[k]) < MaxCapacity[k]

-----------------------------------------------------------------------------
(* A caller calls Execute, and is in it until the first buffer has room.   *)
Execute(x) ==
  /\ at[x] = "idle"
  /\ at' = [at EXCEPT ![x] = "putting"]
  /\ UNCHANGED <<class, buffers, alive, step, outcome, ticket, tickets>>

(* BlockingCollection.Add, by the caller or by a worker                    *)
UnboundedPut(x) ==
  /\ at[x] = "putting"
  /\ buffers' = [buffers EXCEPT ![step[x]] = Append(@, x)]
  /\ at' = [at EXCEPT ![x] = "queued"]
  /\ IF step[x] = 1
     THEN /\ tickets' = tickets + 1
          /\ ticket' = [ticket EXCEPT ![x] = tickets + 1]
     ELSE UNCHANGED <<ticket, tickets>>
  /\ UNCHANGED <<class, alive, step, outcome>>

Put(x) == HasRoom(step[x]) /\ UnboundedPut(x)

(* Mutant: the collection is over a stack, so the newest item comes first. *)
TakeNewest(k) ==
  /\ Cardinality(InHand(k)) < alive[k]
  /\ buffers[k] # <<>>
  /\ at' = [at EXCEPT ![buffers[k][Len(buffers[k])]] = "working"]
  /\ buffers' = [buffers EXCEPT ![k] = SubSeq(@, 1, Len(@) - 1)]
  /\ UNCHANGED <<class, alive, step, outcome, ticket, tickets>>

(* GetConsumingEnumerable gives an idle worker the oldest item.            *)
Take(k) ==
  /\ Cardinality(InHand(k)) < alive[k]
  /\ buffers[k] # <<>>
  /\ at' = [at EXCEPT ![Head(buffers[k])] = "working"]
  /\ buffers' = [buffers EXCEPT ![k] = Tail(@)]
  /\ UNCHANGED <<class, alive, step, outcome, ticket, tickets>>

-----------------------------------------------------------------------------
(* StartStep, once the function has returned or thrown                     *)

(* Mutant: isLastStep is off by one.                                       *)
HandOnAlways(x) ==
  /\ at[x] = "working"
  /\ at' = [at EXCEPT ![x] = "putting"]
  /\ step' = [step EXCEPT ![x] = @ + 1]
  /\ UNCHANGED <<class, buffers, alive, outcome, ticket, tickets>>

HandOn(x) ==
  /\ at[x] = "working"
  /\ step[x] < Steps
  /\ at' = [at EXCEPT ![x] = "putting"]
  /\ step' = [step EXCEPT ![x] = @ + 1]
  /\ UNCHANGED <<class, buffers, alive, outcome, ticket, tickets>>

Settle(x, o) ==
  /\ at' = [at EXCEPT ![x] = "out"]
  /\ outcome' = [outcome EXCEPT ![x] = o]

Dies(k) == alive' = [alive EXCEPT ![k] = @ - 1]

(* SetResult, or the Finished event; a handler of the event may throw, but *)
(* the result is out.                                                      *)
Finish(x) ==
  /\ at[x] = "working"
  /\ step[x] = Steps
  /\ Settle(x, "result")
  /\ \/ UNCHANGED alive
     \/ class # "await" /\ Dies(Steps)
  /\ UNCHANGED <<class, buffers, step, ticket, tickets>>

(* An exception nobody catches: the worker's task ends, and the item is in *)
(* nobody's hands any more.                                                *)
Lose(x) ==
  /\ at' = [at EXCEPT ![x] = "lost"]
  /\ Dies(step[x])
  /\ UNCHANGED outcome

(* Mutants: no catch block, one that does not set the exception, and one   *)
(* that falls through to the next buffer.                                  *)
ThrowUncaught(x) ==
  /\ at[x] = "working"
  /\ Lose(x)
  /\ UNCHANGED <<class, buffers, step, ticket, tickets>>

ThrowSwallowed(x) ==
  /\ at[x] = "working"
  /\ at' = [at EXCEPT ![x] = "out"]
  /\ UNCHANGED <<class, buffers, alive, step, outcome, ticket, tickets>>

ThrowFallsThrough(x) ==
  /\ at[x] = "working"
  /\ step[x] < Steps
  /\ outcome' = [outcome EXCEPT ![x] = "exception"]
  /\ at' = [at EXCEPT ![x] = "putting"]
  /\ step' = [step EXCEPT ![x] = @ + 1]
  /\ UNCHANGED <<class, buffers, alive, ticket, tickets>>

Throw(x) ==
  /\ at[x] = "working"
  /\ IF class = "await" THEN Settle(x, "exception") /\ UNCHANGED alive ELSE Lose(x)
  /\ UNCHANGED <<class, buffers, step, ticket, tickets>>

(* The cast to TOutput stands after the try block.                         *)
CastFails(x) ==
  /\ class = "await"
  /\ at[x] = "working"
  /\ step[x] = Steps
  /\ Lose(x)
  /\ UNCHANGED <<class, buffers, step, ticket, tickets>>

Work(x) == HandOn(x) \/ Finish(x) \/ Throw(x) \/ CastFails(x)

Next ==
  \/ \E x \in Item : Execute(x) \/ Put(x) \/ Work(x)
  \/ \E k \in Step : Take(k)

Spec == Init /\ [][Next]_vars

(* Threads run, and the functions of the steps end.                        *)
Fairness ==
  /\ \A x \in Item : WF_vars(Put(x)) /\ WF_vars(Work(x))
  /\ \A k \in Step : WF_vars(Take(k))

FairSpec == Spec /\ Fairness

-----------------------------------------------------------------------------
(* An item that has its outcome has left the pipeline, and until then it is*)
(* in one place: a buffer holds each item that waits for its step once, and*)
(* no other (StartStep, with its continue).                                *)
InOnePlace ==
  /\ \A x \in Item : outcome[x] # "none" => at[x] = "out"
  /\ \A x \in Item : at[x] = "queued" =>
       \E i \in 1 .. Len(buffers[step[x]]) : buffers[step[x]][i] = x
  /\ \A k \in Step : \A i \in 1 .. Len(buffers[k]) :
       /\ at[buffers[k][i]] = "queued"
       /\ step[buffers[k][i]] = k
       /\ \A j \in 1 .. Len(buffers[k]) : buffers[k][i] = buffers[k][j] => i = j

(* However many callers there are and however slow or dead the workers of  *)
(* later steps, a step of the pipeline with parallelism never holds more   *)
(* than its buffer and its workers can (GetPipeline, the bounded Add).     *)
StepIsBounded ==
  class = "parallelism" =>
    \A k \in Step : Len(buffers[k]) + Cardinality(InHand(k)) <= MaxCapacity[k] + Degree[k]

(* An item is in the hands of a thread that need not wait, or a worker is  *)
(* free to take it or one before it.                                       *)
Movable(x) ==
  \/ at[x] = "working"
  \/ at[x] = "putting" /\ HasRoom(step[x])
  \/ at[x] = "queued" /\ Cardinality(InHand(step[x])) < alive[step[x]]

(* Callers and workers never all wait for each other: however full the     *)
(* buffers are, if no step from an item's on has lost its last worker, some*)
(* item there can move (the blocking Add and GetConsumingEnumerable).      *)
NeverStuck ==
  \A x \in Item :
    at[x] \in {"putting", "queued", "working"} /\ (\A k \in step[x] .. Steps : alive[k] > 0)
      => \E y \in Item : step[y] >= step[x] /\ Movable(y)

(* Where an item is on its way: even numbers are buffers, odd ones hands.  *)
Place(x) ==
  IF at[x] = "out" THEN 2 * Steps + 2
  ELSE IF at[x] = "putting" THEN 2 * step[x] - 1
  ELSE IF at[x] = "working" THEN 2 * step[x] + 1
  ELSE 2 * step[x]

(* It entered, and was neither lost nor answered with an exception.        *)
OnItsWay(x) ==
  ticket[x] > 0 /\ at[x] # "lost" /\ (at[x] = "out" => outcome[x] = "result")

(* Some worker of a step that an item in this place has left was not alone.*)
Parallel(place) == \E k \in Step : 2 * k + 1 < place /\ Workers(k) > 1

(* An item overtakes one that entered before it only where a step it has   *)
(* left has several workers: with one worker a step, results come out in   *)
(* the order of the inputs (one worker adds to the next buffer before it   *)
(* takes again).                                                           *)
OvertakenOnlyInParallel ==
  \A x, y \in Item :
    (OnItsWay(x) /\ OnItsWay(y) /\ ticket[x] < ticket[y] /\ Place(x) < Place(y))
      => Parallel(Place(y))

(* In the awaitable pipeline an exception of a function costs no worker,   *)
(* at whatever step; only a failing cast of the last step's output does,   *)
(* and it takes one item with it (the try block of StartStep).             *)
ExceptionsSpareWorkers ==
  class = "await" =>
    /\ \A k \in Step \ {Steps} : alive[k] = Degree[k]
    /\ alive[Steps] + Cardinality({x \in Item : at[x] = "lost"}) = Degree[Steps]

(* A call of Execute returns, and its item gets a result or an exception,  *)
(* unless a worker died with it or a step that is still ahead of it has no *)
(* live worker left: what is past the dead step is settled all the same.   *)
EveryItemIsSettled ==
  \A x \in Item, k \in Step :
    (at[x] # "idle" /\ step[x] = k)
      ~> (outcome[x] # "none" \/ at[x] = "lost" \/ \E j \in k .. Steps : alive[j] = 0)

=============================================================================
