------------------------ MODULE CastingPipelineProofs ------------------------
(***************************************************************************)
(* What holds of CastingPipeline for every finite set of items, every      *)
(* number of steps, degrees of parallelism and capacities.                 *)
(***************************************************************************)
EXTENDS CastingPipeline, FiniteSetTheorems, TLAPS

(* Who has a ticket, and that tickets are handed out in order              *)
Ticketed ==
  /\ \A x \in Item : ticket[x] <= tickets
  /\ \A x \in Item : at[x] = "idle" => step[x] = 1
  /\ \A x \in Item : (at[x] = "idle" \/ (at[x] = "putting" /\ step[x] = 1)) <=> ticket[x] = 0

(* No worker holds two items, and no buffer exceeds its capacity.          *)
Counted ==
  /\ \A k \in Step : Cardinality(InHand(k)) <= alive[k] /\ alive[k] <= Workers(k)
  /\ class = "parallelism" => \A k \in Step : Len(buffers[k]) <= MaxCapacity[k]

(* A buffer whose items passed steps of one worker only is sorted.         *)
Sorted ==
  \A k \in Step : \A i, j \in 1 .. Len(buffers[k]) :
    i < j => ticket[buffers[k][i]] <= ticket[buffers[k][j]] \/ Parallel(2 * k)

IInv ==
  /\ TypeOK
  /\ InOnePlace
  /\ Ticketed
  /\ Counted
  /\ Sorted
  /\ OvertakenOnlyInParallel
  /\ ExceptionsSpareWorkers

(* What the ends of an item have in common: Finish, Throw and CastFails.   *)
Ends(x, a, o) ==
  /\ at[x] = "working"
  /\ at' = [at EXCEPT ![x] = a]
  /\ \/ a = "lost" /\ o = outcome[x]
     \/ a = "out" /\ o = "result" /\ step[x] = Steps
     \/ a = "out" /\ o = "exception"
  /\ outcome' = [outcome EXCEPT ![x] = o]
  /\ \/ a = "out" /\ alive' = alive
     \/ alive' = [alive EXCEPT ![step[x]] = alive[step[x]] - 1]
  /\ class = "await" =>
       \/ a = "out" /\ alive' = alive
       \/ a = "lost" /\ step[x] = Steps /\ alive' = [alive EXCEPT ![Steps] = alive[Steps] - 1]
  /\ UNCHANGED <<class, buffers, step, ticket, tickets>>

Leave(x) == Finish(x) \/ Throw(x) \/ CastFails(x)

(* There is a first and a last step.                                       *)
LEMMA StepsFact == Steps \in Nat /\ Steps >= 1 /\ Steps \in Step /\ 1 \in Step
  BY PipelineAssumption DEF Step

(* Every way to leave the pipeline is such an end.                         *)
LEMMA LeaveEnds ==
  ASSUME IInv, NEW x \in Item, Leave(x)
  PROVE  \E a \in {"out", "lost"}, o \in {"none", "result", "exception"} : Ends(x, a, o)
<1> USE StepsFact
<1>0. outcome = [outcome EXCEPT ![x] = outcome[x]] /\ outcome[x] \in {"none", "result", "exception"}
  BY DEF IInv, TypeOK
<1>1. CASE Finish(x)
  BY <1>1 DEF Finish, Settle, Dies, Ends
<1>2. CASE Throw(x) /\ class = "await"
  BY <1>2 DEF Throw, Settle, Ends
<1>3. CASE Throw(x) /\ class # "await"
  <2>1. Ends(x, "lost", outcome[x])
    BY <1>3, <1>0 DEF Throw, Lose, Dies, Ends
  <2> QED
    BY <2>1, <1>0
<1>4. CASE CastFails(x)
  <2>1. Ends(x, "lost", outcome[x])
    BY <1>4, <1>0 DEF CastFails, Lose, Dies, Ends
  <2> QED
    BY <2>1, <1>0
<1> QED
  BY <1>1, <1>2, <1>3, <1>4 DEF Leave

-----------------------------------------------------------------------------
(* The hands of the workers                                                *)

(* The items a step works on are finitely many: they can be counted.       *)
LEMMA HandsAreFinite ==
  ASSUME NEW k
  PROVE  IsFiniteSet(InHand(k)) /\ Cardinality(InHand(k)) \in Nat
<1>1. InHand(k) \subseteq Item
  BY DEF InHand
<1> QED
  BY <1>1, PipelineAssumption, FS_Subset, FS_CardinalityType

(* Two items in the hands of the workers of a step: it has two workers.    *)
LEMMA TwoHands ==
  ASSUME TypeOK, Counted, NEW k \in Step, NEW x \in InHand(k), NEW y \in InHand(k), x # y
  PROVE  Workers(k) > 1
<1>1. Cardinality({x, y}) = 2 /\ IsFiniteSet({x, y})
  <2>1. IsFiniteSet({x}) /\ Cardinality({x}) = 1
    BY FS_Singleton
  <2>2. {x, y} = {x} \cup {y}
    OBVIOUS
  <2> QED
    BY <2>1, <2>2, FS_AddElement
<1>2. Cardinality({x, y}) <= Cardinality(InHand(k))
  BY HandsAreFinite, FS_Subset
<1>3. Cardinality(InHand(k)) <= Workers(k) /\ Workers(k) \in Nat
  BY HandsAreFinite, PipelineAssumption DEF Counted, TypeOK, Workers
<1> QED
  BY <1>1, <1>2, <1>3, HandsAreFinite

(* Take puts one more item into the hands of its step.                     *)
LEMMA TakeHands ==
  ASSUME IInv, NEW k \in Step, Take(k), NEW j \in Step
  PROVE  InHand(j)' = IF j = k THEN InHand(k) \cup {Head(buffers[k])} ELSE InHand(j)
<1> DEFINE h == Head(buffers[k])
<1>1. h \in Item /\ at[h] = "queued" /\ step[h] = k
  BY DEF IInv, TypeOK, InOnePlace, Take
<1>2. at' = [at EXCEPT ![h] = "working"] /\ step' = step
  BY DEF Take
<1>3. at \in [Item -> {"idle", "putting", "queued", "working", "out", "lost"}]
  BY DEF IInv, TypeOK
<1>4. ASSUME NEW x \in Item PROVE Held(x, j)' <=> (Held(x, j) \/ (x = h /\ j = k))
  BY <1>1, <1>2, <1>3 DEF Held
<1> QED
  BY <1>1, <1>4 DEF InHand

(* Put takes one out of them.                                              *)
LEMMA PutHands ==
  ASSUME IInv, NEW x \in Item, Put(x), NEW j \in Step
  PROVE  InHand(j)' = InHand(j) \ {x}
<1>2. at' = [at EXCEPT ![x] = "queued"] /\ step' = step
  BY DEF Put, UnboundedPut
<1>3. at \in [Item -> {"idle", "putting", "queued", "working", "out", "lost"}]
  BY DEF IInv, TypeOK
<1>4. ASSUME NEW y \in Item PROVE Held(y, j)' <=> (Held(y, j) /\ y # x)
  BY <1>2, <1>3 DEF Held
<1> QED
  BY <1>4 DEF InHand

(* So does the end of an item.                                             *)
LEMMA EndHands ==
  ASSUME IInv, NEW x \in Item, NEW a \in {"out", "lost"}, NEW o, Ends(x, a, o), NEW j \in Step
  PROVE  InHand(j)' = InHand(j) \ {x}
<1>2. at' = [at EXCEPT ![x] = a] /\ step' = step
  BY DEF Ends
<1>3. at \in [Item -> {"idle", "putting", "queued", "working", "out", "lost"}]
  BY DEF IInv, TypeOK
<1>4. ASSUME NEW y \in Item PROVE Held(y, j)' <=> (Held(y, j) /\ y # x)
  BY <1>2, <1>3 DEF Held
<1> QED
  BY <1>4 DEF InHand

(* Execute and HandOn change nobody's hands: the caller is no worker, and  *)
(* the worker that hands on still holds the item.                          *)
LEMMA SameHands ==
  ASSUME IInv, NEW x \in Item, Execute(x) \/ HandOn(x), NEW j \in Step
  PROVE  InHand(j)' = InHand(j)
<1>1. /\ at \in [Item -> {"idle", "putting", "queued", "working", "out", "lost"}]
      /\ step \in [Item -> Step]
      /\ j \in Nat /\ j >= 1 /\ Step \subseteq Nat
  BY StepsFact DEF IInv, TypeOK, Step
<1>2. CASE Execute(x)
  <2>1. at[x] = "idle" /\ step[x] = 1 /\ at' = [at EXCEPT ![x] = "putting"] /\ step' = step
    BY <1>2 DEF Execute, IInv, Ticketed
  <2>2. ASSUME NEW y \in Item PROVE Held(y, j)' <=> Held(y, j)
    BY <2>1, <1>1 DEF Held
  <2> QED
    BY <2>2 DEF InHand
<1>3. CASE HandOn(x)
  <2>1. /\ at[x] = "working"
        /\ at' = [at EXCEPT ![x] = "putting"]
        /\ step' = [step EXCEPT ![x] = step[x] + 1]
    BY <1>3 DEF HandOn
  <2>2. ASSUME NEW y \in Item PROVE Held(y, j)' <=> Held(y, j)
    <3>1. CASE y = x
      <4>1. at'[x] = "putting" /\ step'[x] = step[x] + 1 /\ step[x] \in Nat
        BY <2>1, <1>1
      <4> QED
        BY <3>1, <4>1, <2>1, <1>1 DEF Held
    <3>2. CASE y # x
      BY <3>2, <2>1, <1>1 DEF Held
    <3> QED
      BY <3>1, <3>2
  <2> QED
    BY <2>2 DEF InHand
<1> QED
  BY <1>2, <1>3

(* A step of the pipeline, by what it does.                                *)
LEMMA NextCases ==
  ASSUME IInv, Next
  PROVE  \/ \E x \in Item : Execute(x)
         \/ \E x \in Item : Put(x)
         \/ \E x \in Item : HandOn(x)
         \/ \E k \in Step : Take(k)
         \/ \E x \in Item, a \in {"out", "lost"}, o \in {"none", "result", "exception"} : Ends(x, a, o)
<1>1. ASSUME NEW x \in Item, Leave(x)
      PROVE  \E a \in {"out", "lost"}, o \in {"none", "result", "exception"} : Ends(x, a, o)
  BY <1>1, LeaveEnds
<1> QED
  BY <1>1 DEF Next, Work, Leave

-----------------------------------------------------------------------------
(* Types, tickets and places                                               *)

(* Every step keeps the types.                                             *)
LEMMA TypeStep == IInv /\ [Next]_vars => TypeOK'
<1> SUFFICES ASSUME IInv, [Next]_vars PROVE TypeOK'
  OBVIOUS
<1>0. TypeOK /\ Step \subseteq Nat
  BY DEF IInv, Step
<1>1. CASE UNCHANGED vars
  BY <1>0, <1>1 DEF TypeOK, vars
<1>2. ASSUME NEW x \in Item, Execute(x) PROVE TypeOK'
  BY <1>0, <1>2 DEF TypeOK, Execute
<1>3. ASSUME NEW x \in Item, Put(x) PROVE TypeOK'
  <2>1. buffers' = [buffers EXCEPT ![step[x]] = Append(buffers[step[x]], x)]
    BY <1>3 DEF Put, UnboundedPut
  <2>2. Append(buffers[step[x]], x) \in Seq(Item)
    <3>1. step[x] \in Step /\ buffers[step[x]] \in Seq(Item)
      BY <1>0 DEF TypeOK
    <3> QED
      BY <3>1
  <2>3. buffers' \in [Step -> Seq(Item)]
    BY <1>0, <2>1, <2>2 DEF TypeOK
  <2>4. ticket' \in [Item -> Nat] /\ tickets' \in Nat
    <3>1. ticket \in [Item -> Nat] /\ tickets \in Nat /\ tickets + 1 \in Nat
      BY <1>0 DEF TypeOK
    <3>2. \/ ticket' = ticket /\ tickets' = tickets
          \/ ticket' = [ticket EXCEPT ![x] = tickets + 1] /\ tickets' = tickets + 1
      BY <1>3 DEF Put, UnboundedPut
    <3> QED
      BY <3>1, <3>2
  <2>5. at' \in [Item -> {"idle", "putting", "queued", "working", "out", "lost"}]
    BY <1>0, <1>3 DEF TypeOK, Put, UnboundedPut
  <2> QED
    BY <1>0, <1>3, <2>3, <2>4, <2>5 DEF TypeOK, Put, UnboundedPut
<1>4. ASSUME NEW x \in Item, HandOn(x) PROVE TypeOK'
  <2>1. step[x] + 1 \in Step
    BY <1>0, <1>4, StepsFact DEF TypeOK, HandOn, Step
  <2> QED
    BY <1>0, <1>4, <2>1 DEF TypeOK, HandOn
<1>5. ASSUME NEW k \in Step, Take(k) PROVE TypeOK'
  <2>1. buffers' = [buffers EXCEPT ![k] = Tail(buffers[k])]
    BY <1>5 DEF Take
  <2>2. Tail(buffers[k]) \in Seq(Item) /\ Head(buffers[k]) \in Item
    BY <1>0, <1>5 DEF TypeOK, Take
  <2> QED
    BY <1>0, <1>5, <2>1, <2>2 DEF TypeOK, Take
<1>6. ASSUME NEW x \in Item, NEW a \in {"out", "lost"}, NEW o \in {"none", "result", "exception"},
             Ends(x, a, o)
      PROVE  TypeOK'
  <2>1. x \in InHand(step[x]) /\ step[x] \in Step
    BY <1>0, <1>6 DEF TypeOK, InHand, Held, Ends
  <2>2. alive[step[x]] - 1 \in Nat
    <3>1. Cardinality(InHand(step[x])) # 0
      BY <2>1, HandsAreFinite, FS_EmptySet
    <3>2. Cardinality(InHand(step[x])) <= alive[step[x]]
      BY <2>1 DEF IInv, Counted
    <3>3. alive[step[x]] \in Nat
      BY <2>1, <1>0 DEF TypeOK
    <3> QED
      BY <3>1, <3>2, <3>3, HandsAreFinite
  <2>3. alive' \in [Step -> Nat]
    BY <1>0, <1>6, <2>2 DEF TypeOK, Ends
  <2>4. at' \in [Item -> {"idle", "putting", "queued", "working", "out", "lost"}]
    BY <1>0, <1>6 DEF TypeOK, Ends
  <2>5. outcome' \in [Item -> {"none", "result", "exception"}]
    BY <1>0, <1>6 DEF TypeOK, Ends
  <2> QED
    BY <1>0, <1>6, <2>3, <2>4, <2>5 DEF TypeOK, Ends
<1> QED
  BY <1>1, <1>2, <1>3, <1>4, <1>5, <1>6, NextCases

(* Every step keeps the tickets those of distinct Execute calls.           *)
LEMMA TicketStep == IInv /\ [Next]_vars => Ticketed'
<1> SUFFICES ASSUME IInv, [Next]_vars PROVE Ticketed'
  OBVIOUS
<1>0. TypeOK /\ Ticketed /\ Step \subseteq Nat \ {0}
  BY DEF IInv, Step
<1>1. CASE UNCHANGED vars
  BY <1>0, <1>1 DEF Ticketed, vars
<1>2. ASSUME NEW x \in Item, Execute(x) PROVE Ticketed'
  BY <1>0, <1>2 DEF TypeOK, Ticketed, Execute
<1>3. ASSUME NEW x \in Item, Put(x) PROVE Ticketed'
  <2>1. /\ at[x] = "putting" /\ at'[x] = "queued" /\ step' = step
        /\ \A y \in Item \ {x} : at'[y] = at[y] /\ ticket'[y] = ticket[y] /\ ticket[y] \in Nat
    BY <1>0, <1>3 DEF TypeOK, Put, UnboundedPut
  <2>2. /\ tickets \in Nat /\ ticket[x] \in Nat
        /\ \/ step[x] = 1 /\ ticket'[x] = tickets + 1 /\ tickets' = tickets + 1
           \/ step[x] # 1 /\ ticket'[x] = ticket[x] /\ tickets' = tickets
    BY <1>0, <1>3 DEF TypeOK, Put, UnboundedPut
  <2>3. ticket'[x] # 0
    BY <1>0, <2>1, <2>2 DEF Ticketed
  <2>4. \A y \in Item : ticket'[y] <= tickets'
    BY <1>0, <2>1, <2>2 DEF Ticketed
  <2> QED
    BY <1>0, <2>1, <2>3, <2>4 DEF Ticketed
<1>4. ASSUME NEW x \in Item, HandOn(x) PROVE Ticketed'
  <2>1. /\ at[x] = "working" /\ ticket' = ticket /\ tickets' = tickets
        /\ at' = [at EXCEPT ![x] = "putting"]
        /\ step' = [step EXCEPT ![x] = step[x] + 1]
    BY <1>4 DEF HandOn
  <2>2. step'[x] # 1 /\ at'[x] = "putting"
    <3>1. step[x] \in Nat \ {0} /\ step'[x] = step[x] + 1
      BY <2>1, <1>0 DEF TypeOK
    <3> QED
      BY <3>1, <2>1, <1>0 DEF TypeOK
  <2>3. \A y \in Item \ {x} : step'[y] = step[y] /\ at'[y] = at[y]
    BY <2>1, <1>0 DEF TypeOK
  <2> QED
    BY <1>0, <2>1, <2>2, <2>3 DEF Ticketed
<1>5. ASSUME NEW k \in Step, Take(k) PROVE Ticketed'
  <2> DEFINE h == Head(buffers[k])
  <2>1. h \in Item /\ at[h] = "queued"
    BY <1>5 DEF IInv, TypeOK, InOnePlace, Take
  <2>2. /\ step' = step /\ ticket' = ticket /\ tickets' = tickets
        /\ at' = [at EXCEPT ![h] = "working"]
    BY <1>5 DEF Take
  <2>3. at'[h] = "working" /\ \A y \in Item \ {h} : at'[y] = at[y]
    BY <2>1, <2>2, <1>0 DEF TypeOK
  <2> HIDE DEF h
  <2> QED
    BY <1>0, <2>1, <2>2, <2>3 DEF Ticketed
<1>6. ASSUME NEW x \in Item, NEW a \in {"out", "lost"}, NEW o \in {"none", "result", "exception"},
             Ends(x, a, o)
      PROVE  Ticketed'
  BY <1>0, <1>6 DEF TypeOK, Ticketed, Ends
<1> QED
  BY <1>1, <1>2, <1>3, <1>4, <1>5, <1>6, NextCases

(* No step duplicates an item.                                             *)
LEMMA PlaceStep == IInv /\ [Next]_vars => InOnePlace'
<1> SUFFICES ASSUME IInv, [Next]_vars PROVE InOnePlace'
  OBVIOUS
<1>0. TypeOK /\ InOnePlace /\ Step \subseteq Nat
  BY DEF IInv, Step
<1>1. CASE UNCHANGED vars
  BY <1>0, <1>1 DEF InOnePlace, vars
<1>2. ASSUME NEW x \in Item, Execute(x) PROVE InOnePlace'
  BY <1>0, <1>2 DEF TypeOK, InOnePlace, Execute
<1>3. ASSUME NEW x \in Item, Put(x) PROVE InOnePlace'
  <2> DEFINE s == step[x]
             b == buffers[s]
  <2>1. /\ at[x] = "putting" /\ s \in Step /\ b \in Seq(Item)
        /\ buffers' = [buffers EXCEPT ![s] = Append(b, x)]
        /\ at' = [at EXCEPT ![x] = "queued"]
        /\ step' = step /\ outcome' = outcome
    BY <1>0, <1>3 DEF TypeOK, Put, UnboundedPut
  <2>2. /\ Len(buffers'[s]) = Len(b) + 1
        /\ buffers'[s][Len(b) + 1] = x
        /\ \A i \in 1 .. Len(b) : buffers'[s][i] = b[i]
    BY <2>1, <1>0 DEF TypeOK
  <2>3. \A y \in Item : (outcome'[y] # "none" => at'[y] = "out")
    BY <2>1, <1>0 DEF TypeOK, InOnePlace
  <2>4. ASSUME NEW y \in Item, at'[y] = "queued"
        PROVE  \E i \in 1 .. Len(buffers'[step'[y]]) : buffers'[step'[y]][i] = y
    <3>1. CASE y = x
      <4>1. Len(b) + 1 \in 1 .. Len(buffers'[s])
        BY <2>1, <2>2
      <4> QED
        BY <3>1, <4>1, <2>1, <2>2
    <3>2. CASE y # x
      <4>1. PICK i \in 1 .. Len(buffers[step[y]]) : buffers[step[y]][i] = y
        BY <3>2, <2>1, <2>4, <1>0 DEF TypeOK, InOnePlace
      <4>2. CASE step[y] = s
        <5>1. i \in 1 .. Len(buffers'[s])
          BY <4>1, <4>2, <2>1, <2>2
        <5> QED
          BY <4>1, <4>2, <5>1, <2>1, <2>2
      <4>3. CASE step[y] # s
        BY <4>1, <4>3, <2>1, <1>0 DEF TypeOK
      <4> QED
        BY <4>2, <4>3
    <3> QED
      BY <3>1, <3>2
  <2>5. ASSUME NEW k \in Step, NEW i \in 1 .. Len(buffers'[k])
        PROVE  /\ at'[buffers'[k][i]] = "queued"
               /\ step'[buffers'[k][i]] = k
               /\ \A j \in 1 .. Len(buffers'[k]) : buffers'[k][i] = buffers'[k][j] => i = j
    <3>1. CASE k # s
      <4>1. buffers'[k] = buffers[k]
        BY <3>1, <2>1, <1>0 DEF TypeOK
      <4>2. /\ at[buffers[k][i]] = "queued" /\ step[buffers[k][i]] = k
            /\ \A j \in 1 .. Len(buffers[k]) : buffers[k][i] = buffers[k][j] => i = j
        BY <4>1, <1>0 DEF InOnePlace
      <4>3. buffers[k] \in Seq(Item) /\ i \in 1 .. Len(buffers[k])
        BY <4>1, <1>0 DEF TypeOK
      <4>4. buffers[k][i] \in Item
        BY <4>3
      <4>5. at'[buffers[k][i]] = "queued"
        BY <4>2, <4>4, <2>1, <1>0 DEF TypeOK
      <4> QED
        BY <4>1, <4>2, <4>5, <2>1
    <3>2. CASE k = s
      <4>1. \A l \in 1 .. Len(b) : b[l] \in Item /\ b[l] # x /\ at[b[l]] = "queued" /\ step[b[l]] = s
        <5>1. \A l \in 1 .. Len(b) : b[l] \in Item
          BY <2>1
        <5>2. \A l \in 1 .. Len(b) : at[b[l]] = "queued" /\ step[b[l]] = s
          <6>1. s \in Step
            BY <2>1
          <6> HIDE DEF s
          <6> QED
            BY <6>1, <1>0 DEF InOnePlace
        <5> QED
          BY <5>1, <5>2, <2>1
      <4>2. \A l \in 1 .. Len(buffers'[k]) : l \in 1 .. Len(b) \/ l = Len(b) + 1
        BY <3>2, <2>1, <2>2
      <4>3. CASE i \in 1 .. Len(b)
        <5>1. at'[b[i]] = "queued" /\ step'[b[i]] = k
          BY <4>1, <4>3, <3>2, <2>1, <1>0 DEF TypeOK
        <5>2. \A j \in 1 .. Len(b) : b[i] = b[j] => i = j
          BY <4>3, <2>1, <1>0 DEF InOnePlace
        <5> QED
          BY <5>1, <5>2, <4>1, <4>2, <4>3, <3>2, <2>2
      <4>4. CASE i = Len(b) + 1
        BY <4>4, <4>1, <4>2, <3>2, <2>1, <2>2, <1>0 DEF TypeOK
      <4> QED
        BY <4>2, <4>3, <4>4
    <3> QED
      BY <3>1, <3>2
  <2> QED
    BY <2>3, <2>4, <2>5 DEF InOnePlace
<1>4. ASSUME NEW x \in Item, HandOn(x) PROVE InOnePlace'
  <2>1. /\ at[x] = "working" /\ buffers' = buffers /\ outcome' = outcome
        /\ at' = [at EXCEPT ![x] = "putting"]
        /\ \A y \in Item \ {x} : step'[y] = step[y]
    BY <1>0, <1>4 DEF TypeOK, HandOn
  <2>2. \A k \in Step : \A i \in 1 .. Len(buffers[k]) : buffers[k][i] \in Item \ {x}
    BY <2>1, <1>0 DEF TypeOK, InOnePlace
  <2>3. \A y \in Item : at'[y] = IF y = x THEN "putting" ELSE at[y]
    BY <2>1, <1>0 DEF TypeOK
  <2>4. outcome[x] = "none"
    BY <2>1, <1>0 DEF InOnePlace
  <2>5. \A y \in Item : (outcome'[y] # "none" => at'[y] = "out")
    BY <2>1, <2>3, <2>4, <1>0 DEF InOnePlace
  <2>6. \A y \in Item : at'[y] = "queued" =>
          \E i \in 1 .. Len(buffers'[step'[y]]) : buffers'[step'[y]][i] = y
    BY <2>1, <2>3, <1>0 DEF InOnePlace
  <2>7. ASSUME NEW k \in Step, NEW i \in 1 .. Len(buffers'[k])
        PROVE  /\ at'[buffers'[k][i]] = "queued"
               /\ step'[buffers'[k][i]] = k
               /\ \A j \in 1 .. Len(buffers'[k]) : buffers'[k][i] = buffers'[k][j] => i = j
    BY <2>1, <2>2, <2>3, <1>0 DEF InOnePlace
  <2> QED
    BY <2>5, <2>6, <2>7 DEF InOnePlace
<1>5. ASSUME NEW k \in Step, Take(k) PROVE InOnePlace'
  <2> DEFINE b == buffers[k]
             h == Head(b)
  <2>1. /\ b \in Seq(Item) /\ b # <<>> /\ h \in Item /\ h = b[1] /\ 1 \in 1 .. Len(b)
        /\ buffers' = [buffers EXCEPT ![k] = Tail(b)]
        /\ at' = [at EXCEPT ![h] = "working"]
        /\ step' = step /\ outcome' = outcome
    BY <1>0, <1>5 DEF TypeOK, Take
  <2>2. /\ Len(buffers'[k]) = Len(b) - 1
        /\ \A i \in 1 .. Len(b) - 1 : buffers'[k][i] = b[i + 1] /\ i + 1 \in 1 .. Len(b)
    BY <2>1, <1>0 DEF TypeOK
  <2>3. at[h] = "queued" /\ step[h] = k
    BY <2>1, <1>0 DEF InOnePlace
  <2>4. \A y \in Item : (outcome'[y] # "none" => at'[y] = "out")
    BY <2>1, <2>3, <1>0 DEF TypeOK, InOnePlace
  <2>5. ASSUME NEW y \in Item, at'[y] = "queued"
        PROVE  \E i \in 1 .. Len(buffers'[step'[y]]) : buffers'[step'[y]][i] = y
    <3>1. y # h /\ at[y] = "queued"
      BY <2>1, <2>5, <1>0 DEF TypeOK
    <3>2. PICK i \in 1 .. Len(buffers[step[y]]) : buffers[step[y]][i] = y
      BY <3>1, <1>0 DEF InOnePlace
    <3>3. CASE step[y] = k
      <4>1. i # 1 /\ i - 1 \in 1 .. Len(b) - 1 /\ (i - 1) + 1 = i
        BY <3>1, <3>2, <3>3, <2>1
      <4>2. buffers'[k][i - 1] = y
        BY <4>1, <3>2, <3>3, <2>2
      <4> QED
        BY <4>1, <4>2, <3>3, <2>1, <2>2
    <3>4. CASE step[y] # k
      BY <3>2, <3>4, <2>1, <1>0 DEF TypeOK
    <3> QED
      BY <3>3, <3>4
  <2>6. ASSUME NEW l \in Step, NEW i \in 1 .. Len(buffers'[l])
        PROVE  /\ at'[buffers'[l][i]] = "queued"
               /\ step'[buffers'[l][i]] = l
               /\ \A j \in 1 .. Len(buffers'[l]) : buffers'[l][i] = buffers'[l][j] => i = j
    <3>1. CASE l # k
      <4>1. buffers'[l] = buffers[l]
        BY <3>1, <2>1, <1>0 DEF TypeOK
      <4>2. buffers[l][i] \in Item \ {h} /\ at[buffers[l][i]] = "queued" /\ step[buffers[l][i]] = l
        BY <4>1, <3>1, <2>3, <1>0 DEF TypeOK, InOnePlace
      <4>3. \A j \in 1 .. Len(buffers[l]) : buffers[l][i] = buffers[l][j] => i = j
        BY <4>1, <1>0 DEF InOnePlace
      <4>4. at'[buffers[l][i]] = "queued"
        BY <4>2, <2>1, <1>0 DEF TypeOK
      <4> QED
        BY <4>1, <4>2, <4>3, <4>4, <2>1
    <3>2. CASE l = k
      <4>1. \A m \in 1 .. Len(buffers'[k]) :
              buffers'[k][m] = b[m + 1] /\ m + 1 \in 1 .. Len(b) /\ m \in Nat
        BY <2>1, <2>2
      <4>2. \A m, n \in 1 .. Len(b) : b[m] = b[n] => m = n
        BY <1>0 DEF InOnePlace
      <4>3. b[i + 1] # h
        BY <4>1, <4>2, <3>2, <2>1
      <4>4. b[i + 1] \in Item /\ at[b[i + 1]] = "queued" /\ step[b[i + 1]] = k
        BY <4>1, <3>2, <2>1, <1>0 DEF InOnePlace
      <4>5. \A j \in 1 .. Len(buffers'[k]) : buffers'[k][i] = buffers'[k][j] => i = j
        BY <4>1, <4>2, <3>2
      <4> QED
        BY <4>1, <4>3, <4>4, <4>5, <3>2, <2>1, <1>0 DEF TypeOK
    <3> QED
      BY <3>1, <3>2
  <2> QED
    BY <2>4, <2>5, <2>6 DEF InOnePlace
<1>6. ASSUME NEW x \in Item, NEW a \in {"out", "lost"}, NEW o \in {"none", "result", "exception"},
             Ends(x, a, o)
      PROVE  InOnePlace'
  <2>1. /\ at[x] = "working" /\ buffers' = buffers /\ step' = step
        /\ at' = [at EXCEPT ![x] = a]
        /\ outcome' = [outcome EXCEPT ![x] = o]
        /\ a = "lost" => o = outcome[x]
    BY <1>6 DEF Ends
  <2>2. outcome[x] = "none" /\ at'[x] = a /\ outcome'[x] = o
    BY <2>1, <1>0 DEF TypeOK, InOnePlace
  <2>3. \A k \in Step : \A i \in 1 .. Len(buffers[k]) : buffers[k][i] \in Item \ {x}
    BY <2>1, <1>0 DEF TypeOK, InOnePlace
  <2>4. \A y \in Item : (outcome'[y] # "none" => at'[y] = "out")
    BY <2>1, <2>2, <1>0 DEF TypeOK, InOnePlace
  <2> QED
    BY <2>1, <2>2, <2>3, <2>4, <1>0 DEF TypeOK, InOnePlace
<1> QED
  BY <1>1, <1>2, <1>3, <1>4, <1>5, <1>6, NextCases

-----------------------------------------------------------------------------
(* Counting                                                                *)

(* No step takes more items than it has living workers.                    *)
LEMMA CountStep == IInv /\ [Next]_vars => Counted'
<1> SUFFICES ASSUME IInv, [Next]_vars PROVE Counted'
  OBVIOUS
<1>0. TypeOK /\ Counted
  BY DEF IInv
<1>a. /\ \A k \in Step : Cardinality(InHand(k)) <= alive[k] /\ alive[k] <= Workers(k)
      /\ \A k \in Step : alive[k] \in Nat /\ Workers(k) \in Nat /\ Cardinality(InHand(k)) \in Nat
  BY <1>0, HandsAreFinite, PipelineAssumption DEF Counted, TypeOK, Workers
<1>1. CASE UNCHANGED vars
  <2>1. \A k : InHand(k)' = InHand(k) /\ Workers(k)' = Workers(k)
    BY <1>1 DEF vars, InHand, Held, Workers
  <2> QED
    BY <1>0, <1>1, <2>1 DEF Counted, vars
<1>2. ASSUME NEW x \in Item, Execute(x) \/ HandOn(x) PROVE Counted'
  <2>1. class' = class /\ alive' = alive /\ buffers' = buffers
    BY <1>2 DEF Execute, HandOn
  <2>2. \A k \in Step : InHand(k)' = InHand(k) /\ Workers(k)' = Workers(k)
    BY <1>2, <2>1, SameHands DEF Workers
  <2> QED
    BY <1>0, <2>1, <2>2 DEF Counted
<1>3. ASSUME NEW x \in Item, Put(x) PROVE Counted'
  <2>1. /\ class' = class /\ alive' = alive /\ step[x] \in Step
        /\ buffers' = [buffers EXCEPT ![step[x]] = Append(buffers[step[x]], x)]
        /\ HasRoom(step[x])
    BY <1>0, <1>3 DEF Put, UnboundedPut, TypeOK
  <2>2. \A k \in Step : Workers(k)' = Workers(k)
    BY <2>1 DEF Workers
  <2>3. ASSUME NEW k \in Step PROVE Cardinality(InHand(k))' <= alive[k]
    <3>1. InHand(k)' = InHand(k) \ {x}
      BY <1>3, PutHands
    <3>2. Cardinality(InHand(k) \ {x}) <= Cardinality(InHand(k))
      <4>1. Cardinality(InHand(k)) - 1 <= Cardinality(InHand(k))
        BY HandsAreFinite
      <4>2. Cardinality(InHand(k) \ {x})
              = IF x \in InHand(k) THEN Cardinality(InHand(k)) - 1 ELSE Cardinality(InHand(k))
        BY HandsAreFinite, FS_RemoveElement
      <4> QED
        BY <4>1, <4>2, HandsAreFinite
    <3>3. Cardinality(InHand(k) \ {x}) \in Nat
      BY HandsAreFinite, FS_RemoveElement, FS_CardinalityType
    <3> QED
      BY <3>1, <3>2, <3>3, <1>a
  <2>4. ASSUME class = "parallelism", NEW k \in Step PROVE Len(buffers'[k]) <= MaxCapacity[k]
    <3>1. buffers[step[x]] \in Seq(Item) /\ MaxCapacity[step[x]] \in Nat
      BY <1>0, <2>1, PipelineAssumption DEF TypeOK
    <3>2. Len(buffers[step[x]]) < MaxCapacity[step[x]]
      BY <2>1, <2>4 DEF HasRoom
    <3>3. CASE k = step[x]
      <4>1. buffers'[k] = Append(buffers[k], x)
        BY <3>3, <2>1, <1>0 DEF TypeOK
      <4>2. Len(buffers'[k]) = Len(buffers[k]) + 1 /\ Len(buffers[k]) \in Nat
        BY <4>1, <3>1, <3>3
      <4> QED
        BY <4>2, <3>1, <3>2, <3>3
    <3>4. CASE k # step[x]
      BY <3>4, <2>1, <2>4, <1>0 DEF TypeOK, Counted
    <3> QED
      BY <3>3, <3>4
  <2> QED
    BY <2>1, <2>2, <2>3, <2>4, <1>a DEF Counted
<1>4. ASSUME NEW k \in Step, Take(k) PROVE Counted'
  <2> DEFINE h == Head(buffers[k])
  <2>1. /\ class' = class /\ alive' = alive
        /\ buffers' = [buffers EXCEPT ![k] = Tail(buffers[k])]
        /\ buffers[k] \in Seq(Item) /\ buffers[k] # <<>>
        /\ Cardinality(InHand(k)) < alive[k]
    BY <1>0, <1>4 DEF Take, TypeOK
  <2>2. \A j \in Step : Workers(j)' = Workers(j)
    BY <2>1 DEF Workers
  <2>3. ASSUME NEW j \in Step PROVE Cardinality(InHand(j))' <= alive[j]
    <3>1. CASE j # k
      BY <3>1, <1>4, <1>a, TakeHands
    <3>2. CASE j = k
      <4>1. InHand(k)' = InHand(k) \cup {h}
        BY <1>4, TakeHands
      <4>2. Cardinality(InHand(k) \cup {h}) <= Cardinality(InHand(k)) + 1
        BY HandsAreFinite, FS_AddElement
      <4>3. Cardinality(InHand(k) \cup {h}) \in Nat
        BY HandsAreFinite, FS_AddElement, FS_CardinalityType
      <4> QED
        BY <3>2, <4>1, <4>2, <4>3, <2>1, <1>a
    <3> QED
      BY <3>1, <3>2
  <2>4. ASSUME class = "parallelism", NEW j \in Step PROVE Len(buffers'[j]) <= MaxCapacity[j]
    <3>1. CASE j = k
      <4>1. buffers'[k] = Tail(buffers[k])
        BY <2>1, <1>0 DEF TypeOK
      <4>2. Len(buffers'[k]) = Len(buffers[k]) - 1 /\ Len(buffers[k]) \in Nat
        BY <4>1, <2>1
      <4>3. Len(buffers[k]) <= MaxCapacity[k] /\ MaxCapacity[k] \in Nat
        BY <2>4, <1>0, PipelineAssumption DEF Counted
      <4> QED
        BY <4>2, <4>3, <3>1
    <3>2. CASE j # k
      BY <3>2, <2>1, <2>4, <1>0 DEF TypeOK, Counted
    <3> QED
      BY <3>1, <3>2
  <2> QED
    BY <2>1, <2>2, <2>3, <2>4, <1>a DEF Counted
<1>5. ASSUME NEW x \in Item, NEW a \in {"out", "lost"}, NEW o \in {"none", "result", "exception"},
             Ends(x, a, o)
      PROVE  Counted'
  <2> DEFINE s == step[x]
  <2>1. /\ class' = class /\ buffers' = buffers /\ s \in Step
        /\ alive' = alive \/ alive' = [alive EXCEPT ![s] = alive[s] - 1]
        /\ x \in InHand(s)
    BY <1>0, <1>5 DEF Ends, TypeOK, InHand, Held
  <2>2. \A k \in Step : Workers(k)' = Workers(k)
    BY <2>1 DEF Workers
  <2>3. ASSUME NEW k \in Step
        PROVE  Cardinality(InHand(k))' <= alive'[k] /\ alive'[k] <= Workers(k)
    <3>1. InHand(k)' = InHand(k) \ {x}
      BY <1>5, EndHands
    <3>2. Cardinality(InHand(k) \ {x}) = IF x \in InHand(k) THEN Cardinality(InHand(k)) - 1 ELSE Cardinality(InHand(k))
      BY HandsAreFinite, FS_RemoveElement
    <3>3. alive'[k] = alive[k] \/ (k = s /\ alive'[k] = alive[k] - 1)
      BY <2>1, <1>0 DEF TypeOK
    <3>4. k = s => x \in InHand(k)
      BY <2>1
    <3> QED
      BY <3>1, <3>2, <3>3, <3>4, <1>a
  <2> QED
    BY <2>1, <2>2, <2>3, <1>0 DEF Counted
<1> QED
  BY <1>1, <1>2, <1>3, <1>4, <1>5, NextCases

(* The lost items of the awaitable pipeline                                *)
LEMMA SpareStep == IInv /\ [Next]_vars => ExceptionsSpareWorkers'
<1> SUFFICES ASSUME IInv, [Next]_vars, class' = "await" PROVE ExceptionsSpareWorkers'
  BY DEF ExceptionsSpareWorkers
<1> DEFINE Lost == {x \in Item : at[x] = "lost"}
<1>0. TypeOK /\ ExceptionsSpareWorkers
  BY DEF IInv
<1>a. IsFiniteSet(Lost) /\ Cardinality(Lost) \in Nat
  <2>1. Lost \subseteq Item
    OBVIOUS
  <2> QED
    BY <2>1, PipelineAssumption, FS_Subset, FS_CardinalityType
<1>b. class = "await"
  BY NextCases DEF vars, Execute, Put, UnboundedPut, HandOn, Take, Ends
<1>c. /\ \A k \in Step \ {Steps} : alive[k] = Degree[k]
      /\ alive[Steps] + Cardinality(Lost) = Degree[Steps]
  BY <1>0, <1>b DEF ExceptionsSpareWorkers
<1>1. ASSUME alive' = alive, \A x \in Item : at'[x] = "lost" <=> at[x] = "lost"
      PROVE  ExceptionsSpareWorkers'
  <2>1. {x \in Item : at'[x] = "lost"} = Lost
    BY <1>1
  <2> QED
    BY <2>1, <1>1, <1>c DEF ExceptionsSpareWorkers
<1>2. CASE UNCHANGED vars
  BY <1>1, <1>2 DEF vars
<1>3. ASSUME NEW x \in Item, Execute(x) \/ Put(x) \/ HandOn(x) PROVE ExceptionsSpareWorkers'
  <2>1. /\ alive' = alive
        /\ at[x] \in {"idle", "putting", "working"}
        /\ at' = [at EXCEPT ![x] = "putting"] \/ at' = [at EXCEPT ![x] = "queued"]
    BY <1>3 DEF Execute, Put, UnboundedPut, HandOn
  <2>2. \A y \in Item : at'[y] = "lost" <=> at[y] = "lost"
    BY <2>1, <1>0 DEF TypeOK
  <2> QED
    BY <2>1, <2>2, <1>1
<1>4. ASSUME NEW k \in Step, Take(k) PROVE ExceptionsSpareWorkers'
  <2> DEFINE h == Head(buffers[k])
  <2>1. h \in Item /\ at[h] = "queued"
    BY <1>4 DEF IInv, TypeOK, InOnePlace, Take
  <2>2. alive' = alive /\ at' = [at EXCEPT ![h] = "working"]
    BY <1>4 DEF Take
  <2>3. \A y \in Item : at'[y] = "lost" <=> at[y] = "lost"
    BY <2>1, <2>2, <1>0 DEF TypeOK
  <2> QED
    BY <2>2, <2>3, <1>1
<1>5. ASSUME NEW x \in Item, NEW a \in {"out", "lost"}, NEW o \in {"none", "result", "exception"},
             Ends(x, a, o)
      PROVE  ExceptionsSpareWorkers'
  <2>1. at[x] = "working" /\ at' = [at EXCEPT ![x] = a]
    BY <1>5 DEF Ends
  <2>2. CASE a = "out" /\ alive' = alive
    <3>1. \A y \in Item : at'[y] = "lost" <=> at[y] = "lost"
      BY <2>1, <2>2, <1>0 DEF TypeOK
    <3> QED
      BY <2>2, <3>1, <1>1
  <2>3. CASE a = "lost" /\ alive' = [alive EXCEPT ![Steps] = alive[Steps] - 1]
    <3>1. {y \in Item : at'[y] = "lost"} = Lost \cup {x} /\ x \notin Lost
      BY <2>1, <2>3, <1>0 DEF TypeOK
    <3>2. Cardinality(Lost \cup {x}) = Cardinality(Lost) + 1
      BY <3>1, <1>a, FS_AddElement
    <3>3. /\ alive'[Steps] = alive[Steps] - 1
          /\ \A k \in Step \ {Steps} : alive'[k] = alive[k]
          /\ alive[Steps] \in Nat
      BY <2>3, <1>0, StepsFact DEF TypeOK
    <3>4. alive'[Steps] + Cardinality({y \in Item : at'[y] = "lost"}) = Degree[Steps]
      <4> DEFINE n == Cardinality(Lost)
                 l == alive[Steps]
      <4>1. n \in Nat /\ l \in Nat /\ l + n = Degree[Steps]
        BY <3>3, <1>a, <1>c
      <4>2. alive'[Steps] = l - 1 /\ Cardinality({y \in Item : at'[y] = "lost"}) = n + 1
        BY <3>1, <3>2, <3>3
      <4> HIDE DEF n, l
      <4> QED
        BY <4>1, <4>2
    <3> QED
      BY <3>3, <3>4, <1>c DEF ExceptionsSpareWorkers
  <2> QED
    BY <1>5, <1>b, <2>2, <2>3 DEF Ends
<1> QED
  BY <1>2, <1>3, <1>4, <1>5, NextCases

-----------------------------------------------------------------------------
(* Order                                                                   *)

(* Where an item is, its place says.                                       *)
LEMMA Places ==
  ASSUME IInv, NEW x \in Item, OnItsWay(x)
  PROVE  /\ Place(x) \in Nat /\ Place(x) >= 2 /\ Place(x) <= 2 * Steps + 2
         /\ \A k \in Step : Place(x) = 2 * k => at[x] = "queued" /\ step[x] = k
         /\ \A k \in Step : Place(x) = 2 * k + 1 => x \in InHand(k)
<1>1. /\ step[x] \in Nat /\ step[x] >= 1 /\ step[x] <= Steps
      /\ at[x] \in {"putting", "queued", "working", "out"}
      /\ at[x] = "putting" => step[x] > 1
      /\ Steps \in Nat
      /\ Step \subseteq Nat /\ \A k \in Step : k <= Steps
  <2>1. Steps \in Nat /\ Step \subseteq Nat /\ \A k \in Step : k >= 1 /\ k <= Steps
    BY StepsFact DEF Step
  <2>2. step[x] \in Step /\ at[x] \in {"idle", "putting", "queued", "working", "out", "lost"}
    BY DEF IInv, TypeOK
  <2>3. at[x] # "lost" /\ ticket[x] # 0
    BY DEF IInv, TypeOK, OnItsWay
  <2>4. at[x] # "idle" /\ (at[x] = "putting" => step[x] # 1)
    BY <2>3 DEF IInv, Ticketed
  <2>5. at[x] \in {"putting", "queued", "working", "out"}
    BY <2>2, <2>3, <2>4
  <2>6. step[x] \in Nat /\ step[x] >= 1 /\ step[x] <= Steps
    BY <2>1, <2>2
  <2>7. at[x] = "putting" => step[x] > 1
    BY <2>4, <2>6
  <2> QED
    BY <2>1, <2>5, <2>6, <2>7
<1>2. CASE at[x] = "putting"
  BY <1>1, <1>2 DEF Place, InHand, Held
<1>3. CASE at[x] = "queued"
  BY <1>1, <1>3 DEF Place, InHand, Held
<1>4. CASE at[x] = "working"
  BY <1>1, <1>4 DEF Place, InHand, Held
<1>5. CASE at[x] = "out"
  BY <1>1, <1>5 DEF Place, InHand, Held
<1> QED
  BY <1>1, <1>2, <1>3, <1>4, <1>5

(* Farther down the pipeline more steps are behind.                        *)
LEMMA ParallelGrows ==
  ASSUME NEW p \in Nat, NEW q \in Nat, p <= q, Parallel(p)
  PROVE  Parallel(q)
  BY DEF Parallel, Step

(* An item that was in a parallel step remains one that was.               *)
LEMMA ParallelStays ==
  ASSUME class' = class, NEW p
  PROVE  Parallel(p)' <=> Parallel(p)
  BY DEF Parallel, Workers

(* An item next to another in the hands of a step's workers was not taken  *)
(* by its only worker.                                                     *)
LEMMA TwoHandsParallel ==
  ASSUME IInv, NEW k \in Step, NEW x \in InHand(k), NEW y \in InHand(k), x # y,
         NEW p \in Nat, 2 * k + 1 < p
  PROVE  Parallel(p)
  BY TwoHands DEF IInv, Parallel

(* Items that do not move keep their order.                                *)
LEMMA Unmoved ==
  ASSUME IInv, class' = class, NEW x \in Item, NEW y \in Item,
         ticket'[x] = ticket[x], at'[x] = at[x], step'[x] = step[x], outcome'[x] = outcome[x],
         ticket'[y] = ticket[y], at'[y] = at[y], step'[y] = step[y], outcome'[y] = outcome[y],
         OnItsWay(x)', OnItsWay(y)', ticket'[x] < ticket'[y], Place(x)' < Place(y)'
  PROVE  Parallel(Place(y))'
<1>1. OnItsWay(x) /\ OnItsWay(y) /\ Place(x)' = Place(x) /\ Place(y)' = Place(y)
  BY DEF OnItsWay, Place
<1>2. Parallel(Place(y))
  BY <1>1 DEF IInv, OvertakenOnlyInParallel
<1> QED
  BY <1>1, <1>2, ParallelStays

(* A new item is behind all others, whose order it leaves alone.           *)
LEMMA ExecuteOrder ==
  ASSUME IInv, NEW z \in Item, Execute(z)
  PROVE  Sorted' /\ OvertakenOnlyInParallel'
<1>1. /\ class' = class /\ buffers' = buffers /\ ticket' = ticket /\ step' = step /\ outcome' = outcome
      /\ at[z] = "idle" /\ \A y \in Item \ {z} : at'[y] = at[y]
      /\ ticket[z] = 0
  BY DEF Execute, IInv, TypeOK, Ticketed
<1>2. Sorted'
  BY <1>1, ParallelStays DEF IInv, Sorted
<1>3. OvertakenOnlyInParallel'
  <2> SUFFICES ASSUME NEW x \in Item, NEW y \in Item,
                      OnItsWay(x)', OnItsWay(y)', ticket'[x] < ticket'[y], Place(x)' < Place(y)'
               PROVE  Parallel(Place(y))'
    BY DEF OvertakenOnlyInParallel
  <2>1. x # z /\ y # z
    BY <1>1 DEF OnItsWay
  <2> QED
    BY <2>1, <1>1, Unmoved
<1> QED
  BY <1>2, <1>3

(* The worker holds the item before and after: it is where it was.         *)
LEMMA HandOnOrder ==
  ASSUME IInv, NEW z \in Item, HandOn(z)
  PROVE  Sorted' /\ OvertakenOnlyInParallel'
<1>1. /\ class' = class /\ buffers' = buffers /\ ticket' = ticket /\ outcome' = outcome
      /\ at[z] = "working" /\ at'[z] = "putting" /\ step'[z] = step[z] + 1
      /\ step[z] \in Nat
      /\ \A y \in Item \ {z} : at'[y] = at[y] /\ step'[y] = step[y]
  BY DEF HandOn, IInv, TypeOK, Step
<1>2. Sorted'
  BY <1>1, ParallelStays DEF IInv, Sorted
<1>3. Place(z)' = Place(z) /\ (OnItsWay(z)' <=> OnItsWay(z))
  BY <1>1 DEF Place, OnItsWay
<1>4. \A y \in Item \ {z} : Place(y)' = Place(y) /\ (OnItsWay(y)' <=> OnItsWay(y))
  BY <1>1 DEF Place, OnItsWay
<1>5. OvertakenOnlyInParallel'
  <2> SUFFICES ASSUME NEW x \in Item, NEW y \in Item,
                      OnItsWay(x)', OnItsWay(y)', ticket'[x] < ticket'[y], Place(x)' < Place(y)'
               PROVE  Parallel(Place(y))'
    BY DEF OvertakenOnlyInParallel
  <2>1. Place(x)' = Place(x) /\ Place(y)' = Place(y) /\ OnItsWay(x) /\ OnItsWay(y)
    BY <1>3, <1>4
  <2>2. Parallel(Place(y))
    BY <2>1, <1>1 DEF IInv, OvertakenOnlyInParallel
  <2> QED
    BY <2>1, <2>2, <1>1, ParallelStays
<1> QED
  BY <1>2, <1>5

(* An item that leaves the pipeline overtakes nothing.                     *)
LEMMA EndOrder ==
  ASSUME IInv, NEW z \in Item, NEW a \in {"out", "lost"}, NEW o, Ends(z, a, o)
  PROVE  Sorted' /\ OvertakenOnlyInParallel'
<1>1. /\ class' = class /\ buffers' = buffers /\ ticket' = ticket /\ step' = step
      /\ at[z] = "working" /\ at'[z] = a /\ outcome'[z] = o /\ step[z] \in Step
      /\ a = "lost" \/ (a = "out" /\ o = "result" /\ step[z] = Steps) \/ (a = "out" /\ o = "exception")
      /\ \A y \in Item \ {z} : at'[y] = at[y] /\ outcome'[y] = outcome[y]
  BY DEF Ends, IInv, TypeOK
<1>2. Sorted'
  BY <1>1, ParallelStays DEF IInv, Sorted
<1>3. OvertakenOnlyInParallel'
  <2> SUFFICES ASSUME NEW x \in Item, NEW y \in Item,
                      OnItsWay(x)', OnItsWay(y)', ticket'[x] < ticket'[y], Place(x)' < Place(y)'
               PROVE  Parallel(Place(y))'
    BY DEF OvertakenOnlyInParallel
  <2>0. x # y /\ Steps \in Nat
    BY StepsFact, <1>1 DEF IInv, TypeOK
  <2>1. CASE x # z /\ y # z
    BY <2>1, <1>1, Unmoved
  <2>2. CASE y = z
    <3>1. /\ a = "out" /\ step[z] = Steps /\ OnItsWay(z)
          /\ Place(z) = 2 * Steps + 1 /\ Place(z)' = 2 * Steps + 2
      BY <2>2, <1>1 DEF OnItsWay, Place
    <3>2. OnItsWay(x) /\ Place(x)' = Place(x)
      BY <2>0, <2>2, <1>1 DEF OnItsWay, Place
    <3>3. CASE Place(x) < 2 * Steps + 1
      <4>1. Parallel(Place(z))
        BY <3>1, <3>2, <3>3, <2>2, <1>1 DEF IInv, OvertakenOnlyInParallel
      <4> QED
        BY <4>1, <3>1, <2>0, <2>2, <1>1, ParallelGrows, ParallelStays
    <3>4. CASE Place(x) = 2 * Steps + 1
      <4>1. x \in InHand(Steps) /\ z \in InHand(Steps)
        BY <3>1, <3>2, <3>4, Places, StepsFact
      <4>2. Parallel(2 * Steps + 2)
        BY <4>1, <2>0, <2>2, TwoHandsParallel, StepsFact
      <4> QED
        BY <4>2, <3>1, <2>2, <1>1, ParallelStays
    <3>5. Place(x) \in Nat
      BY <3>2, Places
    <3> QED
      BY <3>1, <3>2, <3>3, <3>4, <3>5, <2>0, <2>2
  <2>3. CASE x = z
    <3>1. Place(z)' = 2 * Steps + 2
      BY <2>3, <1>1 DEF OnItsWay, Place
    <3>2. OnItsWay(y) /\ Place(y)' = Place(y)
      BY <2>0, <2>3, <1>1 DEF OnItsWay, Place
    <3>3. Place(y) <= 2 * Steps + 2 /\ Place(y) \in Nat
      BY <3>2, Places
    <3> QED
      BY <3>1, <3>2, <3>3, <2>0, <2>3
  <2> QED
    BY <2>1, <2>2, <2>3
<1> QED
  BY <1>2, <1>3

(* An item taken is the first of its buffer.                               *)
LEMMA TakeOrder ==
  ASSUME IInv, NEW k \in Step, Take(k), NEW z \in Item, z = Head(buffers[k])
  PROVE  Sorted' /\ OvertakenOnlyInParallel'
<1> DEFINE b == buffers[k]
<1>1. /\ class' = class /\ ticket' = ticket /\ step' = step /\ outcome' = outcome
      /\ b \in Seq(Item) /\ b # <<>> /\ z \in Item /\ z = b[1] /\ 1 \in 1 .. Len(b)
      /\ buffers' = [buffers EXCEPT ![k] = Tail(b)]
      /\ at' = [at EXCEPT ![z] = "working"]
  BY DEF Take, IInv, TypeOK
<1>2. at[z] = "queued" /\ step[z] = k
  BY <1>1 DEF IInv, InOnePlace
<1>3. at'[z] = "working" /\ \A y \in Item \ {z} : at'[y] = at[y]
  BY <1>1 DEF IInv, TypeOK
<1>4. ASSUME NEW l \in Step, NEW i \in 1 .. Len(buffers'[l]), NEW j \in 1 .. Len(buffers'[l]), i < j
      PROVE  ticket[buffers'[l][i]] <= ticket[buffers'[l][j]] \/ Parallel(2 * l)
  <2>1. CASE l = k
    <3>1. buffers'[l] = Tail(b) /\ Len(Tail(b)) = Len(b) - 1 /\ Len(b) \in Nat
      BY <2>1, <1>1 DEF IInv, TypeOK
    <3>2. /\ i + 1 \in 1 .. Len(b) /\ j + 1 \in 1 .. Len(b) /\ i + 1 < j + 1
          /\ Tail(b)[i] = b[i + 1] /\ Tail(b)[j] = b[j + 1]
      BY <3>1, <1>1, <1>4
    <3> QED
      BY <3>1, <3>2, <2>1 DEF IInv, Sorted
  <2>2. CASE l # k
    <3>1. buffers'[l] = buffers[l]
      BY <2>2, <1>1 DEF IInv, TypeOK
    <3> QED
      BY <3>1, <1>4 DEF IInv, Sorted
  <2> QED
    BY <2>1, <2>2
<1>5. Sorted'
  BY <1>1, <1>4, ParallelStays DEF Sorted
<1>6. OvertakenOnlyInParallel'
  <2> SUFFICES ASSUME NEW x \in Item, NEW y \in Item,
                      OnItsWay(x)', OnItsWay(y)', ticket'[x] < ticket'[y], Place(x)' < Place(y)'
               PROVE  Parallel(Place(y))'
    BY DEF OvertakenOnlyInParallel
  <2>0. x # y /\ k \in Nat
    BY <1>1 DEF IInv, TypeOK, Step
  <2>1. CASE x # z /\ y # z
    BY <2>1, <1>1, <1>3, Unmoved
  <2>2. OnItsWay(z) /\ Place(z) = 2 * k /\ Place(z)' = 2 * k + 1
    <3>1. ticket[z] # 0 /\ ticket[z] \in Nat
      BY <1>1, <1>2 DEF IInv, Ticketed, TypeOK
    <3> QED
      BY <3>1, <1>1, <1>2, <1>3, <2>0 DEF OnItsWay, Place
  <2>3. CASE y = z
    <3>1. OnItsWay(x) /\ Place(x)' = Place(x) /\ Place(x) \in Nat
      <4>1. OnItsWay(x) /\ Place(x)' = Place(x)
        BY <2>0, <2>3, <1>1, <1>3 DEF OnItsWay, Place
      <4> QED
        BY <4>1, Places
    <3>2. CASE Place(x) < 2 * k
      <4>1. Parallel(2 * k)
        BY <3>1, <3>2, <2>2, <2>3, <1>1 DEF IInv, OvertakenOnlyInParallel
      <4> QED
        BY <4>1, <2>0, <2>2, <2>3, <1>1, ParallelGrows, ParallelStays
    <3>3. CASE Place(x) = 2 * k
      <4>1. at[x] = "queued" /\ step[x] = k
        BY <3>1, <3>3, Places
      <4>2. PICK i \in 1 .. Len(b) : b[i] = x
        BY <4>1 DEF IInv, InOnePlace
      <4>3. 1 < i
        BY <4>2, <2>0, <2>3, <1>1
      <4>4. ticket[z] <= ticket[x] \/ Parallel(2 * k)
        BY <4>2, <4>3, <1>1 DEF IInv, Sorted
      <4>5. ~(ticket[z] <= ticket[x])
        <5>1. ticket[z] \in Nat /\ ticket[x] \in Nat /\ ticket[x] < ticket[z]
          BY <2>3, <1>1 DEF IInv, TypeOK
        <5> QED
          BY <5>1
      <4> QED
        BY <4>4, <4>5, <2>0, <2>2, <2>3, <1>1, ParallelGrows, ParallelStays
    <3> QED
      BY <3>1, <3>2, <3>3, <2>0, <2>2, <2>3
  <2>4. CASE x = z
    <3>1. OnItsWay(y) /\ Place(y)' = Place(y)
      BY <2>0, <2>4, <1>1, <1>3 DEF OnItsWay, Place
    <3>2. Place(y) \in Nat
      BY <3>1, Places
    <3>3. Place(z) < Place(y)
      BY <3>1, <3>2, <2>0, <2>2, <2>4
    <3>4. Parallel(Place(y))
      BY <3>1, <3>3, <2>2, <2>4, <1>1 DEF IInv, OvertakenOnlyInParallel
    <3> QED
      BY <3>1, <3>4, <1>1, ParallelStays
  <2> QED
    BY <2>1, <2>3, <2>4
<1> QED
  BY <1>5, <1>6

(* An item put into a buffer overtakes only what a parallel step held.     *)
LEMMA PutOrder ==
  ASSUME IInv, NEW z \in Item, Put(z)
  PROVE  Sorted' /\ OvertakenOnlyInParallel'
<1> DEFINE s == step[z]
           b == buffers[s]
<1>1. /\ class' = class /\ step' = step /\ outcome' = outcome
      /\ s \in Step /\ b \in Seq(Item)
      /\ buffers' = [buffers EXCEPT ![s] = Append(b, z)]
      /\ at[z] = "putting" /\ at'[z] = "queued" /\ \A y \in Item \ {z} : at'[y] = at[y]
  BY DEF Put, UnboundedPut, IInv, TypeOK
<1>2. /\ \A y \in Item \ {z} : ticket'[y] = ticket[y]
      /\ \A y \in Item : ticket[y] \in Nat /\ ticket[y] <= tickets /\ tickets \in Nat
      /\ s = 1 => ticket[z] = 0 /\ ticket'[z] = tickets + 1
      /\ s # 1 => ticket[z] > 0 /\ ticket'[z] = ticket[z]
  <2>1. ticket[z] \in Nat /\ (s = 1 <=> ticket[z] = 0)
    BY <1>1 DEF IInv, TypeOK, Ticketed
  <2> QED
    BY <2>1 DEF Put, UnboundedPut, IInv, TypeOK, Ticketed
<1>3. s \in Nat /\ s >= 1 /\ (s # 1 => s - 1 \in Step)
  BY <1>1, StepsFact DEF Step
<1>4. Place(z) = 2 * s - 1 /\ Place(z)' = 2 * s
  BY <1>1 DEF Place
<1>5. \A y \in Item \ {z} : Place(y)' = Place(y) /\ (OnItsWay(y)' <=> OnItsWay(y))
  BY <1>1, <1>2 DEF Place, OnItsWay
<1>6. s # 1 => OnItsWay(z)
  BY <1>1, <1>2 DEF OnItsWay
<1>7. \A l \in Step : \A i \in 1 .. Len(buffers[l]) :
        /\ buffers[l][i] \in Item \ {z}
        /\ at[buffers[l][i]] = "queued" /\ step[buffers[l][i]] = l
  <2>1. \A l \in Step : \A i \in 1 .. Len(buffers[l]) :
          at[buffers[l][i]] = "queued" /\ step[buffers[l][i]] = l
    BY DEF IInv, InOnePlace
  <2>2. \A l \in Step : \A i \in 1 .. Len(buffers[l]) : buffers[l][i] \in Item
    BY DEF IInv, TypeOK
  <2> QED
    BY <2>1, <2>2, <1>1
(* What enters a buffer last entered the pipeline last, or workers raced.  *)
<1>8. ASSUME NEW i \in 1 .. Len(b)
      PROVE  ticket[b[i]] <= ticket'[z] \/ Parallel(2 * s)
  <2>1. b[i] \in Item /\ b[i] # z /\ at[b[i]] = "queued" /\ step[b[i]] = s
    BY <1>1, <1>7
  <2>2. CASE s = 1
    BY <2>1, <2>2, <1>2
  <2>3. CASE s # 1 /\ ticket[z] < ticket[b[i]]
    <3>1. OnItsWay(b[i]) /\ Place(b[i]) = 2 * s
      <4> DEFINE y == b[i]
      <4>1. ticket[y] > 0
        BY <2>1, <1>2 DEF IInv, Ticketed
      <4>2. y \in Item /\ at[y] = "queued" /\ step[y] = s
        BY <2>1
      <4> HIDE DEF y, s
      <4>3. OnItsWay(y) /\ Place(y) = 2 * s
        BY <4>1, <4>2 DEF OnItsWay, Place
      <4> QED
        BY <4>3 DEF y
    <3>2. Place(z) < Place(b[i])
      BY <3>1, <1>3, <1>4
    <3> QED
      BY <3>1, <3>2, <2>1, <2>3, <1>6 DEF IInv, OvertakenOnlyInParallel
  <2> QED
    BY <2>1, <2>2, <2>3, <1>2
<1>9. ASSUME NEW l \in Step, NEW i \in 1 .. Len(buffers'[l]), NEW j \in 1 .. Len(buffers'[l]), i < j
      PROVE  ticket'[buffers'[l][i]] <= ticket'[buffers'[l][j]] \/ Parallel(2 * l)
  <2>1. CASE l = s
    <3>1. /\ buffers'[l] = Append(b, z) /\ Len(Append(b, z)) = Len(b) + 1 /\ Len(b) \in Nat
          /\ Append(b, z)[Len(b) + 1] = z
          /\ \A m \in 1 .. Len(b) : Append(b, z)[m] = b[m]
      BY <2>1, <1>1 DEF IInv, TypeOK
    <3>2. i \in 1 .. Len(b) /\ (j \in 1 .. Len(b) \/ j = Len(b) + 1)
      BY <3>1, <1>9
    <3>3. \A m \in 1 .. Len(b) : b[m] \in Item \ {z} /\ ticket'[b[m]] = ticket[b[m]]
      BY <1>1, <1>2, <1>7
    <3>4. CASE j = Len(b) + 1
      BY <3>1, <3>2, <3>3, <3>4, <2>1, <1>8
    <3>5. CASE j \in 1 .. Len(b)
      <4>1. ticket[b[i]] <= ticket[b[j]] \/ Parallel(2 * l)
        BY <3>2, <3>5, <2>1, <1>9 DEF IInv, Sorted
      <4> QED
        BY <4>1, <3>1, <3>2, <3>3, <3>5
    <3> QED
      BY <3>2, <3>4, <3>5
  <2>2. CASE l # s
    <3>1. buffers'[l] = buffers[l]
      BY <2>2, <1>1 DEF IInv, TypeOK
    <3>2. buffers[l][i] \in Item \ {z} /\ buffers[l][j] \in Item \ {z}
      BY <3>1, <1>7
    <3>3. ticket[buffers[l][i]] <= ticket[buffers[l][j]] \/ Parallel(2 * l)
      BY <3>1, <1>9 DEF IInv, Sorted
    <3> QED
      BY <3>1, <3>2, <3>3, <1>2
  <2> QED
    BY <2>1, <2>2
<1>10. Sorted'
  BY <1>1, <1>9, ParallelStays DEF Sorted
<1>11. OvertakenOnlyInParallel'
  <2> SUFFICES ASSUME NEW x \in Item, NEW y \in Item,
                      OnItsWay(x)', OnItsWay(y)', ticket'[x] < ticket'[y], Place(x)' < Place(y)'
               PROVE  Parallel(Place(y))'
    BY DEF OvertakenOnlyInParallel
  <2>0. x # y
    <3>1. ticket'[x] \in Nat
      BY <1>2
    <3> QED
      BY <3>1
  <2>1. CASE x # z /\ y # z
    BY <2>1, <1>1, <1>2, Unmoved
  <2>2. CASE y = z
    <3>1. OnItsWay(x) /\ Place(x)' = Place(x) /\ Place(x) \in Nat /\ Place(x) >= 2
      BY <2>0, <2>2, <1>5, Places
    <3>2. s # 1
      BY <3>1, <2>2, <1>4
    <3>3. CASE Place(x) < 2 * s - 1
      <4>1. Parallel(2 * s - 1)
        BY <3>1, <3>2, <3>3, <2>0, <2>2, <1>2, <1>4, <1>6 DEF IInv, OvertakenOnlyInParallel
      <4> QED
        BY <4>1, <2>2, <1>1, <1>3, <1>4, ParallelGrows, ParallelStays
    <3>4. CASE Place(x) = 2 * s - 1
      <4>1. 2 * (s - 1) + 1 = 2 * s - 1 /\ 2 * (s - 1) + 1 < 2 * s /\ 2 * s \in Nat
        BY <1>3
      <4>2. x \in InHand(s - 1) /\ z \in InHand(s - 1)
        BY <4>1, <3>1, <3>2, <3>4, <1>3, <1>4, <1>6, Places
      <4>3. Parallel(2 * s)
        BY <4>1, <4>2, <3>2, <2>0, <2>2, <1>3, TwoHandsParallel
      <4> QED
        BY <4>3, <2>2, <1>1, <1>4, ParallelStays
    <3> QED
      BY <3>1, <3>3, <3>4, <2>2, <1>3, <1>4
  <2>3. CASE x = z
    <3>1. OnItsWay(y) /\ Place(y)' = Place(y) /\ ticket'[y] = ticket[y] /\ ticket[y] <= tickets
          /\ ticket[y] \in Nat /\ tickets \in Nat
      BY <2>0, <2>3, <1>2, <1>5
    <3>2. s # 1
      BY <3>1, <2>3, <1>2
    <3>3. Place(z) < Place(y)
      <4>1. Place(y) \in Nat
        BY <3>1, Places
      <4> QED
        BY <4>1, <3>1, <2>3, <1>3, <1>4
    <3>4. Parallel(Place(y))
      BY <3>1, <3>2, <3>3, <2>3, <1>2, <1>6 DEF IInv, OvertakenOnlyInParallel
    <3> QED
      BY <3>1, <3>4, <1>1, ParallelStays
  <2> QED
    BY <2>1, <2>2, <2>3
<1> QED
  BY <1>10, <1>11

(* Every step keeps the buffers sorted but for parallel steps.             *)
LEMMA OrderStep == IInv /\ [Next]_vars => Sorted' /\ OvertakenOnlyInParallel'
<1> SUFFICES ASSUME IInv, [Next]_vars PROVE Sorted' /\ OvertakenOnlyInParallel'
  OBVIOUS
<1>1. CASE UNCHANGED vars
  <2>1. Sorted'
    BY <1>1, ParallelStays DEF vars, IInv, Sorted
  <2>2. OvertakenOnlyInParallel'
    BY <1>1, Unmoved DEF vars, OvertakenOnlyInParallel
  <2> QED
    BY <2>1, <2>2
<1>2. ASSUME NEW k \in Step, Take(k) PROVE Sorted' /\ OvertakenOnlyInParallel'
  <2>1. Head(buffers[k]) \in Item
    BY <1>2 DEF IInv, TypeOK, Take
  <2> QED
    BY <1>2, <2>1, TakeOrder
<1> QED
  BY <1>1, <1>2, ExecuteOrder, PutOrder, HandOnOrder, EndOrder, NextCases

-----------------------------------------------------------------------------
(* IInv is an inductive invariant.                                         *)
THEOREM PipelineInvariant == FairSpec => []IInv
<1>1. Init => IInv
  <2> SUFFICES ASSUME Init PROVE IInv
    OBVIOUS
  <2>1. TypeOK
    <3>1. \A k \in Step : Workers(k) \in Nat
      BY PipelineAssumption DEF Workers
    <3>2. alive \in [Step -> Nat]
      BY <3>1 DEF Init
    <3>3. buffers \in [Step -> Seq(Item)]
      BY DEF Init
    <3>4. /\ at \in [Item -> {"idle", "putting", "queued", "working", "out", "lost"}]
          /\ outcome \in [Item -> {"none", "result", "exception"}]
          /\ ticket \in [Item -> Nat]
      BY DEF Init
    <3>5. step \in [Item -> Step] /\ tickets \in Nat
      BY StepsFact DEF Init
    <3> QED
      BY <3>2, <3>3, <3>4, <3>5 DEF Init, TypeOK
  <2>2. InOnePlace /\ Ticketed /\ Sorted /\ OvertakenOnlyInParallel
    BY DEF Init, InOnePlace, Ticketed, Sorted, OvertakenOnlyInParallel, OnItsWay
  <2>3. Counted
    <3>1. \A k \in Step : InHand(k) = {}
      BY DEF Init, InHand, Held
    <3>2. \A k \in Step : Cardinality(InHand(k)) = 0
      BY <3>1, FS_EmptySet
    <3>3. \A k \in Step : alive[k] = Workers(k) /\ Workers(k) \in Nat
      BY PipelineAssumption DEF Init, Workers
    <3>4. \A k \in Step : Len(buffers[k]) = 0 /\ MaxCapacity[k] \in Nat
      BY PipelineAssumption DEF Init
    <3> QED
      BY <3>1, <3>2, <3>3, <3>4 DEF Counted
  <2>4. ExceptionsSpareWorkers
    <3>1. {x \in Item : at[x] = "lost"} = {}
      BY DEF Init
    <3>2. Cardinality({}) = 0
      BY FS_EmptySet
    <3>3. class = "await" => \A k \in Step : alive[k] = Degree[k] /\ Degree[k] \in Nat
      BY PipelineAssumption DEF Init, Workers
    <3> QED
      BY <3>1, <3>2, <3>3, StepsFact DEF ExceptionsSpareWorkers
  <2> QED
    BY <2>1, <2>2, <2>3, <2>4 DEF IInv
<1>2. IInv /\ [Next]_vars => IInv'
  BY TypeStep, TicketStep, PlaceStep, CountStep, SpareStep, OrderStep DEF IInv
<1> QED
  BY <1>1, <1>2, PTL DEF FairSpec, Spec

(* TypeOK is an invariant.                                                 *)
THEOREM PipelineTypeCorrect == FairSpec => []TypeOK
<1>1. IInv => TypeOK
  BY DEF IInv
<1> QED
  BY <1>1, PipelineInvariant, PTL

(* InOnePlace: an item is neither duplicated nor, while it has no outcome, *)
(* misplaced.                                                              *)
THEOREM ItemsAreInOnePlace == FairSpec => []InOnePlace
<1>1. IInv => InOnePlace
  BY DEF IInv
<1> QED
  BY <1>1, PipelineInvariant, PTL

(* StepIsBounded: back-pressure bounds every step by its parameters.       *)
THEOREM StepsAreBounded == FairSpec => []StepIsBounded
<1>1. IInv => StepIsBounded
  <2> SUFFICES ASSUME IInv, class = "parallelism", NEW k \in Step
               PROVE  Len(buffers[k]) + Cardinality(InHand(k)) <= MaxCapacity[k] + Degree[k]
    BY DEF StepIsBounded
  <2>1. Len(buffers[k]) <= MaxCapacity[k] /\ Cardinality(InHand(k)) <= alive[k] /\ alive[k] <= Degree[k]
    BY DEF IInv, Counted, Workers
  <2>2. Len(buffers[k]) \in Nat /\ MaxCapacity[k] \in Nat /\ Degree[k] \in Nat /\ alive[k] \in Nat
    BY PipelineAssumption DEF IInv, TypeOK
  <2> QED
    BY <2>1, <2>2, HandsAreFinite
<1> QED
  BY <1>1, PipelineInvariant, PTL

(* OvertakenOnlyInParallel: steps of one worker keep the order.            *)
THEOREM OneWorkerKeepsOrder == FairSpec => []OvertakenOnlyInParallel
<1>1. IInv => OvertakenOnlyInParallel
  BY DEF IInv
<1> QED
  BY <1>1, PipelineInvariant, PTL

(* ExceptionsSpareWorkers: the try block keeps the workers alive.          *)
THEOREM ExceptionCostsNoWorker == FairSpec => []ExceptionsSpareWorkers
<1>1. IInv => ExceptionsSpareWorkers
  BY DEF IInv
<1> QED
  BY <1>1, PipelineInvariant, PTL

-----------------------------------------------------------------------------
(* Back-pressure                                                           *)

(* Of finitely many things with a number each, one has the greatest: of    *)
(* the sets of those with a greater one, a smallest is empty.              *)
LEMMA GreatestExists ==
  ASSUME NEW A, IsFiniteSet(A), A # {}, NEW f \in [A -> Nat]
  PROVE  \E x \in A : \A y \in A : f[y] <= f[x]
<1> DEFINE Above(x) == {y \in A : f[y] > f[x]}
           T == {Above(x) : x \in A}
<1>1. IsWellFoundedOn(StrictSubsetOrdering(A), FiniteSubsetsOf(A))
  BY FS_StrictSubsetOrderingWellFounded
<1>2. FiniteSubsetsOf(A) = SUBSET A
  BY FS_FiniteSubsetsOfFinite
<1>3. T \subseteq FiniteSubsetsOf(A) /\ T # {}
  <2>1. \A x \in A : Above(x) \in SUBSET A
    OBVIOUS
  <2>2. \A x \in A : Above(x) \in FiniteSubsetsOf(A)
    BY <1>2, <2>1
  <2>3. PICK x \in A : TRUE
    OBVIOUS
  <2>4. Above(x) \in T
    BY <2>3
  <2> QED
    BY <2>2, <2>4, Zenon
<1> HIDE DEF T
<1>4. PICK S \in T : \A U \in T : ~ (<<U, S>> \in StrictSubsetOrdering(A))
  BY <1>1, <1>3, WFMin
<1>5. PICK x \in A : S = Above(x)
  BY <1>4 DEF T
<1>6. ASSUME NEW y \in A, f[y] > f[x] PROVE FALSE
  <2>1. Above(y) \in T
    BY DEF T
  <2>2. Above(y) \subseteq S /\ y \in S /\ y \notin Above(y)
    BY <1>5, <1>6
  <2>3. <<Above(y), S>> \in StrictSubsetOrdering(A)
    BY <2>2, <1>5 DEF StrictSubsetOrdering
  <2> QED
    BY <1>4, <2>1, <2>3
<1>7. \A y \in A : f[y] <= f[x]
  BY <1>6
<1> QED
  BY <1>7

(* NeverStuck: the item that is furthest on can move. A worker is free to  *)
(* take it, since what a worker of its step holds is further on, and there *)
(* is room for it, since what is in the buffer before it is further on.    *)
THEOREM BackPressureNeverBlocksAll == FairSpec => []NeverStuck
<1>1. IInv => NeverStuck
  <2> SUFFICES ASSUME IInv, NEW x \in Item,
                      at[x] \in {"putting", "queued", "working"},
                      \A k \in step[x] .. Steps : alive[k] > 0
               PROVE  \E y \in Item : step[y] >= step[x] /\ Movable(y)
    BY DEF NeverStuck
  <2> DEFINE A == {y \in Item : at[y] \in {"putting", "queued", "working"} /\ step[y] >= step[x]}
             f == [y \in A |-> Place(y)]
  <2>0. /\ step \in [Item -> Step] /\ Step \subseteq Nat /\ Steps \in Nat
        /\ \A k \in Step : k <= Steps
        /\ buffers \in [Step -> Seq(Item)]
    BY StepsFact DEF IInv, TypeOK, Step
  <2>1. IsFiniteSet(A) /\ A # {}
    <3>0. step[x] \in Step
      BY <2>0
    <3>1. step[x] \in Nat /\ step[x] >= step[x]
      <4>1. step[x] \in Nat
        BY <3>0, <2>0
      <4>2. step[x] >= step[x]
        BY <4>1
      <4> QED
        BY <4>1, <4>2
    <3>2. A \subseteq Item /\ x \in A
      BY <3>1
    <3> QED
      BY <3>2, PipelineAssumption, FS_Subset
  <2>2. f \in [A -> Nat]
    <3>1. ASSUME NEW y \in A PROVE Place(y) \in Nat
      <4>1. step[y] \in Nat /\ step[y] >= 1
        BY <2>0 DEF Step
      <4> QED
        BY <4>1 DEF Place
    <3> QED
      BY <3>1, Zenon
  <2>3. PICK y \in A : \A z \in A : f[z] <= f[y]
    BY <2>1, <2>2, GreatestExists
  <2>4. /\ y \in Item /\ at[y] \in {"putting", "queued", "working"} /\ step[y] >= step[x]
        /\ \A z \in A : Place(z) <= Place(y)
        /\ step[y] \in Step /\ step[y] \in Nat
    BY <2>0, <2>3
  <2>5. CASE at[y] = "working"
    BY <2>4, <2>5 DEF Movable
  <2>6. CASE at[y] = "queued"
    <3>1. InHand(step[y]) = {}
      <4> SUFFICES ASSUME NEW z \in Item, Held(z, step[y]) PROVE FALSE
        BY DEF InHand
        <4>1. z \in A /\ Place(z) = 2 * step[y] + 1
        <5>1. step[z] \in Nat /\ step[x] \in Nat /\ step[y] \in Nat
          BY <2>0
        <5>2. CASE at[z] = "working" /\ step[z] = step[y]
          BY <2>4, <5>1, <5>2 DEF Place
        <5>3. CASE at[z] = "putting" /\ step[z] = step[y] + 1
          BY <2>4, <5>1, <5>3 DEF Place
        <5> QED
          BY <5>2, <5>3 DEF Held
      <4>2. Place(y) = 2 * step[y]
        BY <2>6 DEF Place
      <4> QED
        BY <2>4, <4>1, <4>2
    <3>2. Cardinality(InHand(step[y])) = 0
      BY <3>1, FS_EmptySet
    <3>3. alive[step[y]] > 0
      BY <2>0, <2>4
    <3> QED
      BY <2>4, <2>6, <3>2, <3>3 DEF Movable
  <2>7. CASE at[y] = "putting"
    <3>1. ASSUME ~ HasRoom(step[y]) PROVE FALSE
      <4>1. buffers[step[y]] \in Seq(Item) /\ Len(buffers[step[y]]) \in Nat
        BY <2>0, <2>4
      <4>2. 1 \in 1 .. Len(buffers[step[y]])
        BY <2>4, <3>1, <4>1, PipelineAssumption DEF HasRoom
      <4> DEFINE z == buffers[step[y]][1]
      <4>3. z \in Item /\ at[z] = "queued" /\ step[z] = step[y]
        BY <2>4, <4>1, <4>2 DEF IInv, InOnePlace
      <4> HIDE DEF z
      <4>4. z \in A /\ Place(z) = 2 * step[y]
        BY <2>4, <4>3 DEF Place
      <4>5. Place(y) = 2 * step[y] - 1
        BY <2>7 DEF Place
      <4> QED
        BY <2>4, <4>4, <4>5
    <3> QED
      BY <2>4, <2>7, <3>1 DEF Movable
  <2> QED
    BY <2>4, <2>5, <2>6, <2>7
<1> QED
  BY <1>1, PipelineInvariant, PTL

-----------------------------------------------------------------------------
(* What exceptions cost                                                    *)

LostAt(k) == {x \in Item : at[x] = "lost" /\ step[x] = k}

(* In every class, each item that an exception took with it cost a worker  *)
(* of its step its life: a step loses no more items than it had workers,   *)
(* and what comes after that waits, or blocks its callers, but is not lost.*)
LossCostsWorker == \A k \in Step : alive[k] + Cardinality(LostAt(k)) <= Workers(k)

(* An item that goes on without being lost leaves the counts as they are.  *)
LEMMA LostStays ==
  ASSUME IInv, LossCostsWorker, class' = class, alive' = alive,
         \A y \in Item : at'[y] = "lost" <=> at[y] = "lost",
         \A y \in Item : at[y] = "lost" => step'[y] = step[y]
  PROVE  LossCostsWorker'
<1>1. \A k \in Step : {y \in Item : at'[y] = "lost" /\ step'[y] = k} = LostAt(k)
  BY DEF LostAt
<1> QED
  BY <1>1 DEF LossCostsWorker, LostAt, Workers

(* Every step keeps LossCostsWorker.                                       *)
LEMMA LossStep == IInv /\ LossCostsWorker /\ [Next]_vars => LossCostsWorker'
<1> SUFFICES ASSUME IInv, LossCostsWorker, [Next]_vars PROVE LossCostsWorker'
  OBVIOUS
<1>0. TypeOK
  BY DEF IInv
<1>a. \A k \in Step : IsFiniteSet(LostAt(k)) /\ Cardinality(LostAt(k)) \in Nat
  <2> SUFFICES ASSUME NEW k \in Step
               PROVE  IsFiniteSet(LostAt(k)) /\ Cardinality(LostAt(k)) \in Nat
    OBVIOUS
  <2>1. LostAt(k) \subseteq Item
    BY DEF LostAt
  <2> QED
    BY <2>1, PipelineAssumption, FS_Subset, FS_CardinalityType
<1>1. CASE UNCHANGED vars
  BY <1>1, LostStays DEF vars
<1>2. ASSUME NEW x \in Item, Execute(x) \/ Put(x) \/ HandOn(x) PROVE LossCostsWorker'
  <2>1. /\ alive' = alive /\ class' = class
        /\ at[x] \in {"idle", "putting", "working"}
        /\ at' = [at EXCEPT ![x] = "putting"] \/ at' = [at EXCEPT ![x] = "queued"]
        /\ step' = step \/ step' = [step EXCEPT ![x] = @ + 1]
    BY <1>2 DEF Execute, Put, UnboundedPut, HandOn
  <2>2. \A y \in Item : at'[y] = "lost" <=> at[y] = "lost"
    BY <2>1, <1>0 DEF TypeOK
  <2>3. \A y \in Item : at[y] = "lost" => step'[y] = step[y]
    BY <2>1, <1>0 DEF TypeOK
  <2> QED
    BY <2>1, <2>2, <2>3, LostStays
<1>3. ASSUME NEW k \in Step, Take(k) PROVE LossCostsWorker'
  <2> DEFINE h == Head(buffers[k])
  <2>1. h \in Item /\ at[h] = "queued"
    BY <1>3 DEF IInv, TypeOK, InOnePlace, Take
  <2>2. alive' = alive /\ class' = class /\ step' = step /\ at' = [at EXCEPT ![h] = "working"]
    BY <1>3 DEF Take
  <2>3. \A y \in Item : at'[y] = "lost" <=> at[y] = "lost"
    BY <2>1, <2>2, <1>0 DEF TypeOK
  <2> QED
    BY <2>2, <2>3, LostStays
<1>4. ASSUME NEW x \in Item, NEW a \in {"out", "lost"}, NEW o \in {"none", "result", "exception"},
             Ends(x, a, o)
      PROVE  LossCostsWorker'
  <2>1. /\ at[x] = "working" /\ at' = [at EXCEPT ![x] = a]
        /\ class' = class /\ step' = step /\ step[x] \in Step
    BY <1>4, <1>0 DEF Ends, TypeOK
  <2>2. CASE a = "out" /\ alive' = alive
    <3>1. \A y \in Item : at'[y] = "lost" <=> at[y] = "lost"
      BY <2>1, <2>2, <1>0 DEF TypeOK
    <3> QED
      BY <2>1, <2>2, <3>1, LostStays
  <2>3. CASE alive' = [alive EXCEPT ![step[x]] = alive[step[x]] - 1]
    <3> SUFFICES ASSUME NEW k \in Step
                 PROVE  alive'[k] + Cardinality(LostAt(k)') <= Workers(k)
      BY <2>1 DEF LossCostsWorker, Workers
    <3>1. /\ alive[k] \in Nat /\ Cardinality(LostAt(k)) \in Nat /\ Workers(k) \in Nat
          /\ alive[k] + Cardinality(LostAt(k)) <= Workers(k)
      BY <1>0, <1>a, PipelineAssumption DEF TypeOK, LossCostsWorker, Workers
    <3>2. CASE k = step[x]
      <4>1. LostAt(k)' \in {LostAt(k), LostAt(k) \cup {x}}
        BY <2>1, <1>0 DEF LostAt, TypeOK
      <4>2. x \notin LostAt(k)
        BY <2>1 DEF LostAt
      <4>3. Cardinality(LostAt(k) \cup {x}) = Cardinality(LostAt(k)) + 1
        BY <1>a, <4>2, FS_AddElement
      <4>4. alive'[k] = alive[k] - 1
        BY <2>3, <3>2, <1>0 DEF TypeOK
      <4>5. Cardinality(LostAt(k)') \in {Cardinality(LostAt(k)), Cardinality(LostAt(k)) + 1}
        <5>1. CASE LostAt(k)' = LostAt(k)
          BY <5>1
        <5>2. CASE LostAt(k)' = LostAt(k) \cup {x}
          BY <4>3, <5>2
        <5> QED
          BY <4>1, <5>1, <5>2
      <4> DEFINE n == Cardinality(LostAt(k))
                 m == Cardinality(LostAt(k)')
                 l == alive[k]
                 w == Workers(k)
      <4>6. n \in Nat /\ l \in Nat /\ w \in Nat /\ l + n <= w /\ m \in {n, n + 1} /\ alive'[k] = l - 1
        BY <3>1, <4>4, <4>5
      <4> HIDE DEF n, m, l, w
      <4>7. (l - 1) + m <= w
        BY <4>6
      <4> QED
        BY <4>6, <4>7 DEF m, w
    <3>3. CASE k # step[x]
      <4>1. LostAt(k)' = LostAt(k)
        BY <2>1, <3>3, <1>0 DEF LostAt, TypeOK
      <4>2. alive'[k] = alive[k]
        BY <2>3, <3>3, <1>0 DEF TypeOK
      <4> QED
        BY <3>1, <4>1, <4>2
    <3> QED
      BY <3>2, <3>3
  <2> QED
    BY <1>4, <2>2, <2>3 DEF Ends
<1> QED
  BY <1>1, <1>2, <1>3, <1>4, NextCases

(* LossCostsWorker: whatever throws, and in whichever class, no item is    *)
(* lost for free.                                                          *)
THEOREM EachLossCostsAWorker == FairSpec => []LossCostsWorker
<1>1. Init => LossCostsWorker
  <2> SUFFICES ASSUME Init, NEW k \in Step PROVE alive[k] + Cardinality(LostAt(k)) <= Workers(k)
    BY DEF LossCostsWorker
  <2>1. LostAt(k) = {}
    BY DEF Init, LostAt
  <2>2. Cardinality(LostAt(k)) = 0
    BY <2>1, FS_EmptySet
  <2>3. alive[k] = Workers(k) /\ Workers(k) \in Nat
    BY PipelineAssumption DEF Init, Workers
  <2> QED
    BY <2>2, <2>3
<1> QED
  BY <1>1, LossStep, PipelineInvariant, PTL DEF FairSpec, Spec

=============================================================================
