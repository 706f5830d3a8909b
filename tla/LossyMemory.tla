----------------------------- MODULE LossyMemory -----------------------------
(***************************************************************************)
(* What the in-memory repository promises its callers: a set of keys that  *)
(* may lose any of them at any time and answers as if every operation took *)
(* effect at one moment between its call and its return.  An addition      *)
(* brings its own keys and no other, all at once and once; a removal has a *)
(* moment at which its key is not there, or at which there are copies of   *)
(* it, one of which it removed: some addition was given the key twice.     *)
(* Those of IdempotentConsumer bring one key each, and it takes its        *)
(* memories to be such sets.                                               *)
(***************************************************************************)
CONSTANTS Caller, Key

VARIABLES
  keys,     \* what the memory knows
  copied,   \* the keys it may have copies of
  adding,   \* the additions that have yet to take effect
  removing  \* the removals that have yet to: caller and key

vars == <<keys, copied, adding, removing>>

Addition == [by : Caller, keys : SUBSET Key, twice : SUBSET Key]

Init == keys = {} /\ copied = {} /\ adding = {} /\ removing = {}

BeginAdd(a) ==
  /\ adding' = adding \cup {a}
  /\ UNCHANGED <<keys, copied, removing>>

BeginRemove(c, k) ==
  /\ removing' = removing \cup {<<c, k>>}
  /\ UNCHANGED <<keys, copied, adding>>

(* The keys may be lost at once, and others be overwritten by them.        *)
Add(a) ==
  /\ a \in adding
  /\ adding' = adding \ {a}
  /\ keys' \subseteq keys \cup a.keys
  /\ copied' \subseteq copied \cup a.twice
  /\ UNCHANGED removing

(* Keys are lost or removed, and removals of what is not there, or was     *)
(* there in copies, are over.                                              *)
Forget ==
  /\ keys' \subseteq keys
  /\ copied' \subseteq copied
  /\ removing' \subseteq removing
  /\ \A r \in removing \ removing' : r[2] \in keys' => r[2] \in copied
  /\ UNCHANGED adding

Next ==
  \/ \E a \in Addition : BeginAdd(a) \/ Add(a)
  \/ \E c \in Caller, k \in Key : BeginRemove(c, k)
  \/ Forget

Spec == Init /\ [][Next]_vars

=============================================================================
