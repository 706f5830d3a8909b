------------------------- MODULE MCScheduledMessage -------------------------
(* Instances of ScheduledMessage for TLC: messages that wait for less and  *)
(* for longer than their parameters live, on a machine west of Greenwich.  *)
EXTENDS ScheduledMessage

Whole(w, f) == [complete |-> TRUE, wait |-> w, form |-> f, key |-> "json", body |-> "json"]

Requests ==
  {Whole(0, "utc"), Whole(1, "utc"), Whole(4, "utc"), Whole(3, "offset"),
   [Whole(1, "utc") EXCEPT !.body = "absent"],
   [Whole(1, "utc") EXCEPT !.key = "text"],
   [Whole(1, "utc") EXCEPT !.key = "absent"],
   [Whole(1, "utc") EXCEPT !.complete = FALSE]}

=============================================================================
