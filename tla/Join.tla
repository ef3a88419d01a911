-------------------------------- MODULE Join --------------------------------
(***************************************************************************)
(* What a join promises the client that calls its getNextTuple: every pair *)
(* of tuples that satisfies the condition is returned once, and QE_EOF is  *)
(* returned when all have been, however often the client asks again.       *)
(***************************************************************************)
EXTENDS Sequences

VARIABLES
  matching,     \* the pairs to be returned
  given,        \* the pairs returned so far, in order
  ended         \* whether the last call returned QE_EOF

Init == given = << >> /\ ended = FALSE

Return ==
  /\ \E p \in matching :
       /\ \A i \in DOMAIN given : given[i] # p
       /\ given' = Append(given, p)
  /\ ended' = FALSE
  /\ UNCHANGED matching

End ==
  /\ \A p \in matching : \E i \in DOMAIN given : given[i] = p
  /\ ended' = TRUE
  /\ UNCHANGED <<matching, given>>

Next == Return \/ End

Spec == Init /\ [][Next]_<<matching, given, ended>>
=============================================================================
