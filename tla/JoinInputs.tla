----------------------------- MODULE JoinInputs -----------------------------
(***************************************************************************)
(* What the joins of the query engine (qe.cc) share: two inputs whose      *)
(* tuples are told apart by their positions, a condition that compares an  *)
(* attribute of each, and a client that is given pairs.  Of the contents   *)
(* of a tuple the join key and, on the left, the size matter.              *)
(***************************************************************************)
EXTENDS JoinKeys, Integers, Sequences

VARIABLES
  left, right,  \* the tuples leftIn and a scan of the right table return
  leftRead,     \* how many left tuples have been read
  leftEnd,      \* leftIn has returned QE_EOF
  given,        \* history: the pairs returned so far, in order
  ended         \* whether the last call returned QE_EOF

inputs == <<left, right>>

Key       == Keys \cup {NULL}
LeftTuple == [key : Key, size : Nat \ {0}]

InputsTypeOK == left \in Seq(LeftTuple) /\ right \in Seq(Key)

Pairs == (DOMAIN left) \X (DOMAIN right)

\* A null key matches nothing.
Matching == {p \in Pairs : left[p[1]].key = right[p[2]] /\ right[p[2]] # NULL}
=============================================================================
