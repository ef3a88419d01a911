------------------------------ MODULE JoinKeys ------------------------------
(* What the equality joins of the query engine (qe.cc) compare. *)

CONSTANTS
  Keys,         \* join keys, as the bytes that are hashed and compared
  NULL          \* the null value
=============================================================================
