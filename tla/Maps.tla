-------------------------------- MODULE Maps --------------------------------
(* Partial maps, as functions. *)
EXTENDS Functions

\* The map f, leading from x to y too.
With(f, x, y) == [z \in DOMAIN f \cup {x} |-> IF z = x THEN y ELSE f[z]]
=============================================================================
