------------------------------ MODULE ReadSide -------------------------------
(***************************************************************************)
(* The requests of the read side.  A request only reads: the state is which    *)
(* surface is asked, the input (the request with the rows it finds), and       *)
(* whether the answer is due.                                                  *)
(***************************************************************************)
VARIABLES what, input, done

\* A name that is not given.
None == ""

vars == <<what, input, done>>

\* The client sends its input; the properties speak of what comes of it.
Submit(w) == what = w /\ ~done /\ done' = TRUE /\ UNCHANGED <<what, input>>
=============================================================================
