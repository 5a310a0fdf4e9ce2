------------------------------ MODULE Stepwise ------------------------------
(***************************************************************************)
(* Handlers that change a context do so one call after the other.          *)
(***************************************************************************)

\* The value of a call, and what is done with it: Then(e, LAMBDA x : b) is b
\* for x the value of e.
Then(value, Rest(_)) == Rest(value)

\* The same, for a value TLC is to compute before the rest.
After(value, Rest(_)) == CHOOSE r \in {Rest(x) : x \in {value}} : TRUE
=============================================================================
