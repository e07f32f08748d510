--------------------------- MODULE MCHttpRequests ---------------------------
(***************************************************************************)
(* HttpRequests with requests that only their place in time tells apart.   *)
(***************************************************************************)
EXTENDS HttpRequests, TLC

RequestSymmetry == Permutations(Requests)

=============================================================================
