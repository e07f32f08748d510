-------------------------- MODULE MCContextWindow --------------------------
(* Instances of ContextWindow for TLC.                                     *)
EXTENDS ContextRefinement, TLC

Message(tok, imp, ground, tr) ==
  [tokens |-> tok, importance |-> imp, grounding |-> ground, tier |-> tr]

\* A grounding message of the lowest tier, an important message of the default
\* tier, and an unimportant, longer one of the lowest.
ThreeKinds ==
  {Message(1, 60, TRUE, 3), Message(1, 50, FALSE, 2), Message(2, 10, FALSE, 3)}

\* The two protected messages, by grounding and by tier, and one that may go.
GuardedKinds ==
  {Message(1, 60, TRUE, 3), Message(1, 50, FALSE, 0), Message(2, 10, FALSE, 3)}

\* No thread is distinguished.
ThreadSymmetry == Permutations(Threads)
=============================================================================
