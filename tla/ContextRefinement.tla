-------------------------- MODULE ContextRefinement -------------------------
(***************************************************************************)
(* ContextWindow implements AtomicWindow: used by one caller at a time,    *)
(* the pruning loop, which measures the window again before every victim,  *)
(* does what a single step of an add should.                               *)
(***************************************************************************)
EXTENDS ContextWindow

Plain == INSTANCE AtomicWindow WITH shared <- overlapped

\* The add takes effect when the message is appended: what its loop has still
\* to prune counts as pruned.
Settled ==
  IF \E t \in Threads : pc[t] \in Settling
    THEN pruned \cup Plain!Victims(attr, Active)
    ELSE pruned

Atomic == INSTANCE AtomicWindow WITH pruned <- Settled, shared <- overlapped

\* add prunes all and only the messages that must go, in the order of
\* pruning_score, however the loop gets there; summarization, propagation and
\* clear touch what they say, as long as calls do not overlap.
ImplementsAtomicWindow == Atomic!Spec

=============================================================================
