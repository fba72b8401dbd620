--------------------------- MODULE MCStreamActor ---------------------------
(***************************************************************************)
(* Values of the constants of StreamActor for model checking.              *)
(***************************************************************************)
EXTENDS StreamActor, TLC

CONSTANTS a1, a2, a3, f1, f2

TwoAppends == {a1, a2}
ThreeAppends == {a1, a2, a3}
OneFollower == {f1}
TwoFollowers == {f1, f2}

\* Append requests differ in nothing but their name; so do followers.
Interchangeable == Permutations(ThreeAppends) \cup Permutations(TwoFollowers)

\* Storage may fail or restart as long as no block is lost.
BlocksKept == {"crash", "lost_record", "unreported"}

\* Every failure of a write, and no restart.
WritesFail == {"cut_creation", "lost_record", "lost_block", "unreported"}
=============================================================================
