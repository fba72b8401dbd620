-------------------------- MODULE MCDurableStream --------------------------
(***************************************************************************)
(* Values of the constants of DurableStream for model checking.            *)
(***************************************************************************)
EXTENDS DurableStream

CONSTANTS d1, d2

\* Two payloads: enough to see one record replaced by another.
MCData == {d1, d2}

\* The faults storage and process can show while no write of a block is lost.
BlocksKept == {"crash", "lost_record", "unreported"}

\* Every failure of a write, and no restart.
WritesFail == FaultKinds \ {"crash"}
=============================================================================
