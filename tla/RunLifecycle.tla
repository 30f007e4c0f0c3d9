--------------------------- MODULE RunLifecycle ---------------------------
(***************************************************************************)
(* What a run promises to the client that started it, without the graph:   *)
(* it executes; it may stop to wait for a reviewer, whose decision lets it *)
(* execute again; it ends completed or failed, once and for all.           *)
(***************************************************************************)

VARIABLE phase

Init == phase = "executing"

\* The work in progress stops, with a result or with a question.
Stop ==
    /\ phase = "executing"
    /\ phase' \in {"awaiting_review", "completed", "failed"}

\* A reviewer decides.
Decide ==
    /\ phase = "awaiting_review"
    /\ phase' = "executing"

Next == Stop \/ Decide

Spec == Init /\ [][Next]_phase

\* Work that runs stops, and a reviewer who is asked decides.
FairSpec == Spec /\ WF_phase(Stop) /\ WF_phase(Decide)
=============================================================================
