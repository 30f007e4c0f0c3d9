--------------------------- MODULE MCRunService ---------------------------
(***************************************************************************)
(* RunService for TLC, with one subscriber, one canceller, the synchronous *)
(* client with its deadline, and two reviewers.                            *)
(***************************************************************************)
EXTENDS RunService

\* Decisions overlap where nothing else suspends or fails; a run in an SQL store
\* has one.
SomeDeciders ==
    [s \in Stores |-> IF s = "memory" THEN Reviewers
                      ELSE {CHOOSE d \in Reviewers : TRUE}]
=============================================================================
