------------------------------ MODULE Failover ------------------------------
(***************************************************************************)
(* What the caller of a router of providers may rely on.                   *)
(*                                                                         *)
(*  - A passing trouble of one provider ends the call only when every      *)
(*    registered provider had one, or when there is no failing over.       *)
(*  - A provider that was in trouble is not asked again.                   *)
(*  - What a provider said is repeated to that provider only.              *)
(*  - The caller is told to try again exactly after passing troubles and   *)
(*    after answers nobody could use.                                      *)
(***************************************************************************)
CONSTANT Names

VARIABLES
    registered,  \* the providers that can be asked
    enabled,     \* whether the call may fail over
    trouble,     \* what became of each provider
    heard,       \* the providers whose words are in the conversation
    ending       \* "open", "answered", "again" or "gave up"

vars == <<registered, enabled, trouble, heard, ending>>

Init == /\ registered \subseteq Names /\ enabled \in BOOLEAN
        /\ trouble = [p \in Names |-> "none"]
        /\ heard = {} /\ ending = "open"

\* Provider p may be talked to: it had no trouble and no other is in between.
InCharge(p) == /\ ending = "open" /\ trouble[p] = "none" /\ heard \subseteq {p}

\* Its answer is of no use, it is asked to correct it.
Hear(p) == /\ InCharge(p) /\ p \in registered
           /\ heard' = {p}
           /\ UNCHANGED <<registered, enabled, trouble, ending>>

Answer(p) == /\ InCharge(p) /\ p \in registered
             /\ ending' = "answered"
             /\ UNCHANGED <<registered, enabled, trouble, heard>>

\* The call ends, or goes on with another provider.
Endings(t) ==
    IF t = "permanent" THEN {"gave up"}
    ELSE IF t = "unusable" \/ ~enabled THEN {"again"}
    ELSE IF \A q \in registered : trouble'[q] = "transient" THEN {"open", "again"}
    ELSE {"open"}

Trouble(p, t) == /\ InCharge(p)
                 /\ p \in registered \/ t = "permanent"
                 /\ trouble' = [trouble EXCEPT ![p] = t]
                 /\ heard' = {}
                 /\ ending' \in Endings(t)
                 /\ UNCHANGED <<registered, enabled>>

\* Another call.
Again == /\ ending # "open"
         /\ ending' = "open" /\ heard' = {}
         /\ trouble' = [p \in Names |-> "none"]
         /\ UNCHANGED <<registered, enabled>>

Next ==
    \/ Again
    \/ \E p \in Names :
          \/ Hear(p) \/ Answer(p)
          \/ \E t \in {"transient", "unusable", "permanent"} : Trouble(p, t)

Spec == Init /\ [][Next]_vars

=============================================================================
