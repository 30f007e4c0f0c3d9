---------------------------- MODULE RequestQuota ----------------------------
(***************************************************************************)
(* What a sliding window promises: in the last Window units of time a      *)
(* client was granted at most Limit requests, and a request is refused     *)
(* only when that many were granted.  Nothing older is remembered.         *)
(***************************************************************************)
EXTENDS Integers, FiniteSets

CONSTANTS Keys, Limit, Window

VARIABLES
    now,     \* the time
    recent,  \* the requests granted to each key in the window: <<time, number>>
    answer   \* the answer being given, [key, granted], or the empty set

InWindow(stamps, t) == {s \in stamps : s[1] > t - Window}

Init == /\ now = 0
        /\ recent = [k \in Keys |-> {}]
        /\ answer = {}

Tick == /\ now' = now + 1
        /\ recent' = [k \in Keys |-> InWindow(recent[k], now + 1)]
        /\ UNCHANGED answer

Grant(k) == /\ Cardinality(recent[k]) < Limit[k]
            /\ \E n \in 1 .. Limit[k] :
                  /\ <<now, n>> \notin recent[k]
                  /\ recent' = [recent EXCEPT ![k] = @ \cup {<<now, n>>}]
            /\ answer' = {[key |-> k, granted |-> TRUE]}
            /\ UNCHANGED now

Refuse(k) == /\ Cardinality(recent[k]) >= Limit[k]
             /\ answer' = {[key |-> k, granted |-> FALSE]}
             /\ UNCHANGED <<now, recent>>

\* An answer was given, or a request came that no quota is kept for.
Other == /\ answer' = {}
         /\ UNCHANGED <<now, recent>>

Next == Tick \/ Other \/ \E k \in Keys : Grant(k) \/ Refuse(k)

Spec == Init /\ [][Next]_<<now, recent, answer>>
=============================================================================
