---------------------------- MODULE AgentsProofs ----------------------------
(***************************************************************************)
(* Proofs about Agents: the agents with the router, the registry and the   *)
(* document store they call keep their types, the store stays searchable   *)
(* under them, and the router keeps its promise to them.                   *)
(*                                                                         *)
(* The invariants of the router and of the store are kept by every agent,  *)
(* because an agent either leaves them alone or takes one of their steps;  *)
(* what the agents add is that a call is forgotten only when it has ended. *)
(*                                                                         *)
(* The validation of plans is right for plans of any size: ValidDag, which *)
(* counts the tasks that Kahn's algorithm visits, holds of exactly the     *)
(* plans that can be executed.                                             *)
(***************************************************************************)
EXTENDS Agents, RouterProofs, VectorStoreProofs

AgentTypeOK ==
    /\ agent \in {"planner", "validator", "tool", "retrieval"}
    /\ tools \subseteq Tools /\ waiting \in Tools \cup {NONE}
    /\ plan \in Seq([id : TaskIds, dependencies : Seq(TaskIds)])
    /\ result \in AgentStatus \cup {"none", "raised"}

AgentsInvariant == RouterInvariant /\ StoreInvariant /\ AgentTypeOK

\* The router's part of a step: one of its own steps, or a call is forgotten.
RouterPart == RouterInvariant' /\ [Promise!Next]_Promise!vars

\* What a failed execution returns is a status.
LEMMA FailureStatus ==
    ASSUME NEW retryable
    PROVE  Failure(retryable) \in AgentStatus
  BY DEF Failure, AgentStatus

\* A step that leaves the router and its call alone.
LEMMA RouterAlone ==
    ASSUME RouterInvariant, UNCHANGED routerVars
    PROVE  RouterPart
  BY RouterStepKeeps DEF RouterPart

\* A step that leaves the store alone.
LEMMA StoreAlone ==
    ASSUME StoreInvariant, UNCHANGED storeVars
    PROVE  StoreInvariant'
  BY StoreStepKeeps

\* The first state.
LEMMA AgentsStart == Init => AgentsInvariant
  <1> SUFFICES ASSUME Init PROVE AgentsInvariant
    OBVIOUS
  <1>1. RouterInvariant /\ StoreInvariant
    BY RouterStarts, StoreStarts DEF Init
  <1>2. AgentTypeOK
    BY DEF Init, AgentTypeOK
  <1> QED BY <1>1, <1>2 DEF AgentsInvariant

\* The planner and the validator with the router.
LEMMA LLMAgentsKeep ==
    ASSUME AgentsInvariant,
           \/ AsksRouter \/ RouterStep \/ RouterRaised \/ PlannerReturns
           \/ \E human \in BOOLEAN : ValidatorReturns(human)
    PROVE  AgentsInvariant' /\ RouterPart
  <1> USE DEF AgentsInvariant
  <1>1. CASE AsksRouter
    <2>1. Generate(TRUE) /\ UNCHANGED storeVars /\ UNCHANGED agentVars
      BY <1>1 DEF AsksRouter
    <2>2. RouterPart
      BY <2>1, GenerateKeeps DEF RouterPart
    <2>3. AgentTypeOK'
      BY <2>1 DEF AgentTypeOK, agentVars
    <2> QED BY <2>1, <2>2, <2>3, StoreAlone DEF RouterPart
  <1>2. CASE RouterStep
    <2>1. Reply /\ UNCHANGED storeVars /\ UNCHANGED agentVars
      BY <1>2 DEF RouterStep
    <2>2. RouterPart
      BY <2>1, ReplyKeeps DEF RouterPart
    <2>3. AgentTypeOK'
      BY <2>1 DEF AgentTypeOK, agentVars
    <2> QED BY <2>1, <2>2, <2>3, StoreAlone DEF RouterPart
  <1>3. CASE RouterRaised
    <2>1. UNCHANGED routerVars /\ UNCHANGED storeVars
      BY <1>3 DEF RouterRaised, Returns, routerVars
    <2>2. AgentTypeOK'
      BY <1>3, FailureStatus DEF RouterRaised, Returns, AgentTypeOK
    <2> QED BY <2>1, <2>2, StoreAlone, RouterAlone DEF RouterPart
  <1>4. CASE PlannerReturns
    <2>1. /\ call.phase = "answered" /\ call' = Idle /\ router' = router
          /\ UNCHANGED storeVars
      BY <1>4 DEF PlannerReturns, Returns
    <2>2. RouterPart
      BY <2>1, ForgetKeeps DEF RouterPart
    <2>3. result' \in AgentStatus
      BY <1>4, FailureStatus DEF PlannerReturns, Returns, AgentStatus
    <2>4. plan' \in Seq([id : TaskIds, dependencies : Seq(TaskIds)])
      BY <1>4, AgentsAssumption DEF PlannerReturns
    <2>5. UNCHANGED <<agent, tools, waiting>>
      BY <1>4 DEF PlannerReturns, Returns
    <2>6. AgentTypeOK'
      BY <2>3, <2>4, <2>5 DEF AgentTypeOK
    <2> QED BY <2>1, <2>2, <2>6, StoreAlone DEF RouterPart
  <1>5. CASE \E human \in BOOLEAN : ValidatorReturns(human)
    <2>1. /\ call.phase = "answered" /\ call' = Idle /\ router' = router
          /\ UNCHANGED storeVars
      BY <1>5 DEF ValidatorReturns, Returns
    <2>2. RouterPart
      BY <2>1, ForgetKeeps DEF RouterPart
    <2>3. AgentTypeOK'
      BY <1>5 DEF ValidatorReturns, Returns, AgentStatus, AgentTypeOK
    <2> QED BY <2>1, <2>2, <2>3, StoreAlone DEF RouterPart
  <1> QED BY <1>1, <1>2, <1>3, <1>4, <1>5

\* The tool agent with the registry.
LEMMA ToolAgentKeeps ==
    ASSUME AgentsInvariant,
           \/ InvalidInput \/ ToolRefused \/ ToolEnds
           \/ \E t \in Tools : ToolCalled(t) \/ Register(t) \/ Unregister(t)
    PROVE  AgentsInvariant' /\ RouterPart
  <1>1. UNCHANGED routerVars /\ UNCHANGED storeVars
    BY DEF InvalidInput, ToolRefused, ToolEnds, ToolCalled, Register, Unregister, Returns,
           routerVars
  <1>2. AgentTypeOK
    BY DEF AgentsInvariant
  <1>3. AgentTypeOK'
    <2>1. CASE InvalidInput
      BY <1>2, <2>1 DEF InvalidInput, Returns, AgentTypeOK, AgentStatus
    <2>2. CASE ToolRefused
      BY <1>2, <2>2 DEF ToolRefused, Returns, AgentTypeOK, AgentStatus
    <2>3. CASE ToolEnds
      BY <1>2, <2>3 DEF ToolEnds, Returns, AgentTypeOK, AgentStatus
    <2>4. CASE \E t \in Tools : ToolCalled(t) \/ Register(t) \/ Unregister(t)
      BY <1>2, <2>4 DEF ToolCalled, Register, Unregister, AgentTypeOK
    <2> QED BY <2>1, <2>2, <2>3, <2>4
  <1> QED BY <1>1, <1>3, StoreAlone, RouterAlone DEF AgentsInvariant, RouterPart

\* The retrieval agent, and the others that use its store.
LEMMA RetrievalAgentKeeps ==
    ASSUME AgentsInvariant, BadTopK \/ RetrievalReturns \/ StoreStep
    PROVE  AgentsInvariant' /\ RouterPart
  <1>1. UNCHANGED routerVars
    BY DEF BadTopK, RetrievalReturns, StoreStep, Returns, routerVars
  <1>2. StoreInvariant'
    <2>1. CASE BadTopK \/ RetrievalReturns
      BY <2>1, StoreAlone DEF BadTopK, RetrievalReturns, Returns, AgentsInvariant
    <2>2. CASE StoreStep
      BY <2>2, StoreStepKeeps DEF StoreStep, AgentsInvariant
    <2> QED BY <2>1, <2>2
  <1>3. AgentTypeOK'
    <2>1. AgentTypeOK
      BY DEF AgentsInvariant
    <2>2. CASE BadTopK
      BY <2>1, <2>2 DEF BadTopK, Returns, AgentTypeOK
    <2>3. CASE RetrievalReturns
      BY <2>1, <2>3, FailureStatus DEF RetrievalReturns, Returns, AgentTypeOK, AgentStatus
    <2>4. CASE StoreStep
      BY <2>1, <2>4 DEF StoreStep, agentVars, AgentTypeOK
    <2> QED BY <2>2, <2>3, <2>4
  <1> QED BY <1>1, <1>2, <1>3, RouterAlone DEF AgentsInvariant, RouterPart

\* Every step of the agents.
LEMMA AgentsStepKeeps ==
    AgentsInvariant /\ [Next]_vars => AgentsInvariant' /\ [Promise!Next]_Promise!vars
  <1> SUFFICES ASSUME AgentsInvariant, [Next]_vars
               PROVE  AgentsInvariant' /\ RouterPart
    BY DEF RouterPart
  <1>1. CASE Next
    BY <1>1, LLMAgentsKeep, ToolAgentKeeps, RetrievalAgentKeeps DEF Next
  <1>2. CASE UNCHANGED vars
    <2>1. UNCHANGED routerVars /\ UNCHANGED storeVars /\ UNCHANGED agentVars
      BY <1>2 DEF vars
    <2>2. AgentTypeOK'
      BY <2>1 DEF AgentsInvariant, AgentTypeOK, agentVars
    <2> QED BY <2>1, <2>2, RouterAlone, StoreAlone DEF AgentsInvariant, RouterPart
  <1> QED BY <1>1, <1>2

\* The agents and what they call keep their types (agents/, tools/registry.py).
THEOREM AgentsTypeCorrect == Spec => []TypeOK
  <1>1. AgentsInvariant => TypeOK
    BY InvariantTypes DEF AgentsInvariant, StoreInvariant, AgentTypeOK, TypeOK
  <1> QED BY <1>1, AgentsStart, AgentsStepKeeps, PTL DEF Spec

\* Searches of an agent find a vector for every chunk of the store and no other,
\* whatever others do to the store while the agent waits (vector_stores/faiss_store.py).
THEOREM AgentsVectorsMatchChunks == Spec => []IndexMatchesChunks
  <1>1. AgentsInvariant => IndexMatchesChunks
    BY DEF AgentsInvariant, StoreInvariant
  <1> QED BY <1>1, AgentsStart, AgentsStepKeeps, PTL DEF Spec

\* The router keeps its promise to the planner and the validator.
THEOREM AgentsAreKeptThePromise == Spec => Promise!Spec
  <1>1. Init => Promise!Init
    BY PromiseStarts DEF Init
  <1> QED BY <1>1, AgentsStart, AgentsStepKeeps, PTL DEF Spec, Promise!Spec

-----------------------------------------------------------------------------
(* Induction, for a set: the provers instantiate no predicate.             *)

\* A set of numbers that has 0 and every successor has them all.
LEMMA EveryNumber ==
    ASSUME NEW K, 0 \in K, \A k \in Nat : k \in K => k + 1 \in K
    PROVE  \A k \in Nat : k \in K
  <1> DEFINE T == {k \in Nat : k \notin K}
             R == OpToRel(<, Nat)
  <1>1. IsWellFoundedOn(R, Nat)
    BY NatLessThanWellFounded
  <1>2. \A i, j \in Nat : i < j => <<i, j>> \in R
    BY DEF OpToRel
  <1> HIDE DEF R
  <1>3. ASSUME T # {} PROVE FALSE
    <2>1. T \subseteq Nat
      OBVIOUS
    <2> HIDE DEF T
    <2>2. PICK x \in T : \A y \in T : ~(<<y, x>> \in R)
      BY <1>1, <1>3, <2>1, WFMin
    <2> USE DEF T
    <2>3. x \in Nat \ {0} /\ x - 1 \in Nat /\ x - 1 < x
      OBVIOUS
    <2>4. x - 1 \notin T
      BY <1>2, <2>2, <2>3
    <2>5. x - 1 \in K
      BY <2>3, <2>4
    <2>6. (x - 1) + 1 \in K /\ (x - 1) + 1 = x
      BY <2>3, <2>5
    <2> QED BY <2>6
  <1> QED BY <1>3

\* What is kept from one member of a bounded count to the next.
LEMMA EveryTurn ==
    ASSUME NEW m \in Nat, NEW K, 0 \in K,
           \A n \in 1 .. m : n - 1 \in K => n \in K
    PROVE  \A n \in 0 .. m : n \in K
  <1> DEFINE L == {k \in Nat : k <= m => k \in K}
  <1>1. 0 \in L
    OBVIOUS
  <1>2. ASSUME NEW k \in Nat, k \in L PROVE k + 1 \in L
    <2>1. CASE k + 1 <= m
      <3>1. k + 1 \in 1 .. m /\ (k + 1) - 1 = k /\ k \in K
        BY <1>2, <2>1
      <3>2. k + 1 \in K
        BY <3>1
      <3> QED BY <3>2
    <2>2. CASE ~(k + 1 <= m)
      BY <2>2
    <2> QED BY <2>1, <2>2
  <1> HIDE DEF L
  <1>3. \A k \in Nat : k \in L
    BY <1>1, <1>2, EveryNumber
  <1> QED BY <1>3 DEF L

\* f is the recursion over 0 .. m from first, with its step for each number.
Recursion(f, S, m, first, step) ==
    /\ f \in [0 .. m -> S]
    /\ f[0] = first
    /\ \A n \in 1 .. m : f[n] = step[n][f[n - 1]]

\* A recursion over 0 .. m has a function.
LEMMA RecursionExists ==
    ASSUME NEW S, NEW m \in Nat, NEW first \in S, NEW step \in [1 .. m -> [S -> S]]
    PROVE  \E f : Recursion(f, S, m, first, step)
  <1> DEFINE Upto(k) == {f \in [0 .. k -> S] :
                            /\ f[0] = first
                            /\ \A n \in 1 .. k : f[n] = step[n][f[n - 1]]}
             K == {k \in 0 .. m : Upto(k) # {}}
  <1>1. 0 \in K
    <2>1. [i \in 0 .. 0 |-> first] \in Upto(0)
      OBVIOUS
    <2> QED BY <2>1
  <1>2. ASSUME NEW n \in 1 .. m, n - 1 \in K PROVE n \in K
    <2>1. n \in Nat /\ n - 1 \in Nat /\ n \in 0 .. m
      OBVIOUS
    <2>2. PICK f \in [0 .. n - 1 -> S] :
             /\ f[0] = first
             /\ \A i \in 1 .. n - 1 : f[i] = step[i][f[i - 1]]
      BY <1>2
    <2> DEFINE e == step[n][f[n - 1]]
               g == [i \in 0 .. n |-> IF i = n THEN e ELSE f[i]]
    <2>3. e \in S
      BY <2>1, <2>2
    <2>4. \A i \in 0 .. n - 1 : g[i] = f[i]
      BY <2>1
    <2>5. g[n] = e
      BY <2>1
    <2>6. g \in [0 .. n -> S]
      BY <2>1, <2>2, <2>3
    <2> HIDE DEF g
    <2>7. g[0] = first
      BY <2>1, <2>2, <2>4
    <2>8. ASSUME NEW i \in 1 .. n PROVE g[i] = step[i][g[i - 1]]
      <3>1. g[i - 1] = f[i - 1]
        BY <2>1, <2>4
      <3>2. CASE i = n
        BY <2>5, <3>1, <3>2
      <3>3. CASE i # n
        <4>1. i \in 1 .. n - 1 /\ i \in 0 .. n - 1
          BY <2>1, <3>3
        <4> QED BY <2>2, <2>4, <3>1, <4>1
      <3> QED BY <3>2, <3>3
    <2>9. g \in Upto(n)
      BY <2>6, <2>7, <2>8
    <2> QED BY <2>1, <2>9
  <1> HIDE DEF K
  <1>3. m \in K
    <2>1. \A n \in 0 .. m : n \in K
      BY <1>1, <1>2, EveryTurn
    <2> QED BY <2>1
  <1> QED BY <1>3 DEF K, Recursion

-----------------------------------------------------------------------------
(* The sequences of Kahn's algorithm.                                      *)

\* The plans an LLM may answer.
PlanTasks == Seq([id : TaskIds, dependencies : Seq(TaskIds)])

\* The sequence q is a list of the members of A, each of them once.
Lists(q, A) ==
    /\ q \in Seq(A)
    /\ \A i, j \in 1 .. Len(q) : q[i] = q[j] => i = j
    /\ \A t \in A : \E i \in 1 .. Len(q) : q[i] = t

\* The empty sequence lists nothing, and nothing else does.
LEMMA ListsEmpty ==
    ASSUME NEW q, NEW A, Lists(q, A)
    PROVE  Lists(<<>>, {}) /\ (q = <<>> <=> A = {})
  BY DEF Lists

\* A new member is listed last.
LEMMA ListsAppend ==
    ASSUME NEW q, NEW A, Lists(q, A), NEW t, t \notin A
    PROVE  Lists(Append(q, t), A \cup {t})
  <1> DEFINE B == A \cup {t}
             r == Append(q, t)
  <1>1. q \in Seq(A) /\ q \in Seq(B) /\ Len(q) \in Nat /\ t \in B
    BY SeqMonotonic, LenProperties DEF Lists
  <1>2. /\ r \in Seq(B) /\ Len(r) = Len(q) + 1 /\ r[Len(q) + 1] = t
        /\ \A i \in 1 .. Len(q) : r[i] = q[i]
    BY <1>1, AppendProperties
  <1>3. \A i \in 1 .. Len(q) : q[i] \in A
    BY <1>1, ElementOfSeq
  <1> HIDE DEF r
  <1>4. ASSUME NEW i \in 1 .. Len(r), NEW j \in 1 .. Len(r), r[i] = r[j]
        PROVE  i = j
    <2>1. \A k \in 1 .. Len(r) : k \in 1 .. Len(q) \/ k = Len(q) + 1
      BY <1>1, <1>2
    <2>2. CASE i \in 1 .. Len(q) /\ j \in 1 .. Len(q)
      BY <1>2, <1>4, <2>2 DEF Lists
    <2>3. CASE i = Len(q) + 1 /\ j \in 1 .. Len(q)
      BY <1>2, <1>3, <1>4, <2>3
    <2>4. CASE i \in 1 .. Len(q) /\ j = Len(q) + 1
      BY <1>2, <1>3, <1>4, <2>4
    <2>5. CASE i = Len(q) + 1 /\ j = Len(q) + 1
      BY <2>5
    <2> QED BY <2>1, <2>2, <2>3, <2>4, <2>5
  <1>5. ASSUME NEW u \in B PROVE \E i \in 1 .. Len(r) : r[i] = u
    <2>1. CASE u = t
      <3>1. Len(q) + 1 \in 1 .. Len(r)
        BY <1>1, <1>2
      <3> QED BY <1>2, <2>1, <3>1
    <2>2. CASE u \in A
      <3>1. PICK i \in 1 .. Len(q) : q[i] = u
        BY <2>2 DEF Lists
      <3>2. i \in 1 .. Len(r)
        BY <1>1, <1>2
      <3> QED BY <1>2, <3>1, <3>2
    <2> QED BY <2>1, <2>2
  <1> QED BY <1>2, <1>4, <1>5 DEF Lists, r

\* Taking the first off a list takes it off the set.
LEMMA ListsTail ==
    ASSUME NEW q, NEW A, Lists(q, A), q # <<>>
    PROVE  Head(q) \in A /\ Lists(Tail(q), A \ {Head(q)})
  <1> DEFINE h == Head(q)
             r == Tail(q)
  <1>1. q \in Seq(A) /\ Len(q) \in Nat \ {0} /\ h = q[1]
    BY EmptySeq DEF Lists
  <1>2. /\ h \in A /\ r \in Seq(A) /\ Len(r) = Len(q) - 1
        /\ \A i \in 1 .. Len(r) : r[i] = q[i + 1]
    BY <1>1, HeadTailProperties
  <1> HIDE DEF h, r
  <1>3. \A i \in 1 .. Len(r) : i + 1 \in 1 .. Len(q) /\ 1 \in 1 .. Len(q)
    BY <1>1, <1>2
  <1>4. r \in Seq(A \ {h})
    <2>1. \A i \in 1 .. Len(r) : r[i] \in A \ {h}
      <3> SUFFICES ASSUME NEW i \in 1 .. Len(r) PROVE r[i] \in A \ {h}
        OBVIOUS
      <3>1. r[i] \in A
        BY <1>2, ElementOfSeq
      <3>2. i + 1 # 1
        OBVIOUS
      <3>3. q[i + 1] # q[1]
        BY <1>3, <3>2 DEF Lists
      <3> QED BY <1>1, <1>2, <3>1, <3>3
    <2>2. Len(r) \in Nat /\ r \in [1 .. Len(r) -> A]
      BY <1>2, LenProperties
    <2>3. r \in [1 .. Len(r) -> A \ {h}]
      BY <2>1, <2>2
    <2> QED BY <2>2, <2>3, SeqDef
  <1>5. ASSUME NEW i \in 1 .. Len(r), NEW j \in 1 .. Len(r), r[i] = r[j]
        PROVE  i = j
    <2>1. q[i + 1] = q[j + 1]
      BY <1>2, <1>5
    <2>2. i + 1 = j + 1
      BY <1>3, <2>1 DEF Lists
    <2> QED BY <2>2
  <1>6. ASSUME NEW u \in A \ {h} PROVE \E i \in 1 .. Len(r) : r[i] = u
    <2>1. PICK k \in 1 .. Len(q) : q[k] = u
      BY DEF Lists
    <2>2. k # 1
      BY <1>1, <2>1
    <2>3. k - 1 \in 1 .. Len(r) /\ (k - 1) + 1 = k
      BY <1>1, <1>2, <2>2
    <2> QED BY <1>2, <2>1, <2>3
  <1> QED BY <1>2, <1>4, <1>5, <1>6 DEF Lists, h, r

\* Lists of two sets that share nothing, one after the other.
LEMMA ListsConcat ==
    ASSUME NEW q, NEW A, Lists(q, A), NEW r, NEW B, Lists(r, B), A \cap B = {}
    PROVE  Lists(q \o r, A \cup B)
  <1> DEFINE C == A \cup B
             c == q \o r
  <1>1. /\ q \in Seq(C) /\ r \in Seq(C) /\ Len(q) \in Nat /\ Len(r) \in Nat
        /\ \A i \in 1 .. Len(q) : q[i] \in A
        /\ \A i \in 1 .. Len(r) : r[i] \in B
    <2>1. q \in Seq(A) /\ r \in Seq(B) /\ A \subseteq C /\ B \subseteq C
      BY DEF Lists
    <2>2. q \in Seq(C) /\ r \in Seq(C)
      BY <2>1, SeqMonotonic
    <2>3. \A i \in 1 .. Len(q) : q[i] \in A
      BY <2>1, ElementOfSeq
    <2>4. \A i \in 1 .. Len(r) : r[i] \in B
      BY <2>1, ElementOfSeq
    <2>5. Len(q) \in Nat /\ Len(r) \in Nat
      BY <2>1, LenProperties
    <2> QED BY <2>2, <2>3, <2>4, <2>5
  <1>2. /\ c \in Seq(C) /\ Len(c) = Len(q) + Len(r)
        /\ \A i \in 1 .. Len(q) + Len(r) :
              c[i] = IF i <= Len(q) THEN q[i] ELSE r[i - Len(q)]
    BY <1>1, ConcatProperties
  <1> HIDE DEF c
  <1>3. \A i \in 1 .. Len(c) : \/ i \in 1 .. Len(q) /\ c[i] = q[i]
                               \/ /\ i - Len(q) \in 1 .. Len(r)
                                  /\ c[i] = r[i - Len(q)]
    <2> SUFFICES ASSUME NEW i \in 1 .. Len(c)
                 PROVE  \/ i \in 1 .. Len(q) /\ c[i] = q[i]
                        \/ /\ i - Len(q) \in 1 .. Len(r)
                           /\ c[i] = r[i - Len(q)]
      OBVIOUS
    <2>1. CASE i <= Len(q)
      BY <1>1, <1>2, <2>1
    <2>2. CASE ~(i <= Len(q))
      BY <1>1, <1>2, <2>2
    <2> QED BY <2>1, <2>2
  <1>4. ASSUME NEW i \in 1 .. Len(c), NEW j \in 1 .. Len(c), c[i] = c[j]
        PROVE  i = j
    <2>1. CASE i \in 1 .. Len(q) /\ c[i] = q[i] /\ j \in 1 .. Len(q) /\ c[j] = q[j]
      <3>1. q[i] = q[j]
        BY <1>4, <2>1
      <3> QED BY <2>1, <3>1 DEF Lists
    <2>2. CASE /\ i - Len(q) \in 1 .. Len(r) /\ c[i] = r[i - Len(q)]
               /\ j - Len(q) \in 1 .. Len(r) /\ c[j] = r[j - Len(q)]
      <3>1. i - Len(q) = j - Len(q)
        BY <1>4, <2>2 DEF Lists
      <3> QED BY <1>1, <3>1
    <2>3. CASE /\ i \in 1 .. Len(q) /\ c[i] = q[i]
               /\ j - Len(q) \in 1 .. Len(r) /\ c[j] = r[j - Len(q)]
      BY <1>1, <1>4, <2>3
    <2>4. CASE /\ j \in 1 .. Len(q) /\ c[j] = q[j]
               /\ i - Len(q) \in 1 .. Len(r) /\ c[i] = r[i - Len(q)]
      BY <1>1, <1>4, <2>4
    <2> QED BY <1>3, <2>1, <2>2, <2>3, <2>4
  <1>5. ASSUME NEW u \in C PROVE \E i \in 1 .. Len(c) : c[i] = u
    <2>1. CASE u \in A
      <3>1. PICK k \in 1 .. Len(q) : q[k] = u
        BY <2>1 DEF Lists
      <3>2. k \in 1 .. Len(c) /\ k <= Len(q)
        BY <1>1, <1>2
      <3> QED BY <1>2, <3>1, <3>2
    <2>2. CASE u \in B
      <3>1. PICK k \in 1 .. Len(r) : r[k] = u
        BY <2>2 DEF Lists
      <3>2. k + Len(q) \in 1 .. Len(c) /\ ~(k + Len(q) <= Len(q)) /\ (k + Len(q)) - Len(q) = k
        BY <1>1, <1>2
      <3>3. c[k + Len(q)] = r[k]
        BY <1>2, <3>2
      <3> QED BY <3>1, <3>2, <3>3
    <2> QED BY <2>1, <2>2
  <1> QED BY <1>2, <1>4, <1>5 DEF Lists, c

\* InOrder goes through the tasks, one after the other.
LEMMA InOrderSteps ==
    ASSUME NEW tasks \in PlanTasks, NEW chosen
    PROVE  \E f : /\ f[0] = <<>>
                  /\ \A n \in 1 .. Len(tasks) :
                        f[n] = IF tasks[n].id \in chosen
                               THEN Append(f[n - 1], tasks[n].id) ELSE f[n - 1]
                  /\ InOrder(tasks, chosen) = f[Len(tasks)]
  <1> DEFINE m == Len(tasks)
             S == Seq(IdsOf(tasks))
             next(n, s) == IF tasks[n].id \in chosen THEN Append(s, tasks[n].id) ELSE s
             step == [n \in 1 .. m |-> [s \in S |-> next(n, s)]]
             Body(g) == [n \in 0 .. m |-> IF n = 0 THEN <<>>
                                          ELSE IF tasks[n].id \in chosen
                                          THEN Append(g[n - 1], tasks[n].id)
                                          ELSE g[n - 1]]
             u == CHOOSE g : g = Body(g)
  <1>1. m \in Nat /\ DOMAIN tasks = 1 .. m
    BY LenProperties DEF PlanTasks
  <1>2. <<>> \in S
    BY EmptySeq
  <1>3. \A n \in 1 .. m : tasks[n].id \in IdsOf(tasks)
    BY <1>1 DEF IdsOf
  <1>4. \A n \in 1 .. m, s \in S : next(n, s) \in S
    BY <1>3, AppendProperties
  <1>5. step \in [1 .. m -> [S -> S]]
    BY <1>4
  <1>6. \A n \in 1 .. m, s \in S : step[n][s] = next(n, s)
    OBVIOUS
  <1> HIDE DEF step, S, m
  <1>7. PICK f : Recursion(f, S, m, <<>>, step)
    <2> DEFINE empty == <<>>
    <2>1. empty \in S /\ m \in Nat
      BY <1>1, <1>2
    <2> HIDE DEF empty
    <2>2. \E f : Recursion(f, S, m, empty, step)
      BY <1>5, <2>1, RecursionExists
    <2> QED BY <2>2 DEF empty
  <1>8. \A n \in 0 .. m : f[n] = IF n = 0 THEN <<>>
                                 ELSE IF tasks[n].id \in chosen
                                 THEN Append(f[n - 1], tasks[n].id)
                                 ELSE f[n - 1]
    <2>1. ASSUME NEW n \in 1 .. m PROVE f[n] = next(n, f[n - 1])
      <3>1. n - 1 \in 0 .. m
        BY <1>1
      <3>2. f[n - 1] \in S
        BY <1>7, <3>1 DEF Recursion
      <3> QED BY <1>6, <1>7, <3>2 DEF Recursion
    <2>2. \A n \in 0 .. m : n = 0 \/ n \in 1 .. m
      BY <1>1
    <2> QED BY <1>7, <2>1, <2>2 DEF Recursion
  <1>9. f = Body(f)
    BY <1>7, <1>8 DEF Recursion
  <1>10. u = Body(u)
    BY <1>9
  <1>11. InOrder(tasks, chosen) = u[m]
    BY DEF InOrder, m
  <1> HIDE DEF u
  <1>12. \A n \in 0 .. m : u[n] = Body(u)[n]
    BY <1>10
  <1>13. u[0] = <<>>
    BY <1>1, <1>12
  <1>14. \A n \in 1 .. m : u[n] = IF tasks[n].id \in chosen
                                  THEN Append(u[n - 1], tasks[n].id) ELSE u[n - 1]
    <2> SUFFICES ASSUME NEW n \in 1 .. m PROVE u[n] = next(n, u[n - 1])
      OBVIOUS
    <2>1. n \in 0 .. m /\ n # 0
      BY <1>1
    <2> QED BY <1>12, <2>1
  <1> QED BY <1>11, <1>13, <1>14 DEF m

\* No two tasks have one id.
DistinctIds(tasks) == \A i, j \in DOMAIN tasks : tasks[i].id = tasks[j].id => i = j

\* It lists the chosen tasks.
LEMMA InOrderLists ==
    ASSUME NEW tasks \in PlanTasks, DistinctIds(tasks), NEW chosen \in SUBSET IdsOf(tasks)
    PROVE  Lists(InOrder(tasks, chosen), chosen)
  <1> DEFINE m == Len(tasks)
             first(n) == {tasks[i].id : i \in 1 .. n} \cap chosen
  <1>1. m \in Nat /\ DOMAIN tasks = 1 .. m
    BY LenProperties DEF PlanTasks
  <1>2. PICK f : /\ f[0] = <<>>
                 /\ \A n \in 1 .. m :
                       f[n] = IF tasks[n].id \in chosen
                              THEN Append(f[n - 1], tasks[n].id) ELSE f[n - 1]
                 /\ InOrder(tasks, chosen) = f[m]
    BY InOrderSteps
  <1> DEFINE K == {n \in 0 .. m : Lists(f[n], first(n))}
  <1>3. 0 \in K
    <2>1. first(0) = {}
      OBVIOUS
    <2>2. Lists(<<>>, {})
      BY DEF Lists
    <2>3. 0 \in 0 .. m
      BY <1>1
    <2> HIDE DEF first
    <2> QED BY <1>2, <2>1, <2>2, <2>3
  <1>4. ASSUME NEW n \in 1 .. m, n - 1 \in K PROVE n \in K
    <2> DEFINE t == tasks[n].id
    <2>1. /\ n \in 0 .. m /\ n - 1 \in 0 .. m
          /\ \A i \in 1 .. n : i = n \/ i \in 1 .. n - 1
          /\ \A i \in 1 .. n - 1 : i \in 1 .. n /\ i # n /\ i \in 1 .. m
      BY <1>1
    <2>2. Lists(f[n - 1], first(n - 1))
      BY <1>4
    <2>3. t \notin first(n - 1)
      BY <1>1, <2>1 DEF DistinctIds
    <2>4. CASE t \in chosen
      <3>1. first(n) = first(n - 1) \cup {t}
        BY <2>1, <2>4
      <3>2. f[n] = Append(f[n - 1], t)
        BY <1>2, <2>4
      <3> HIDE DEF first, t
      <3>3. Lists(f[n], first(n))
        BY <2>2, <2>3, <3>1, <3>2, ListsAppend
      <3> QED BY <2>1, <3>3
    <2>5. CASE t \notin chosen
      <3>1. first(n) = first(n - 1)
        BY <2>1, <2>5
      <3>2. f[n] = f[n - 1]
        BY <1>2, <2>5
      <3> HIDE DEF first
      <3> QED BY <2>1, <2>2, <3>1, <3>2
    <2> QED BY <2>4, <2>5
  <1> HIDE DEF K
  <1>5. m \in K
    <2>1. \A n \in 0 .. m : n \in K
      BY <1>1, <1>3, <1>4, EveryTurn
    <2> QED BY <1>1, <2>1
  <1>6. first(m) = chosen
    BY <1>1 DEF IdsOf
  <1> QED BY <1>2, <1>5, <1>6 DEF K

-----------------------------------------------------------------------------
(* Kahn's algorithm.                                                       *)

\* The dependencies of a task that are not among the tasks done, by their places,
\* and all of them.
Waits(tasks, t, done) ==
    {k \in DOMAIN DependenciesOf(tasks, t) : DependenciesOf(tasks, t)[k] \notin done}
Needs(tasks, t) ==
    {DependenciesOf(tasks, t)[k] : k \in DOMAIN DependenciesOf(tasks, t)}

\* Tasks of which some are done have one that needs none of them.
Ordered(tasks, done) ==
    \A left \in SUBSET IdsOf(tasks) :
        left \cap done # {} => \E t \in left : Needs(tasks, t) \cap left = {}

\* The loop after the tasks done have been visited: the degrees count what a task
\* still waits for, and the queue lists the others that wait for nothing.
KahnState(tasks, s, done) ==
    /\ done \in SUBSET IdsOf(tasks)
    /\ s.visited = Cardinality(done)
    /\ s.degree = [t \in IdsOf(tasks) |-> Cardinality(Waits(tasks, t, done))]
    /\ Lists(s.queue, {t \in IdsOf(tasks) \ done : Waits(tasks, t, done) = {}})
    /\ \A t \in done : Waits(tasks, t, done) = {}
    /\ Ordered(tasks, done)

\* There are n numbers from 1 to n.
LEMMA CountUpTo ==
    ASSUME NEW n \in Nat
    PROVE  IsFiniteSet(1 .. n) /\ Cardinality(1 .. n) = n
  BY FS_Interval

\* A plan is finite, and so are its ids: one for each task.
LEMMA PlanTasksFinite ==
    ASSUME NEW tasks \in PlanTasks
    PROVE  /\ Len(tasks) \in Nat /\ DOMAIN tasks = 1 .. Len(tasks)
           /\ [i \in 1 .. Len(tasks) |-> tasks[i].id]
                 \in Surjection(1 .. Len(tasks), IdsOf(tasks))
           /\ IsFiniteSet(1 .. Len(tasks)) /\ Cardinality(1 .. Len(tasks)) = Len(tasks)
           /\ IsFiniteSet(IdsOf(tasks))
  <1>1. Len(tasks) \in Nat /\ DOMAIN tasks = 1 .. Len(tasks)
    BY LenProperties DEF PlanTasks
  <1>2. [i \in 1 .. Len(tasks) |-> tasks[i].id]
           \in Surjection(1 .. Len(tasks), IdsOf(tasks))
    BY <1>1 DEF IdsOf, Surjection
  <1>3. IsFiniteSet(1 .. Len(tasks)) /\ Cardinality(1 .. Len(tasks)) = Len(tasks)
    BY <1>1, CountUpTo
  <1>4. IsFiniteSet(IdsOf(tasks))
    BY <1>2, <1>3, FS_Surjection
  <1> QED BY <1>1, <1>2, <1>3, <1>4

\* A task has finitely many dependencies, and waits for finitely many.
LEMMA DependenciesType ==
    ASSUME NEW tasks \in PlanTasks, NEW t \in IdsOf(tasks), NEW done
    PROVE  /\ DependenciesOf(tasks, t) \in Seq(TaskIds)
           /\ Len(DependenciesOf(tasks, t)) \in Nat
           /\ DOMAIN DependenciesOf(tasks, t) = 1 .. Len(DependenciesOf(tasks, t))
           /\ IsFiniteSet(Waits(tasks, t, done))
           /\ Cardinality(Waits(tasks, t, done)) \in Nat
           /\ Cardinality(Waits(tasks, t, done)) = 0 <=> Waits(tasks, t, done) = {}
  <1> DEFINE i == CHOOSE i \in DOMAIN tasks : tasks[i].id = t
             d == DependenciesOf(tasks, t)
  <1>1. i \in DOMAIN tasks
    BY DEF IdsOf
  <1>2. tasks[i] \in [id : TaskIds, dependencies : Seq(TaskIds)]
    BY <1>1, PlanTasksFinite, ElementOfSeq DEF PlanTasks
  <1>3. d \in Seq(TaskIds)
    BY <1>2 DEF DependenciesOf
  <1> HIDE DEF d
  <1>4. Len(d) \in Nat /\ DOMAIN d = 1 .. Len(d)
    BY <1>3, LenProperties
  <1>5. Waits(tasks, t, done) \in SUBSET (1 .. Len(d)) /\ IsFiniteSet(1 .. Len(d))
    BY <1>4, FS_Interval DEF Waits, d
  <1>6. IsFiniteSet(Waits(tasks, t, done))
    BY <1>5, FS_Subset
  <1>7. /\ Cardinality(Waits(tasks, t, done)) \in Nat
        /\ Cardinality(Waits(tasks, t, done)) = 0 <=> Waits(tasks, t, done) = {}
    BY <1>6, FS_CardinalityType, FS_EmptySet
  <1> QED BY <1>3, <1>4, <1>6, <1>7 DEF d

\* With distinct ids each task has its own dependencies.
LEMMA OwnDependencies ==
    ASSUME NEW tasks \in PlanTasks, DistinctIds(tasks), NEW i \in DOMAIN tasks
    PROVE  DependenciesOf(tasks, tasks[i].id) = tasks[i].dependencies
  <1> DEFINE j == CHOOSE j \in DOMAIN tasks : tasks[j].id = tasks[i].id
  <1>1. j \in DOMAIN tasks /\ tasks[j].id = tasks[i].id
    OBVIOUS
  <1>2. j = i
    BY <1>1 DEF DistinctIds
  <1> QED BY <1>2 DEF DependenciesOf

\* One more task is done: what waited for it waits for as much less.
LEMMA WaitsFewer ==
    ASSUME NEW tasks \in PlanTasks, NEW t \in IdsOf(tasks), NEW done, NEW x, x \notin done
    PROVE  /\ Waits(tasks, t, done \cup {x}) \subseteq Waits(tasks, t, done)
           /\ Cardinality(Waits(tasks, t, done \cup {x}))
                 = Cardinality(Waits(tasks, t, done))
                      - Occurrences(x, DependenciesOf(tasks, t))
  <1> DEFINE d == DependenciesOf(tasks, t)
             before == Waits(tasks, t, done)
             onX == {k \in DOMAIN d : d[k] = x}
  <1>1. Waits(tasks, t, done \cup {x}) = before \ onX /\ before \cap onX = onX
    BY DEF Waits
  <1>2. IsFiniteSet(before)
    BY DependenciesType
  <1>3. Occurrences(x, d) = Cardinality(onX)
    BY DEF Occurrences
  <1> HIDE DEF before, onX
  <1>4. Cardinality(before \ onX) = Cardinality(before) - Cardinality(before \cap onX)
    BY <1>2, FS_Difference
  <1> QED BY <1>1, <1>3, <1>4 DEF before

\* Before the loop nothing is done.
LEMMA KahnBegins ==
    ASSUME NEW tasks \in PlanTasks, DistinctIds(tasks)
    PROVE  KahnState(tasks, KahnStart(tasks), {})
  <1> DEFINE ids == IdsOf(tasks)
             degree == [t \in ids |-> Len(DependenciesOf(tasks, t))]
             first == {t \in ids : degree[t] = 0}
             s == KahnStart(tasks)
  <1>1. ASSUME NEW t \in ids
        PROVE  Len(DependenciesOf(tasks, t)) = Cardinality(Waits(tasks, t, {}))
    <2>1. /\ Waits(tasks, t, {}) = 1 .. Len(DependenciesOf(tasks, t))
          /\ Len(DependenciesOf(tasks, t)) \in Nat
      BY DependenciesType DEF Waits
    <2> QED BY <2>1, CountUpTo
  <1>2. first = {t \in ids \ {} : Waits(tasks, t, {}) = {}}
    BY <1>1, DependenciesType
  <1>3. Lists(InOrder(tasks, first), first)
    BY InOrderLists
  <1>4. s.queue = InOrder(tasks, first) /\ s.degree = degree /\ s.visited = 0
    BY DEF KahnStart
  <1>5. Ordered(tasks, {})
    BY DEF Ordered
  <1>6. s.degree = [t \in ids |-> Cardinality(Waits(tasks, t, {}))]
    BY <1>1, <1>4
  <1>7. Cardinality({}) = 0
    BY FS_EmptySet
  <1>8. Lists(s.queue, {t \in ids \ {} : Waits(tasks, t, {}) = {}})
    <2> HIDE DEF first, s
    <2> QED BY <1>2, <1>3, <1>4
  <1> HIDE DEF first, degree, s
  <1> QED BY <1>4, <1>5, <1>6, <1>7, <1>8 DEF KahnState, s

\* A turn does the task at the head of the queue.
LEMMA KahnGoesOn ==
    ASSUME NEW tasks \in PlanTasks, DistinctIds(tasks), NEW s, NEW done,
           KahnState(tasks, s, done), s.queue # <<>>
    PROVE  /\ KahnState(tasks, KahnTurn(tasks, s), done \cup {Head(s.queue)})
           /\ KahnTurn(tasks, s).visited = s.visited + 1
  <1> DEFINE ids == IdsOf(tasks)
             x == Head(s.queue)
             more == done \cup {x}
             free(d) == {t \in ids \ d : Waits(tasks, t, d) = {}}
             degree == [t \in ids |->
                           s.degree[t] - Occurrences(x, DependenciesOf(tasks, t))]
             released == {t \in ids : degree[t] = 0 /\ s.degree[t] # 0}
             u == KahnTurn(tasks, s)
  <1>1. Lists(s.queue, free(done))
    BY DEF KahnState
  <1>2. x \in free(done) /\ Lists(Tail(s.queue), free(done) \ {x})
    BY <1>1, ListsTail
  <1>3. x \in ids /\ x \notin done /\ Waits(tasks, x, done) = {}
    BY <1>2
  <1>4. IsFiniteSet(done) /\ Cardinality(more) = Cardinality(done) + 1
    <2>1. IsFiniteSet(done)
      BY PlanTasksFinite, FS_Subset DEF KahnState
    <2> QED BY <1>3, <2>1, FS_AddElement
  <1>5. u = [queue |-> Tail(s.queue) \o InOrder(tasks, released),
             degree |-> degree, visited |-> s.visited + 1]
    BY DEF KahnTurn
  <1>6. ASSUME NEW t \in ids
        PROVE  /\ degree[t] = Cardinality(Waits(tasks, t, more))
               /\ s.degree[t] = Cardinality(Waits(tasks, t, done))
               /\ Waits(tasks, t, more) \subseteq Waits(tasks, t, done)
    BY <1>3, WaitsFewer DEF KahnState
  <1>7. ASSUME NEW t \in ids
        PROVE  /\ degree[t] = 0 <=> Waits(tasks, t, more) = {}
               /\ s.degree[t] = 0 <=> Waits(tasks, t, done) = {}
    BY <1>6, DependenciesType
  <1>8. \A t \in more : Waits(tasks, t, done) = {}
    BY <1>3 DEF KahnState
  <1>9. more \in SUBSET ids
    BY <1>3 DEF KahnState
  <1>10. free(more) = (free(done) \ {x}) \cup released
    <2>1. ASSUME NEW t \in free(more)
          PROVE  t \in (free(done) \ {x}) \cup released
      BY <1>7
    <2>2. ASSUME NEW t \in free(done) \ {x}
          PROVE  t \in free(more)
      BY <1>6
    <2>3. ASSUME NEW t \in released
          PROVE  t \in free(more)
      BY <1>7, <1>8
    <2> QED BY <2>1, <2>2, <2>3
  <1>11. (free(done) \ {x}) \cap released = {}
    BY <1>7
  <1>12. Lists(InOrder(tasks, released), released)
    <2>1. released \in SUBSET ids
      OBVIOUS
    <2> HIDE DEF released
    <2> QED BY <2>1, InOrderLists
  <1>13. Lists(u.queue, free(more))
    <2> DEFINE rest == free(done) \ {x}
    <2>1. Lists(Tail(s.queue), rest) /\ rest \cap released = {} /\ free(more) = rest \cup released
      BY <1>2, <1>10, <1>11
    <2> HIDE DEF rest, released, degree, free, u
    <2>2. u.queue = Tail(s.queue) \o InOrder(tasks, released)
      BY <1>5
    <2>3. Lists(Tail(s.queue) \o InOrder(tasks, released), rest \cup released)
      BY <1>12, <2>1, ListsConcat
    <2> QED BY <2>1, <2>2, <2>3
  <1>14. \A t \in more : Waits(tasks, t, more) = {}
    BY <1>6, <1>8, <1>9
  <1>15. Ordered(tasks, more)
    <2> SUFFICES ASSUME NEW left \in SUBSET ids, left \cap more # {}
                 PROVE  \E t \in left : Needs(tasks, t) \cap left = {}
      BY DEF Ordered
    <2>1. CASE left \cap done # {}
      BY <2>1 DEF KahnState, Ordered
    <2>2. CASE left \cap done = {}
      <3>1. x \in left
        BY <2>2
      <3>2. Needs(tasks, x) \subseteq done
        BY <1>3 DEF Needs, Waits
      <3> QED BY <2>2, <3>1, <3>2
    <2> QED BY <2>1, <2>2
  <1>16. u.degree = [t \in ids |-> Cardinality(Waits(tasks, t, more))]
    <2>1. degree = [t \in ids |-> Cardinality(Waits(tasks, t, more))]
      BY <1>6
    <2> HIDE DEF degree, released, u
    <2> QED BY <1>5, <2>1
  <1>17. u.visited = s.visited + 1 /\ u.visited = Cardinality(more)
    BY <1>4, <1>5 DEF KahnState
  <1> HIDE DEF u, more
  <1> QED BY <1>9, <1>13, <1>14, <1>15, <1>16, <1>17 DEF KahnState, u, more

\* Kahn goes through the turns, one after the other.
LEMMA KahnSteps ==
    ASSUME NEW tasks \in PlanTasks, DistinctIds(tasks)
    PROVE  \E f : /\ f[0] = KahnStart(tasks)
                  /\ \A n \in 1 .. Len(tasks) :
                        f[n] = IF f[n - 1].queue = <<>> THEN f[n - 1]
                               ELSE KahnTurn(tasks, f[n - 1])
                  /\ Kahn(tasks) = f[Len(tasks)]
  <1> DEFINE m == Len(tasks)
             ids == IdsOf(tasks)
             turn(s) == IF s.queue = <<>> THEN s ELSE KahnTurn(tasks, s)
             S == {KahnStart(tasks)}
                     \cup {s \in [queue : Seq(ids), degree : [ids -> Nat], visited : Nat] :
                              \E done : KahnState(tasks, s, done)}
             step == [n \in 1 .. m |-> [s \in S |-> turn(s)]]
             Body(g) == [n \in 0 .. m |-> IF n = 0 THEN KahnStart(tasks)
                                          ELSE IF g[n - 1].queue = <<>> THEN g[n - 1]
                                          ELSE KahnTurn(tasks, g[n - 1])]
             u == CHOOSE g : g = Body(g)
  <1>1. m \in Nat
    BY PlanTasksFinite
  <1>2. KahnStart(tasks) \in S
    OBVIOUS
  <1>3. ASSUME NEW s \in S PROVE turn(s) \in S
    <2>1. PICK done : KahnState(tasks, s, done)
      BY KahnBegins
    <2>2. CASE s.queue = <<>>
      BY <2>2
    <2>3. CASE s.queue # <<>>
      <3> DEFINE v == KahnTurn(tasks, s)
      <3>1. PICK more : KahnState(tasks, v, more)
        BY <2>1, <2>3, KahnGoesOn
      <3>2. v.queue \in Seq(ids)
        <4> DEFINE free == {t \in ids \ more : Waits(tasks, t, more) = {}}
        <4>1. v.queue \in Seq(free)
          BY <3>1 DEF KahnState, Lists
        <4>2. free \subseteq ids
          OBVIOUS
        <4> HIDE DEF free, v
        <4> QED BY <4>1, <4>2, SeqMonotonic
      <3>3. v.degree \in [ids -> Nat]
        <4>1. \A t \in ids : Cardinality(Waits(tasks, t, more)) \in Nat
          BY DependenciesType
        <4> QED BY <3>1, <4>1 DEF KahnState
      <3>4. v.visited \in Nat
        <4>1. IsFiniteSet(more)
          BY <3>1, PlanTasksFinite, FS_Subset DEF KahnState
        <4> QED BY <3>1, <4>1, FS_CardinalityType DEF KahnState
      <3>5. v = [queue |-> v.queue, degree |-> v.degree, visited |-> v.visited]
        BY DEF KahnTurn
      <3>6. v \in [queue : Seq(ids), degree : [ids -> Nat], visited : Nat]
        <4> HIDE DEF v
        <4> QED BY <3>2, <3>3, <3>4, <3>5
      <3> HIDE DEF v
      <3>7. v \in S
        BY <3>1, <3>6
      <3> QED BY <2>3, <3>7 DEF v
    <2> QED BY <2>2, <2>3
  <1>4. step \in [1 .. m -> [S -> S]]
    BY <1>3
  <1>5. \A n \in 1 .. m, s \in S : step[n][s] = turn(s)
    OBVIOUS
  <1> HIDE DEF step, S, m
  <1>6. PICK f : Recursion(f, S, m, KahnStart(tasks), step)
    BY <1>1, <1>2, <1>4, RecursionExists
  <1>7. \A n \in 0 .. m : f[n] = IF n = 0 THEN KahnStart(tasks)
                                 ELSE IF f[n - 1].queue = <<>> THEN f[n - 1]
                                 ELSE KahnTurn(tasks, f[n - 1])
    <2>1. ASSUME NEW n \in 1 .. m PROVE f[n] = turn(f[n - 1])
      <3>1. n - 1 \in 0 .. m
        BY <1>1
      <3>2. f[n - 1] \in S
        BY <1>6, <3>1 DEF Recursion
      <3> QED BY <1>5, <1>6, <3>2 DEF Recursion
    <2>2. \A n \in 0 .. m : n = 0 \/ n \in 1 .. m
      BY <1>1
    <2> QED BY <1>6, <2>1, <2>2 DEF Recursion
  <1>8. f = Body(f)
    BY <1>6, <1>7 DEF Recursion
  <1>9. u = Body(u)
    BY <1>8
  <1>10. Kahn(tasks) = u[m]
    BY DEF Kahn, m
  <1> HIDE DEF u
  <1>11. \A n \in 0 .. m : u[n] = Body(u)[n]
    BY <1>9
  <1>12. u[0] = KahnStart(tasks)
    BY <1>1, <1>11
  <1>13. \A n \in 1 .. m : u[n] = IF u[n - 1].queue = <<>> THEN u[n - 1]
                                  ELSE KahnTurn(tasks, u[n - 1])
    <2> SUFFICES ASSUME NEW n \in 1 .. m PROVE u[n] = turn(u[n - 1])
      OBVIOUS
    <2>1. n \in 0 .. m /\ n # 0
      BY <1>1
    <2> QED BY <1>11, <2>1
  <1> QED BY <1>10, <1>12, <1>13 DEF m

\* The loop ends with the queue empty, or with as many tasks visited as there are.
LEMMA KahnEnds ==
    ASSUME NEW tasks \in PlanTasks, DistinctIds(tasks)
    PROVE  \E done : /\ KahnState(tasks, Kahn(tasks), done)
                     /\ Kahn(tasks).visited = Len(tasks) \/ Kahn(tasks).queue = <<>>
  <1> DEFINE m == Len(tasks)
             After(s, n) == \E done : /\ KahnState(tasks, s, done)
                                      /\ s.visited = n \/ s.queue = <<>>
  <1>1. m \in Nat
    BY PlanTasksFinite
  <1>2. PICK f : /\ f[0] = KahnStart(tasks)
                 /\ \A n \in 1 .. m : f[n] = IF f[n - 1].queue = <<>> THEN f[n - 1]
                                             ELSE KahnTurn(tasks, f[n - 1])
                 /\ Kahn(tasks) = f[m]
    BY KahnSteps
  <1> HIDE DEF m
  <1> DEFINE K == {n \in 0 .. m : After(f[n], n)}
  <1>3. 0 \in K
    <2>1. KahnState(tasks, f[0], {}) /\ f[0].visited = 0
      <3>1. KahnStart(tasks).visited = 0
        BY DEF KahnStart
      <3> QED BY <1>2, <3>1, KahnBegins
    <2> QED BY <1>1, <2>1
  <1>4. ASSUME NEW n \in 1 .. m, n - 1 \in K PROVE n \in K
    <2> DEFINE s == f[n - 1]
    <2>1. n \in 0 .. m /\ n - 1 \in Nat /\ (n - 1) + 1 = n
      BY <1>1
    <2>2. PICK done : /\ KahnState(tasks, s, done)
                      /\ s.visited = n - 1 \/ s.queue = <<>>
      BY <1>4
    <2>3. CASE s.queue = <<>>
      <3>1. f[n] = s
        BY <1>2, <2>3
      <3> QED BY <2>1, <2>2, <2>3, <3>1
    <2>4. CASE s.queue # <<>>
      <3>1. f[n] = KahnTurn(tasks, s) /\ s.visited = n - 1
        BY <1>2, <2>2, <2>4
      <3> HIDE DEF s
      <3>2. /\ KahnState(tasks, KahnTurn(tasks, s), done \cup {Head(s.queue)})
            /\ KahnTurn(tasks, s).visited = s.visited + 1
        BY <2>2, <2>4, KahnGoesOn
      <3>3. After(f[n], n)
        BY <2>1, <3>1, <3>2
      <3> QED BY <2>1, <3>3
    <2> QED BY <2>3, <2>4
  <1> HIDE DEF K
  <1>5. m \in K
    <2>1. \A n \in 0 .. m : n \in K
      BY <1>1, <1>3, <1>4, EveryTurn
    <2> QED BY <1>1, <2>1
  <1> QED BY <1>2, <1>5 DEF K, m

\* Ids are distinct exactly if there are as many as tasks.
LEMMA NoDuplicates ==
    ASSUME NEW tasks \in PlanTasks
    PROVE  DuplicateIds(tasks) <=> ~DistinctIds(tasks)
  <1> DEFINE f == [i \in 1 .. Len(tasks) |-> tasks[i].id]
  <1>1. Cardinality(IdsOf(tasks)) = Len(tasks) <=> f \in Injection(1 .. Len(tasks), IdsOf(tasks))
    BY PlanTasksFinite, FS_Surjection
  <1>2. f \in [1 .. Len(tasks) -> IdsOf(tasks)] /\ DOMAIN tasks = 1 .. Len(tasks)
    BY PlanTasksFinite DEF Surjection
  <1>3. f \in Injection(1 .. Len(tasks), IdsOf(tasks)) <=> DistinctIds(tasks)
    BY <1>2 DEF Injection, IsInjective, DistinctIds
  <1> QED BY <1>1, <1>3 DEF DuplicateIds

\* If all tasks could be visited, every set of them has one to begin with.
LEMMA VisitedAreRunnable ==
    ASSUME NEW tasks \in PlanTasks, DistinctIds(tasks), Kahn(tasks).visited = Len(tasks),
           NEW left \in (SUBSET DOMAIN tasks) \ {{}}
    PROVE  \E i \in left : \A k \in DOMAIN tasks[i].dependencies :
              \A j \in left : tasks[j].id # tasks[i].dependencies[k]
  <1>1. PICK done : KahnState(tasks, Kahn(tasks), done)
    BY KahnEnds
  <1>2. done = IdsOf(tasks)
    <2>1. Cardinality(IdsOf(tasks)) = Len(tasks)
      BY NoDuplicates DEF DuplicateIds
    <2>2. done \in SUBSET IdsOf(tasks) /\ Cardinality(done) = Cardinality(IdsOf(tasks))
      BY <1>1, <2>1 DEF KahnState
    <2> QED BY <2>2, PlanTasksFinite, FS_Subset
  <1> DEFINE ids == {tasks[i].id : i \in left}
  <1>3. ids \in SUBSET IdsOf(tasks) /\ ids \cap done # {}
    <2>1. left \subseteq DOMAIN tasks
      OBVIOUS
    <2>2. PICK i \in left : TRUE
      OBVIOUS
    <2>3. ids \subseteq IdsOf(tasks)
      BY <2>1 DEF IdsOf
    <2>4. tasks[i].id \in ids
      BY <2>2
    <2> QED BY <1>2, <2>3, <2>4
  <1>4. PICK t \in ids : Needs(tasks, t) \cap ids = {}
    BY <1>1, <1>3 DEF KahnState, Ordered
  <1>5. PICK i \in left : t = tasks[i].id
    OBVIOUS
  <1>6. Needs(tasks, t) = {tasks[i].dependencies[k] : k \in DOMAIN tasks[i].dependencies}
    BY <1>5, OwnDependencies DEF Needs
  <1> QED BY <1>4, <1>6

\* If every set of tasks has one to begin with, all are visited.
LEMMA RunnableAreVisited ==
    ASSUME NEW tasks \in PlanTasks, Runnable(tasks)
    PROVE  Kahn(tasks).visited = Len(tasks)
  <1>1. DistinctIds(tasks)
    BY DEF Runnable, DistinctIds
  <1>2. PICK done : /\ KahnState(tasks, Kahn(tasks), done)
                    /\ Kahn(tasks).visited = Len(tasks) \/ Kahn(tasks).queue = <<>>
    BY <1>1, KahnEnds
  <1>3. ASSUME Kahn(tasks).queue = <<>>
        PROVE  Kahn(tasks).visited = Len(tasks)
    <2> DEFINE left == {i \in DOMAIN tasks : tasks[i].id \notin done}
    <2>1. ASSUME left # {} PROVE FALSE
      <3>1. PICK i \in left : \A k \in DOMAIN tasks[i].dependencies :
                                 \A j \in left : tasks[j].id # tasks[i].dependencies[k]
        BY <2>1 DEF Runnable
      <3>2. \A k \in DOMAIN tasks[i].dependencies : tasks[i].dependencies[k] \in done
        <4> SUFFICES ASSUME NEW k \in DOMAIN tasks[i].dependencies,
                            tasks[i].dependencies[k] \notin done
                     PROVE  FALSE
          OBVIOUS
        <4>1. tasks[i].dependencies[k] \in IdsOf(tasks)
          BY DEF Runnable
        <4>2. PICK j \in DOMAIN tasks : tasks[j].id = tasks[i].dependencies[k]
          BY <4>1 DEF IdsOf
        <4> QED BY <3>1, <4>2
      <3>3. Waits(tasks, tasks[i].id, done) = {}
        BY <1>1, <3>2, OwnDependencies DEF Waits
      <3>4. tasks[i].id \in IdsOf(tasks) \ done
        BY DEF IdsOf
      <3>5. \E n \in 1 .. Len(Kahn(tasks).queue) : Kahn(tasks).queue[n] = tasks[i].id
        BY <1>2, <3>3, <3>4 DEF KahnState, Lists
      <3> QED BY <1>3, <3>5
    <2>2. IdsOf(tasks) \subseteq done
      BY <2>1 DEF IdsOf
    <2>3. done = IdsOf(tasks)
      BY <1>2, <2>2 DEF KahnState
    <2>4. Cardinality(IdsOf(tasks)) = Len(tasks)
      BY <1>1, NoDuplicates DEF DuplicateIds
    <2> QED BY <1>2, <2>3, <2>4 DEF KahnState
  <1> QED BY <1>2, <1>3

\* validate_plan_dag accepts exactly the plans that can be executed.
LEMMA ValidDagIsRunnable ==
    ASSUME NEW tasks \in PlanTasks
    PROVE  ValidDag(tasks) <=> Runnable(tasks)
  <1>1. ASSUME ValidDag(tasks) PROVE Runnable(tasks)
    <2>1. DistinctIds(tasks) /\ Kahn(tasks).visited = Len(tasks) /\ tasks # <<>>
      BY <1>1, NoDuplicates DEF ValidDag
    <2>2. \A left \in (SUBSET DOMAIN tasks) \ {{}} :
             \E i \in left : \A k \in DOMAIN tasks[i].dependencies :
                \A j \in left : tasks[j].id # tasks[i].dependencies[k]
      BY <2>1, VisitedAreRunnable
    <2>3. \A i \in DOMAIN tasks : \A k \in DOMAIN tasks[i].dependencies :
             tasks[i].dependencies[k] \in IdsOf(tasks)
      BY <1>1 DEF ValidDag, MissingReference
    <2> QED BY <2>1, <2>2, <2>3 DEF Runnable, DistinctIds
  <1>2. ASSUME Runnable(tasks) PROVE ValidDag(tasks)
    <2>1. ~DuplicateIds(tasks)
      BY <1>2, NoDuplicates DEF Runnable, DistinctIds
    <2>2. ASSUME NEW i \in DOMAIN tasks, NEW k \in DOMAIN tasks[i].dependencies
          PROVE  tasks[i].dependencies[k] \in IdsOf(tasks) \ {tasks[i].id}
      <3>1. {i} \in (SUBSET DOMAIN tasks) \ {{}}
        <4>1. {i} \in SUBSET (DOMAIN tasks) /\ {i} # {}
          OBVIOUS
        <4> QED BY <4>1
      <3>2. tasks[i].id # tasks[i].dependencies[k]
        BY <1>2, <3>1 DEF Runnable
      <3> QED BY <1>2, <3>2 DEF Runnable
    <2>3. ~MissingReference(tasks)
      BY <2>2 DEF MissingReference
    <2>4. tasks # <<>>
      BY <1>2 DEF Runnable
    <2> QED BY <1>2, <2>1, <2>3, <2>4, RunnableAreVisited DEF ValidDag
  <1> QED BY <1>1, <1>2

-----------------------------------------------------------------------------
\* What the planner has answered is the verdict on the plan it was given.
PlanInv ==
    agent = "planner" /\ plan # <<>> =>
        /\ result \in {"success", "failure", "retryable_failure"}
        /\ result = "success" <=> ValidDag(plan)

LEMMA PlanInvNext ==
    ASSUME PlanInv, [Next]_vars
    PROVE  PlanInv'
  <1>1. CASE PlannerReturns
    <2>1. result' = IF ValidDag(plan') THEN "success" ELSE Failure(ValidationError.retryable)
      BY <1>1 DEF PlannerReturns, Returns
    <2>2. Failure(ValidationError.retryable) \in {"failure", "retryable_failure"}
      BY DEF Failure
    <2> QED BY <2>1, <2>2 DEF PlanInv
  <1>2. ASSUME UNCHANGED <<agent, plan, result>>
        PROVE  PlanInv'
    BY <1>2 DEF PlanInv
  <1>3. ASSUME UNCHANGED <<agent, plan>>, result = "none" \/ agent # "planner"
        PROVE  PlanInv'
    BY <1>3 DEF PlanInv
  <1>4. CASE InvalidInput
    BY <1>3, <1>4 DEF InvalidInput, Returns
  <1>5. CASE AsksRouter
    BY <1>2, <1>5 DEF AsksRouter, agentVars
  <1>6. CASE RouterStep
    BY <1>2, <1>6 DEF RouterStep, agentVars
  <1>7. CASE RouterRaised
    BY <1>3, <1>7 DEF RouterRaised, Returns
  <1>8. CASE \E human \in BOOLEAN : ValidatorReturns(human)
    BY <1>3, <1>8 DEF ValidatorReturns, Returns, Ready
  <1>9. CASE ToolRefused \/ ToolEnds
    BY <1>3, <1>9 DEF ToolRefused, ToolEnds, Returns, Ready
  <1>10. CASE \E t \in Tools :
                 ToolCalled(t) \/ (agent = "tool" /\ (Register(t) \/ Unregister(t)))
    BY <1>2, <1>10 DEF ToolCalled, Register, Unregister
  <1>11. CASE BadTopK \/ RetrievalReturns
    BY <1>3, <1>11 DEF BadTopK, RetrievalReturns, Returns, Ready
  <1>12. CASE StoreStep
    BY <1>2, <1>12 DEF StoreStep, agentVars
  <1>13. CASE UNCHANGED vars
    BY <1>2, <1>13 DEF vars, agentVars
  <1> QED BY <1>1, <1>4, <1>5, <1>6, <1>7, <1>8, <1>9, <1>10, <1>11, <1>12, <1>13 DEF Next

\* A plan is accepted exactly if its tasks can be executed one after the other, for
\* plans of any size: Kahn's loop visits all tasks if and only if every set of them
\* has one that waits for none of the set (agents/planner.py, validate_plan_dag).
THEOREM AcceptedAreRunnable == Spec => []AcceptedPlansAreRunnable
  <1>1. Init => PlanInv
    BY DEF Init, PlanInv
  <1>2. TypeOK /\ PlanInv => AcceptedPlansAreRunnable
    <2> SUFFICES ASSUME TypeOK, PlanInv, agent = "planner", plan # <<>>
                 PROVE  result = "success" <=> Runnable(plan)
      BY DEF AcceptedPlansAreRunnable
    <2>1. plan \in PlanTasks
      BY DEF TypeOK, PlanTasks
    <2>2. ValidDag(plan) <=> Runnable(plan)
      BY <2>1, ValidDagIsRunnable
    <2> QED BY <2>2 DEF PlanInv
  <1>3. PlanInv /\ [Next]_vars => PlanInv'
    BY PlanInvNext
  <1> QED BY <1>1, <1>2, <1>3, AgentsTypeCorrect, PTL DEF Spec
=============================================================================
