---------------------------- MODULE RouterProofs ----------------------------
(***************************************************************************)
(* Proofs about LLMRouter, for every set of provider names, every order of *)
(* registration, every default and fallback and every number of retries:   *)
(* the call keeps its types, and each of its steps is a step of Failover.  *)
(***************************************************************************)
EXTENDS LLMRouter, FiniteSetTheorems, TLAPS

Call == [phase : {"idle", "asking", "answered", "failed"}, structured : BOOLEAN,
         target : Names \cup {NONE}, attempted : SUBSET Names,
         attempt : 0 .. MaxRetries, corrections : SUBSET Names,
         failures : [Names -> SUBSET Errors], error : SUBSET Errors]

\* A failure the router fails over on is one its caller may try again after, and
\* none of a provider's own exceptions is a ValidationError.
LEMMA RaisedErrors ==
    ASSUME NEW p \in Names, NEW e \in Raised(p)
    PROVE  /\ e \in Errors /\ e # ValidationError
           /\ IsRetryableFailure(e) <=> e.retryable
  <1> DEFINE kinds == {ConfigurationError, TimeoutError, ProviderUnavailableError,
                       ProviderError(TRUE), ProviderError(FALSE)}
  <1>1. ASSUME NEW text \in Texts PROVE MapException(p, text) \in kinds
    BY DEF MapException
  <1>2. e \in kinds
    <2>1. e \in {ConfigurationError, TimeoutError, ProviderError(FALSE)}
              \/ \E text \in Texts : e = MapException(p, text)
      BY Zenon DEF Raised
    <2> QED BY <1>1, <2>1
  <1>3. kinds \subseteq Errors
    BY DEF Errors
  <1>4. ASSUME NEW f \in kinds
        PROVE  f # ValidationError /\ (IsRetryableFailure(f) <=> f.retryable)
    BY DEF IsRetryableFailure, Error, ConfigurationError, ValidationError, TimeoutError,
           ProviderUnavailableError, ProviderError
  <1> QED BY <1>2, <1>3, <1>4

(***************************************************************************)
(* The invariant.  The names attempted before the present one failed with  *)
(* passing troubles; the present one and all others have not failed; what  *)
(* was said is said of the present one.                                    *)
(***************************************************************************)

Passing(errors) == errors # {} /\ ValidationError \notin errors /\ \A e \in errors : e.retryable

InTrouble ==
    /\ call.target \in call.attempted
    /\ router.default \in call.attempted
    /\ call.target = router.default => call.attempted = {router.default}
    /\ \A p \in Names : p \notin call.attempted \ {call.target} => call.failures[p] = {}
    /\ \A p \in call.attempted \ {call.target} : Passing(call.failures[p])
    /\ call.corrections \subseteq {call.target}
    /\ call.target \in Names

RouterInvariant ==
    /\ router \in Routers /\ call \in Call
    /\ call.phase = "failed" <=> call.error # {}
    /\ Cardinality(call.error) <= 1
    /\ call.phase = "idle" => call = Idle
    /\ call.phase = "asking" => InTrouble

\* The invariant has the types in it.
LEMMA InvariantTypes == RouterInvariant => RouterTypeOK
  BY DEF RouterInvariant, RouterTypeOK, Call, InTrouble

\* A router that can be configured.
LEMMA RouterType ==
    ASSUME router \in Routers
    PROVE  /\ router.registered \in Seq(Names)
           /\ router.default \in Names /\ router.fallback \in Names
           /\ router.enabled \in BOOLEAN
           /\ Registered \subseteq Names
           /\ NONE \notin Names
  <1>1. router \in [registered : Seq(Names), default : Names, fallback : Names,
                    enabled : BOOLEAN]
    BY RouterAssumption
  <1>2. \A i \in DOMAIN router.registered : router.registered[i] \in Names
    BY <1>1
  <1> QED BY <1>1, <1>2, RouterAssumption DEF Registered

\* No call: nobody failed.
LEMMA IdleType == Idle \in Call /\ Idle.phase = "idle" /\ Idle.error = {}
  <1>1. [p \in Names |-> {}] \in [Names -> SUBSET Errors]
    OBVIOUS
  <1>2. 0 \in 0 .. MaxRetries
    BY RouterAssumption
  <1> QED BY <1>1, <1>2 DEF Idle, Call

\* No call is made at first.
LEMMA RouterStarts == RouterInit => RouterInvariant
  <1> SUFFICES ASSUME RouterInit PROVE RouterInvariant
    OBVIOUS
  <1>1. Cardinality(Idle.error) = 0
    BY IdleType, FS_EmptySet
  <1> QED BY <1>1, IdleType DEF RouterInit, RouterInvariant

\* What one failure amounts to.
LEMMA OneTrouble ==
    ASSUME NEW e \in Errors
    PROVE  TroubleOf({e}) = IF e = ValidationError THEN "unusable"
                            ELSE IF e.retryable THEN "transient" ELSE "permanent"
  BY DEF TroubleOf

\* The provider that is asked is in charge, in the words of the promise.
LEMMA TargetInCharge ==
    ASSUME RouterInvariant, call.phase = "asking"
    PROVE  call.target \in Names /\ call.failures[call.target] = {}
           /\ Promise!InCharge(call.target)
  <1>1. InTrouble /\ call.target \in Names /\ call.failures[call.target] = {}
    BY DEF RouterInvariant, InTrouble
  <1>2. TroubleOf({}) = "none"
    BY DEF TroubleOf
  <1> QED BY <1>1, <1>2 DEF InTrouble, Promise!InCharge

\* The call ends with a failure of the provider that is asked, which another provider
\* cannot make good or must not be asked to.
LEMMA RaiseKeeps ==
    ASSUME RouterInvariant, call.phase = "asking", NEW e \in Errors,
           Raise(call.target, e), router' = router,
           call.target \in Registered \/ e = ConfigurationError,
           e.retryable /\ e # ValidationError => ~router.enabled
    PROVE  RouterInvariant' /\ \E t \in {"transient", "unusable", "permanent"} :
                                   Promise!Trouble(call.target, t)
  <1> DEFINE p == call.target
             t == TroubleOf({e})
  <1>1. p \in Names /\ call.failures[p] = {} /\ Promise!InCharge(p)
    BY TargetInCharge
  <1>2. /\ call'.phase = "failed" /\ call'.error = {e} /\ call'.corrections = {}
        /\ call'.failures = [call.failures EXCEPT ![p] = {e}]
        /\ call' \in Call
    BY <1>1 DEF Raise, RouterInvariant, Call
  <1>3. RouterInvariant'
    <2>1. Cardinality({e}) = 1
      BY FS_Singleton
    <2> QED BY <1>2, <2>1 DEF RouterInvariant
  <1>4. t = IF e = ValidationError THEN "unusable"
            ELSE IF e.retryable THEN "transient" ELSE "permanent"
    BY OneTrouble
  <1>5. [q \in Names |-> TroubleOf(call'.failures[q])]
        = [[q \in Names |-> TroubleOf(call.failures[q])] EXCEPT ![p] = t]
    BY <1>1, <1>2 DEF RouterInvariant, Call
  <1>6. Registered' = Registered
    BY DEF Registered
  <1>7. (IF \E x \in call'.error : x.retryable THEN "again" ELSE "gave up")
        = IF e.retryable THEN "again" ELSE "gave up"
    BY <1>2
  <1>8. ValidationError.retryable /\ ~ConfigurationError.retryable
        /\ ConfigurationError # ValidationError
    BY DEF ValidationError, ConfigurationError, Error
  <1>9. Promise!Trouble(p, t)
    <2>1. p \in Registered \/ t = "permanent"
      BY <1>4, <1>8
    <2>2. (IF e.retryable THEN "again" ELSE "gave up") \in Promise!Endings(t)
      <3>1. Promise!Endings("permanent") = {"gave up"}
        BY DEF Promise!Endings
      <3>2. Promise!Endings("unusable") = {"again"}
        BY DEF Promise!Endings
      <3>3. ~router.enabled => Promise!Endings("transient") = {"again"}
        BY DEF Promise!Endings
      <3> QED BY <1>4, <1>8, <3>1, <3>2, <3>3
    <2> QED BY <1>1, <1>2, <1>5, <1>6, <1>7, <2>1, <2>2 DEF Promise!Trouble
  <1> QED BY <1>3, <1>4, <1>9

\* The router goes on with a provider it did not attempt before.
LEMMA GoOnKeeps ==
    ASSUME RouterInvariant, call.phase = "asking", call.target \in Registered,
           router.enabled, NEW e \in Errors, e.retryable, e # ValidationError,
           NEW next \in Names, NextTarget(next),
           GoOn(call.target, e, next), router' = router
    PROVE  RouterInvariant' /\ Promise!Trouble(call.target, "transient")
  <1> DEFINE p == call.target
  <1>1. p \in Names /\ call.failures[p] = {} /\ Promise!InCharge(p) /\ InTrouble
    BY TargetInCharge DEF RouterInvariant
  <1>2. next \notin call.attempted
    BY <1>1, RouterAssumption DEF NextTarget, Candidates, FallbackIsNext, InTrouble
  <1>3. /\ call'.phase = "asking" /\ call'.error = call.error /\ call'.corrections = {}
        /\ call'.failures = [call.failures EXCEPT ![p] = {e}]
        /\ call'.target = next /\ call'.attempted = call.attempted \cup {next}
        /\ call' \in Call
    <2>1. 0 \in 0 .. MaxRetries
      BY RouterAssumption
    <2> QED BY <1>1, <2>1 DEF GoOn, RouterInvariant, Call
  <1>4. RouterInvariant'
    <2>1. Passing({e})
      BY DEF Passing
    <2>2. \A q \in call.attempted : Passing(call'.failures[q])
      BY <1>1, <1>3, <2>1 DEF InTrouble, RouterInvariant, Call
    <2>3. \A q \in Names : q \notin call.attempted => call'.failures[q] = {}
      BY <1>1, <1>3 DEF InTrouble, RouterInvariant, Call
    <2>4. call'.attempted \ {call'.target} = call.attempted
      BY <1>2, <1>3
    <2>5. next # router.default
      BY <1>1, <1>2 DEF InTrouble
    <2>6. InTrouble'
      BY <1>1, <1>3, <2>2, <2>3, <2>4, <2>5 DEF InTrouble
    <2> QED BY <1>3, <2>6 DEF RouterInvariant
  <1>5. [q \in Names |-> TroubleOf(call'.failures[q])]
        = [[q \in Names |-> TroubleOf(call.failures[q])] EXCEPT ![p] = "transient"]
    BY <1>1, <1>3, OneTrouble DEF RouterInvariant, Call
  <1>6. Registered' = Registered
    BY DEF Registered
  <1>7. "open" \in Promise!Endings("transient")
    BY DEF Promise!Endings
  <1> QED BY <1>1, <1>3, <1>4, <1>5, <1>6, <1>7 DEF Promise!Trouble

\* When nobody is left, every registered provider had its passing trouble.
LEMMA AllFailedKeeps ==
    ASSUME RouterInvariant, call.phase = "asking", call.target \in Registered,
           router.enabled, NEW e \in Errors, e.retryable, e # ValidationError,
           NextTarget(NONE), AllFailed(call.target, e), router' = router
    PROVE  RouterInvariant' /\ Promise!Trouble(call.target, "transient")
  <1> DEFINE p == call.target
  <1>1. p \in Names /\ call.failures[p] = {} /\ Promise!InCharge(p) /\ InTrouble
    BY TargetInCharge DEF RouterInvariant
  <1>2. Candidates = {}
    <2>1. router.fallback # NONE /\ \A i \in DOMAIN router.registered :
                                        router.registered[i] # NONE
      BY RouterType DEF RouterInvariant, Registered
    <2> QED BY <2>1 DEF NextTarget, Candidates
  <1>3. /\ call'.phase = "failed" /\ call'.error = {ProviderError(TRUE)}
        /\ call'.corrections = {}
        /\ call'.failures = [call.failures EXCEPT ![p] = {e}]
        /\ call' \in Call
    BY <1>1 DEF AllFailed, RouterInvariant, Call, Errors
  <1>4. RouterInvariant'
    <2>1. Cardinality({ProviderError(TRUE)}) = 1
      BY FS_Singleton
    <2> QED BY <1>3, <2>1 DEF RouterInvariant
  <1>5. [q \in Names |-> TroubleOf(call'.failures[q])]
        = [[q \in Names |-> TroubleOf(call.failures[q])] EXCEPT ![p] = "transient"]
    BY <1>1, <1>3, OneTrouble DEF RouterInvariant, Call
  <1>6. Registered' = Registered
    BY DEF Registered
  <1>7. \A q \in Registered : TroubleOf(call'.failures[q]) = "transient"
    <2>1. TroubleOf({e}) = "transient"
      BY OneTrouble
    <2>2. \A q \in Registered : q \in call.attempted /\ q \in Names
      BY <1>2, RouterType DEF Candidates, Registered, RouterInvariant
    <2>3. \A q \in call.attempted \ {p} : TroubleOf(call.failures[q]) = "transient"
      BY <1>1 DEF InTrouble, Passing, TroubleOf
    <2> QED BY <1>1, <1>3, <2>1, <2>2, <2>3 DEF RouterInvariant, Call
  <1>8. "again" \in Promise!Endings("transient")
    BY <1>6, <1>7, RouterType DEF Promise!Endings, RouterInvariant
  <1>9. ProviderError(TRUE).retryable
    BY DEF ProviderError, Error
  <1> QED BY <1>1, <1>3, <1>4, <1>5, <1>6, <1>8, <1>9 DEF Promise!Trouble

\* A failure in the words of the promise.
LEMMA FailsKeeps ==
    ASSUME RouterInvariant, NEW e, Fails(e)
    PROVE  RouterInvariant' /\ \E t \in {"transient", "unusable", "permanent"} :
                                   Promise!Trouble(call.target, t)
  <1>1. /\ call.phase = "asking" /\ call.target \in Registered /\ call.target \in Names
        /\ e \in Errors /\ e # ValidationError /\ router' = router
        /\ IsRetryableFailure(e) <=> e.retryable
    BY TargetInCharge, RaisedErrors DEF Fails, Asking
  <1>2. CASE IsRetryableFailure(e) /\ router.enabled
    <2>1. PICK next \in Names \cup {NONE} :
              /\ NextTarget(next)
              /\ IF next = NONE THEN AllFailed(call.target, e)
                                ELSE GoOn(call.target, e, next)
      BY <1>2 DEF Fails, FailOver
    <2>2. CASE next = NONE
      BY <1>1, <1>2, <2>1, <2>2, AllFailedKeeps
    <2>3. CASE next # NONE
      BY <1>1, <1>2, <2>1, <2>3, GoOnKeeps
    <2> QED BY <2>2, <2>3
  <1>3. CASE ~(IsRetryableFailure(e) /\ router.enabled)
    <2>1. Raise(call.target, e)
      BY <1>3 DEF Fails
    <2> QED BY <1>1, <1>3, <2>1, RaiseKeeps
  <1> QED BY <1>2, <1>3

\* An answer that does not satisfy the schema.
LEMMA MisanswersKeeps ==
    ASSUME RouterInvariant, Misanswers
    PROVE  RouterInvariant' /\ \/ Promise!Hear(call.target)
                               \/ \E t \in {"transient", "unusable", "permanent"} :
                                      Promise!Trouble(call.target, t)
  <1> DEFINE p == call.target
  <1>1. /\ call.phase = "asking" /\ p \in Registered /\ p \in Names /\ InTrouble
        /\ router' = router /\ Promise!InCharge(p)
    BY TargetInCharge DEF Misanswers, Asking, RouterInvariant
  <1>2. CASE call.attempt < MaxRetries
    <2>1. /\ call'.phase = "asking" /\ call'.error = call.error
          /\ call'.corrections = {p} /\ call'.failures = call.failures
          /\ call'.target = p /\ call'.attempted = call.attempted
          /\ call' \in Call
      <3>1. call.attempt + 1 \in 0 .. MaxRetries
        BY <1>2, RouterAssumption DEF RouterInvariant, Call
      <3>2. call.corrections \cup {p} = {p}
        BY <1>1 DEF InTrouble
      <3>3. call' = [call EXCEPT !.attempt = call.attempt + 1, !.corrections = {p}]
        BY <1>2, <3>2 DEF Misanswers
      <3>4. call \in Call /\ {p} \in SUBSET Names
        BY <1>1 DEF RouterInvariant
      <3> QED BY <1>1, <3>1, <3>3, <3>4 DEF Call
    <2>2. RouterInvariant'
      BY <1>1, <2>1 DEF RouterInvariant, InTrouble
    <2>3. Promise!Hear(p)
      BY <1>1, <2>1 DEF Promise!Hear, Registered
    <2> QED BY <2>2, <2>3
  <1>3. CASE ~(call.attempt < MaxRetries)
    <2>1. Raise(p, ValidationError)
      BY <1>3 DEF Misanswers
    <2>2. ValidationError \in Errors
      BY DEF Errors
    <2> QED BY <1>1, <2>1, <2>2, RaiseKeeps
  <1> QED BY <1>2, <1>3

\* Every reply keeps the invariant and is a step the promise allows.
LEMMA ReplyKeeps ==
    ASSUME RouterInvariant, Reply
    PROVE  RouterInvariant' /\ Promise!Next
  <1>1. CASE Unregistered
    <2>1. ConfigurationError \in Errors /\ ~ConfigurationError.retryable
      BY DEF Errors, ConfigurationError, Error
    <2>2. call.phase = "asking" /\ call.target \in Names /\ router' = router
          /\ Raise(call.target, ConfigurationError)
      BY <1>1, TargetInCharge DEF Unregistered
    <2> QED BY <2>1, <2>2, RaiseKeeps DEF Promise!Next
  <1>2. CASE Answers
    <2>1. /\ call.phase = "asking" /\ call.target \in Registered /\ call.target \in Names
          /\ router' = router /\ Promise!InCharge(call.target)
      BY <1>2, TargetInCharge DEF Answers, Asking
    <2>2. /\ call'.phase = "answered" /\ call'.error = call.error
          /\ call'.corrections = call.corrections /\ call'.failures = call.failures
          /\ call' \in Call
      BY <1>2 DEF Answers, RouterInvariant, Call
    <2>3. RouterInvariant'
      BY <2>1, <2>2 DEF RouterInvariant
    <2>4. PICK p \in Names : p = call.target
      BY <2>1
    <2>5. Promise!Answer(p)
      BY <2>1, <2>2, <2>4 DEF Promise!Answer, Registered
    <2> QED BY <2>3, <2>5 DEF Promise!Next
  <1>3. CASE Misanswers
    <2>1. call.target \in Names
      BY <1>3, TargetInCharge DEF Misanswers, Asking
    <2> QED BY <1>3, <2>1, MisanswersKeeps DEF Promise!Next
  <1>4. CASE \E e \in Errors : Fails(e)
    <2>1. PICK e \in Errors : Fails(e)
      BY <1>4
    <2>2. call.target \in Names
      BY <2>1, TargetInCharge DEF Fails, Asking
    <2> QED BY <2>1, <2>2, FailsKeeps DEF Promise!Next
  <1> QED BY <1>1, <1>2, <1>3, <1>4 DEF Reply

\* A new call is no step of the promise.
LEMMA GenerateKeeps ==
    ASSUME RouterInvariant, NEW structured \in BOOLEAN, Generate(structured)
    PROVE  RouterInvariant' /\ UNCHANGED Promise!vars
  <1>1. /\ call = Idle /\ router' = router /\ router.default \in Names
        /\ Idle \in Call /\ Idle.error = {} /\ Idle.phase = "idle"
        /\ Idle.corrections = {} /\ Idle.failures = [p \in Names |-> {}]
    BY RouterType, IdleType DEF Generate, RouterInvariant, Idle
  <1>2. /\ call'.phase = "asking" /\ call'.error = {}
        /\ call'.corrections = {} /\ call'.failures = [p \in Names |-> {}]
        /\ call'.target = router.default /\ call'.attempted = {router.default}
        /\ call' \in Call
    BY <1>1 DEF Generate, Call
  <1>3. RouterInvariant'
    <2>1. InTrouble'
      BY <1>1, <1>2 DEF InTrouble
    <2>2. Cardinality(call'.error) = 0
      BY <1>2, FS_EmptySet
    <2> QED BY <1>1, <1>2, <2>1, <2>2 DEF RouterInvariant
  <1>4. call'.failures = call.failures /\ call'.corrections = call.corrections
        /\ call'.error = call.error
    BY <1>1, <1>2
  <1> QED BY <1>1, <1>2, <1>3, <1>4 DEF Promise!vars, Registered

\* The caller may call again.
LEMMA ForgetKeeps ==
    ASSUME RouterInvariant, call.phase \in {"answered", "failed"}, call' = Idle,
           router' = router
    PROVE  RouterInvariant' /\ Promise!Next
  <1>1. /\ Idle \in Call /\ Idle.error = {} /\ Idle.phase = "idle"
        /\ Idle.corrections = {} /\ Idle.failures = [p \in Names |-> {}]
    BY IdleType DEF Idle
  <1>2. RouterInvariant'
    <2>1. Cardinality(call'.error) = 0
      BY <1>1, FS_EmptySet
    <2> QED BY <1>1, <2>1 DEF RouterInvariant
  <1>3. Promise!Again
    BY <1>1 DEF Promise!Again, Registered, TroubleOf
  <1> QED BY <1>2, <1>3 DEF Promise!Next

\* The state of a router is a state of the promise from the first.
LEMMA PromiseStarts == RouterInit => Promise!Init
  <1> SUFFICES ASSUME RouterInit PROVE Promise!Init
    OBVIOUS
  <1>1. /\ call.phase = "idle" /\ call.corrections = {}
        /\ call.failures = [p \in Names |-> {}]
    BY DEF RouterInit, Idle
  <1>2. TroubleOf({}) = "none"
    BY DEF TroubleOf
  <1>3. Registered \subseteq Names /\ router.enabled \in BOOLEAN
    BY RouterType DEF RouterInit
  <1> QED BY <1>1, <1>2, <1>3 DEF Promise!Init

\* Every step of the router alone.
LEMMA RouterStepKeeps ==
    ASSUME RouterInvariant, [RouterNext]_routerVars
    PROVE  RouterInvariant' /\ [Promise!Next]_Promise!vars
  <1>1. CASE Reply
    BY <1>1, ReplyKeeps
  <1>2. CASE \E structured \in BOOLEAN : Generate(structured)
    BY <1>2, GenerateKeeps
  <1>3. CASE UNCHANGED routerVars
    BY <1>3 DEF routerVars, RouterInvariant, InTrouble, Call, Promise!vars, Registered
  <1> QED BY <1>1, <1>2, <1>3 DEF RouterNext

\* The router and its call keep their types, whatever the providers answer
\* (providers/router.py, generate and generate_structured).
THEOREM RouterTypeCorrect == RouterSpec => []RouterTypeOK
  <1>1. RouterInvariant /\ [RouterNext]_routerVars => RouterInvariant'
    BY RouterStepKeeps
  <1> QED BY <1>1, RouterStarts, InvariantTypes, PTL DEF RouterSpec

\* The router keeps the promise of Failover: nobody in trouble is asked again, no
\* provider is sent what another one said, and the caller is told to try again exactly
\* when that can help (_is_retryable_failure, the two loops of LLMRouter).
THEOREM RouterKeepsPromise == RouterSpec => Promise!Spec
  <1>1. RouterInvariant /\ [RouterNext]_routerVars
        => RouterInvariant' /\ [Promise!Next]_Promise!vars
    BY RouterStepKeeps
  <1> QED BY <1>1, RouterStarts, PromiseStarts, PTL DEF RouterSpec, Promise!Spec
=============================================================================
