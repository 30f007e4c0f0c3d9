----------------------------- MODULE LLMRouter -----------------------------
(***************************************************************************)
(* A call of LLMRouter.generate or generate_structured                     *)
(* (providers/router.py) with the providers it asks (providers/gemini.py,  *)
(* providers/groq.py) and the exceptions they raise (errors/exceptions.py).*)
(*                                                                         *)
(* All that a call changes is local to it, so that one call is modelled;   *)
(* one step is one reply of an SDK, or the deadline of asyncio.wait_for.   *)
(***************************************************************************)
EXTENDS Integers, Sequences, FiniteSets

CONSTANTS
    Names,       \* provider names, "gemini" and "groq" among them
    Routers,     \* the routers considered
    MaxRetries,  \* llm_max_retries
    NONE

ASSUME RouterAssumption ==
    /\ MaxRetries \in Nat /\ NONE \notin Names
    /\ IsFiniteSet(Names)
    /\ Routers \subseteq [registered : Seq(Names), default : Names,
                          fallback : Names, enabled : BOOLEAN]

VARIABLES
    router,  \* LLMRouter: _providers in order of registration, default_provider,
             \* fallback_provider, enable_fallback
    call     \* the locals of the call

routerVars == <<router, call>>

Registered == {router.registered[i] : i \in DOMAIN router.registered}

-----------------------------------------------------------------------------
(* errors/exceptions.py: a class, and the flag its constructor sets or is  *)
(* given.                                                                  *)

Error(class, retryable) == [class |-> class, retryable |-> retryable]
ConfigurationError == Error("Configuration", FALSE)
ValidationError == Error("Validation", TRUE)
TimeoutError == Error("Timeout", TRUE)
ProviderUnavailableError == Error("Unavailable", TRUE)
ProviderError(retryable) == Error("Provider", retryable)

Errors == {ConfigurationError, ValidationError, TimeoutError, ProviderUnavailableError,
           ProviderError(TRUE), ProviderError(FALSE)}

-----------------------------------------------------------------------------
(* The providers.  Exceptions of an SDK are classified by the words of     *)
(* their text, tried in this order.                                        *)

Words == {"429", "quota", "503", "unavailable", "401", "403", "connection"}

RateWords(p) == IF p = "gemini" THEN {"429", "quota"} ELSE {"429"}
BusyWords(p) == IF p = "gemini" THEN {"503", "unavailable"} ELSE {"503"}
DeniedWords(p) == IF p = "gemini" THEN {"401", "403"} ELSE {"401"}

MapException(p, text) ==
    IF text \cap (RateWords(p) \cup BusyWords(p)) # {} THEN ProviderUnavailableError
    ELSE IF text \cap DeniedWords(p) # {} THEN ProviderError(FALSE)
    ELSE IF "connection" \in text THEN ProviderError(TRUE) ELSE ProviderError(FALSE)

\* At most two of the words in one text.
Texts == {{v, w} : v \in Words, w \in Words} \cup {{}}

\* What generate raises: no key or no SDK, the deadline, a client of an unknown
\* kind, an exception of the SDK.
Raised(p) ==
    {ConfigurationError, TimeoutError, ProviderError(FALSE)}
        \cup {MapException(p, text) : text \in Texts}

-----------------------------------------------------------------------------
(* The router.                                                             *)

IsRetryableFailure(e) ==
    \/ e.class \in {"Unavailable", "Timeout"}
    \/ e.class = "Provider" /\ e.retryable

Idle == [phase |-> "idle", structured |-> FALSE, target |-> NONE, attempted |-> {},
         attempt |-> 0, corrections |-> {}, failures |-> [p \in Names |-> {}],
         error |-> {}]

RouterInit == router \in Routers /\ call = Idle

\* The provider is not part of the request: the default one is the primary.
Generate(structured) ==
    /\ call.phase = "idle"
    /\ call' = [call EXCEPT !.phase = "asking", !.structured = structured,
                            !.target = router.default, !.attempted = {router.default}]
    /\ UNCHANGED router

Raise(p, e) ==
    call' = [call EXCEPT !.phase = "failed", !.failures[p] = @ \cup {e}, !.error = {e},
                         !.corrections = {}]

\* A name nobody registered, the default one or the fallback.
Unregistered ==
    /\ call.phase = "asking" /\ call.target \notin Registered
    /\ Raise(call.target, ConfigurationError)
    /\ UNCHANGED router

\* The positions in _providers of those not attempted yet.
Candidates == {i \in DOMAIN router.registered : router.registered[i] \notin call.attempted}

FallbackIsNext == call.target = router.default /\ router.fallback # router.default

\* Mutant: nobody is asked after the fallback.
NextTargetFallbackOnly(next) ==
    next = IF FallbackIsNext THEN router.fallback ELSE NONE

\* The fallback after the primary, then the others in order.
NextTarget(next) ==
    \/ FallbackIsNext /\ next = router.fallback
    \/ ~FallbackIsNext /\ Candidates = {} /\ next = NONE
    \/ /\ ~FallbackIsNext
       /\ \E i \in Candidates : /\ next = router.registered[i]
                               /\ \A j \in Candidates : i <= j

\* Mutant: the next provider is sent the words of the one that failed.
GoOnSameMessages(p, e, next) ==
    call' = [call EXCEPT !.target = next, !.attempted = @ \cup {next},
                         !.failures[p] = @ \cup {e}, !.attempt = 0]

\* With another provider, and the messages of the request.
GoOn(p, e, next) ==
    call' = [call EXCEPT !.target = next, !.attempted = @ \cup {next},
                         !.failures[p] = @ \cup {e},
                         !.attempt = 0, !.corrections = {}]

\* ALL_PROVIDERS_FAILED.
AllFailed(p, e) ==
    call' = [call EXCEPT !.phase = "failed", !.failures[p] = @ \cup {e},
                         !.error = {ProviderError(TRUE)}, !.corrections = {}]

FailOver(p, e) ==
    \E next \in Names \cup {NONE} :
        /\ NextTarget(next)
        /\ IF next = NONE THEN AllFailed(p, e) ELSE GoOn(p, e, next)

Asking == call.phase = "asking" /\ call.target \in Registered

\* The except clause of the router.
Fails(e) ==
    /\ Asking /\ e \in Raised(call.target)
    /\ IF IsRetryableFailure(e) /\ router.enabled
       THEN FailOver(call.target, e) ELSE Raise(call.target, e)
    /\ UNCHANGED router

\* Text was asked for, or the text satisfies the schema.
Answers ==
    /\ Asking
    /\ call' = [call EXCEPT !.phase = "answered"]
    /\ UNCHANGED router

\* Mutant: one correction too many.
MisanswersOneMore ==
    /\ Asking /\ call.structured
    /\ IF call.attempt <= MaxRetries
       THEN call' = [call EXCEPT !.attempt = @ + 1, !.corrections = @ \cup {call.target}]
       ELSE Raise(call.target, ValidationError)
    /\ UNCHANGED router

\* generate_structured of a provider: the text and a correction join a copy of the
\* messages; ValidationError after max_retries + 1 texts, which the router passes on.
Misanswers ==
    /\ Asking /\ call.structured
    /\ IF call.attempt < MaxRetries
       THEN call' = [call EXCEPT !.attempt = @ + 1, !.corrections = @ \cup {call.target}]
       ELSE Raise(call.target, ValidationError)
    /\ UNCHANGED router

\* Whatever the provider does next; within its deadline it does something.
Reply == Unregistered \/ Answers \/ Misanswers \/ \E e \in Errors : Fails(e)

RouterNext == Reply \/ \E structured \in BOOLEAN : Generate(structured)

RouterSpec == RouterInit /\ [][RouterNext]_routerVars

-----------------------------------------------------------------------------
(* Properties.                                                             *)

\* The router and the call keep their types.
RouterTypeOK ==
    /\ router \in Routers
    /\ call \in [phase : {"idle", "asking", "answered", "failed"}, structured : BOOLEAN,
                 target : Names \cup {NONE}, attempted : SUBSET Names,
                 attempt : 0 .. MaxRetries, corrections : SUBSET Names,
                 failures : [Names -> SUBSET Errors], error : SUBSET Errors]
    /\ call.phase = "asking" => call.target \in Names
    /\ call.phase = "failed" <=> call.error # {}
    /\ Cardinality(call.error) <= 1

\* What a provider's failures amount to.
TroubleOf(errors) ==
    IF errors = {} THEN "none"
    ELSE IF ValidationError \in errors THEN "unusable"
    ELSE IF \A e \in errors : e.retryable THEN "transient" ELSE "permanent"

Promise == INSTANCE Failover WITH
    registered <- Registered,
    enabled <- router.enabled,
    trouble <- [p \in Names |-> TroubleOf(call.failures[p])],
    heard <- call.corrections,
    ending <- IF call.phase \in {"idle", "asking"} THEN "open"
              ELSE IF call.phase = "answered" THEN "answered"
              ELSE IF \E e \in call.error : e.retryable THEN "again" ELSE "gave up"

\* The router with its providers keeps the promise: order and classification of
\* failures in NextTarget, IsRetryableFailure and MapException, copies of messages;
\* and a call ends, however its providers fail.
CallEnds == call.phase = "asking" ~> call.phase # "asking"
ImplementsFailover == Promise!Spec /\ CallEnds
=============================================================================
