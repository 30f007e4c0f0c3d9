---------------------------- MODULE GatewayProofs ----------------------------
(***************************************************************************)
(* Proofs about ApiGateway, for every set of principals and addresses,     *)
(* every pair of limits, every window and every bound of the store.        *)
(***************************************************************************)
EXTENDS ApiGateway, FiniteSetTheorems, TLAPS

(***************************************************************************)
(* The limiter.  That no key is over its limit is inductive only together  *)
(* with the numbering of the stamps of the present time: a new stamp that  *)
(* were already there would be a request that is not counted.              *)
(***************************************************************************)

StampsOf == (0 .. MaxTime) \X (1 .. PublicLimit + PrincipalLimit)

AtNow(k) == {s \in windows[k] : s[1] = now}

KeyInvariant(k) ==
    /\ \A s \in windows[k] : s[1] <= now /\ s[2] <= Limit[k]
    /\ \A s \in AtNow(k) : s[2] <= Cardinality(AtNow(k))
    /\ Cardinality(InWindow(windows[k], now)) <= Limit[k]

LimiterInvariant ==
    /\ now \in 0 .. MaxTime
    /\ windows \in [Keys -> SUBSET StampsOf]
    /\ \A k \in Keys : KeyInvariant(k)

\* The limits.
LEMMA Limits ==
    ASSUME NEW k \in Keys
    PROVE  Limit[k] \in Nat \ {0} /\ Limit[k] <= PublicLimit + PrincipalLimit
  BY GatewayAssumption DEF Limit

\* The stamps of a key are a finite set, and so is every part of it.
LEMMA StampsFinite ==
    ASSUME NEW stamps \in SUBSET StampsOf
    PROVE  /\ IsFiniteSet(stamps) /\ Cardinality(stamps) \in Nat
           /\ \A part \in SUBSET stamps :
                 /\ IsFiniteSet(part) /\ Cardinality(part) \in Nat
                 /\ Cardinality(part) <= Cardinality(stamps)
                 /\ part # stamps => Cardinality(part) < Cardinality(stamps)
  <1>1. IsFiniteSet(0 .. MaxTime) /\ IsFiniteSet(1 .. PublicLimit + PrincipalLimit)
    BY GatewayAssumption, FS_Interval
  <1>2. IsFiniteSet(StampsOf)
    BY <1>1, FS_Product DEF StampsOf
  <1>3. IsFiniteSet(stamps)
    BY <1>2, FS_Subset
  <1> QED BY <1>3, FS_Subset, FS_CardinalityType

\* A stamp is a time and a number.
LEMMA StampType ==
    ASSUME NEW s \in StampsOf
    PROVE  s[1] \in 0 .. MaxTime /\ s[2] \in 1 .. PublicLimit + PrincipalLimit
           /\ s = <<s[1], s[2]>>
  BY DEF StampsOf

\* The next stamp is new, belongs to the window and has a number within the limit.
LEMMA StampIsNew ==
    ASSUME LimiterInvariant, NEW k \in Keys, Grants(k)
    PROVE  /\ Stamp(k) \in StampsOf /\ Stamp(k) \notin windows[k]
           /\ Stamp(k) = <<now, Cardinality(AtNow(k)) + 1>>
           /\ Cardinality(AtNow(k)) + 1 \in 1 .. Limit[k]
  <1>1. windows[k] \in SUBSET StampsOf /\ KeyInvariant(k) /\ now \in 0 .. MaxTime
    BY DEF LimiterInvariant
  <1>2. AtNow(k) \subseteq InWindow(windows[k], now)
    BY <1>1, StampType, GatewayAssumption DEF AtNow, InWindow
  <1>3. InWindow(windows[k], now) \in SUBSET StampsOf
    BY <1>1 DEF InWindow
  <1>4. Cardinality(AtNow(k)) \in Nat
        /\ Cardinality(AtNow(k)) <= Cardinality(InWindow(windows[k], now))
        /\ Cardinality(InWindow(windows[k], now)) \in Nat
    BY <1>2, <1>3, StampsFinite
  <1>5. Cardinality(AtNow(k)) + 1 \in 1 .. Limit[k]
    BY <1>4, Limits DEF Grants
  <1>6. Stamp(k) = <<now, Cardinality(AtNow(k)) + 1>>
    BY DEF Stamp, AtNow
  <1>7. Stamp(k) \in StampsOf
    BY <1>1, <1>5, <1>6, Limits, GatewayAssumption DEF StampsOf
  <1>8. Stamp(k) \notin windows[k]
    <2> SUFFICES ASSUME Stamp(k) \in windows[k] PROVE FALSE
      OBVIOUS
    <2>1. Stamp(k)[1] = now /\ Stamp(k)[2] = Cardinality(AtNow(k)) + 1
      BY <1>6
    <2>2. Stamp(k) \in AtNow(k)
      BY <2>1 DEF AtNow
    <2> QED BY <1>1, <1>4, <2>1, <2>2 DEF KeyInvariant
  <1> QED BY <1>5, <1>6, <1>7, <1>8

\* A stale key has nothing in its window.
LEMMA SweptWindow ==
    ASSUME LimiterInvariant, NEW k \in Keys
    PROVE  /\ InWindow(Swept[k], now) = InWindow(windows[k], now)
           /\ Swept[k] \in SUBSET StampsOf
           /\ Swept[k] = windows[k] \/ Swept[k] = {}
  <1>1. windows[k] \in SUBSET StampsOf /\ now \in 0 .. MaxTime
    BY DEF LimiterInvariant
  <1>2. Swept[k] = IF Stale(k) THEN {} ELSE windows[k]
    BY DEF Swept
  <1>3. CASE Stale(k)
    <2>1. \A s \in windows[k] : ~(s[1] > now - Window)
      BY <1>1, <1>3, StampType, GatewayAssumption DEF Stale
    <2> QED BY <1>2, <1>3, <2>1 DEF InWindow
  <1>4. CASE ~Stale(k)
    BY <1>1, <1>2, <1>4
  <1> QED BY <1>3, <1>4

\* check_rate_limit of key k: the others keep their windows, k keeps what is in its
\* window and takes the stamp of the request if it is granted.
LEMMA RecordKeeps ==
    ASSUME LimiterInvariant, NEW k \in Keys, Record(k), now' = now
    PROVE  /\ LimiterInvariant'
           /\ \A j \in Keys \ {k} : InWindow(windows'[j], now) = InWindow(windows[j], now)
           /\ \A j \in Keys \ {k} : windows'[j] = windows[j] \/ windows'[j] = {}
           /\ Grants(k) => windows'[k] = InWindow(windows[k], now) \cup {Stamp(k)}
           /\ ~Grants(k) => windows'[k] = InWindow(windows[k], now)
           /\ InWindow(windows'[k], now) = windows'[k]
  <1> DEFINE old == InWindow(windows[k], now)
  <1>1. /\ windows \in [Keys -> SUBSET StampsOf] /\ now \in 0 .. MaxTime
        /\ old \in SUBSET StampsOf /\ old \subseteq windows[k] /\ KeyInvariant(k)
    BY DEF LimiterInvariant, InWindow
  <1>2. Swept \in [Keys -> SUBSET StampsOf]
    BY SweptWindow DEF Swept
  <1>3. /\ windows' \in [Keys -> SUBSET StampsOf]
        /\ windows'[k] = IF Grants(k) THEN old \cup {Stamp(k)} ELSE old
        /\ \A j \in Keys \ {k} : windows'[j] = Swept[j]
    BY <1>1, <1>2, StampIsNew DEF Record
  <1>4. \A j \in Keys \ {k} : InWindow(windows'[j], now) = InWindow(windows[j], now)
    BY <1>3, SweptWindow
  <1>5. InWindow(windows'[k], now) = windows'[k]
    <2>1. Grants(k) => Stamp(k)[1] > now - Window
      BY <1>1, StampIsNew, GatewayAssumption
    <2> QED BY <1>3, <2>1 DEF InWindow
  <1>6. ASSUME NEW j \in Keys, j # k PROVE KeyInvariant(j)'
    <2>1. windows'[j] = windows[j] \/ windows'[j] = {}
      BY <1>3, <1>6, SweptWindow
    <2>2. KeyInvariant(j)
      BY DEF LimiterInvariant
    <2>3. CASE windows'[j] = windows[j]
      BY <2>2, <2>3 DEF KeyInvariant, AtNow, InWindow
    <2>4. CASE windows'[j] = {}
      <3>1. InWindow(windows'[j], now') = {}
        BY <2>4 DEF InWindow
      <3>2. Cardinality({}) = 0
        BY FS_EmptySet
      <3> QED BY <2>4, <3>1, <3>2, Limits DEF KeyInvariant, AtNow
    <2> QED BY <2>1, <2>3, <2>4
  <1>7. \A s \in windows[k] : s[1] <= now /\ s[2] <= Limit[k]
    BY <1>1 DEF KeyInvariant
  <1>8. \A s \in AtNow(k) : s \in old
    BY <1>1, StampType, GatewayAssumption DEF AtNow, InWindow
  <1>9. KeyInvariant(k)'
    <2>1. CASE Grants(k)
      <3> DEFINE n == Cardinality(AtNow(k))
      <3>1. /\ Stamp(k) = <<now, n + 1>> /\ Stamp(k) \notin windows[k]
            /\ n + 1 \in 1 .. Limit[k] /\ Stamp(k) \in StampsOf
        BY <2>1, StampIsNew
      <3>2. Stamp(k)[1] = now /\ Stamp(k)[2] = n + 1
        BY <3>1
      <3>3. \A s \in windows'[k] : s[1] <= now' /\ s[2] <= Limit[k]
        BY <1>1, <1>3, <1>7, <2>1, <3>1, <3>2
      <3>4. AtNow(k)' = AtNow(k) \cup {Stamp(k)}
        BY <1>1, <1>3, <1>8, <2>1, <3>2 DEF AtNow
      <3>5. AtNow(k) \in SUBSET StampsOf
        BY <1>1 DEF AtNow
      <3>6. Cardinality(AtNow(k)') = n + 1 /\ n \in Nat
        <4>1. Stamp(k) \notin AtNow(k)
          BY <3>1 DEF AtNow
        <4> QED BY <3>4, <3>5, <4>1, StampsFinite, FS_AddElement
      <3>7. \A s \in AtNow(k)' : s[2] <= Cardinality(AtNow(k)')
        <4>1. \A s \in AtNow(k) : s[2] <= n /\ s[2] \in Nat
          BY <1>1, <3>5, StampType DEF KeyInvariant
        <4> QED BY <3>2, <3>4, <3>6, <4>1
      <3>8. Cardinality(windows'[k]) <= Limit[k]
        <4>1. Stamp(k) \notin old
          BY <1>1, <3>1
        <4>2. Cardinality(windows'[k]) = Cardinality(old) + 1
          BY <1>1, <1>3, <2>1, <4>1, StampsFinite, FS_AddElement
        <4>3. Cardinality(old) \in Nat
          BY <1>1, StampsFinite
        <4> QED BY <2>1, <4>2, <4>3, Limits DEF Grants
      <3> QED BY <1>5, <3>3, <3>7, <3>8 DEF KeyInvariant
    <2>2. CASE ~Grants(k)
      <3>1. windows'[k] = old
        BY <1>3, <2>2
      <3>2. AtNow(k)' = AtNow(k)
        BY <1>1, <1>8, <3>1 DEF AtNow
      <3> QED BY <1>1, <1>5, <1>7, <3>1, <3>2 DEF KeyInvariant
    <2> QED BY <2>1, <2>2
  <1>10. LimiterInvariant'
    BY <1>1, <1>3, <1>6, <1>9 DEF LimiterInvariant
  <1>11. \A j \in Keys \ {k} : windows'[j] = windows[j] \/ windows'[j] = {}
    BY <1>3, SweptWindow
  <1> QED BY <1>3, <1>4, <1>5, <1>10, <1>11

\* Time empties windows and never fills them.
LEMMA TickKeeps ==
    ASSUME LimiterInvariant, Tick
    PROVE  /\ LimiterInvariant'
           /\ \A k \in Keys : InWindow(windows[k], now + 1)
                                  = InWindow(InWindow(windows[k], now), now + 1)
  <1>1. /\ now \in 0 .. MaxTime /\ now' = now + 1 /\ now' \in 0 .. MaxTime
        /\ windows' = windows /\ windows \in [Keys -> SUBSET StampsOf]
    BY GatewayAssumption DEF Tick, LimiterInvariant
  <1>2. ASSUME NEW k \in Keys
        PROVE  /\ KeyInvariant(k)'
               /\ InWindow(windows[k], now + 1)
                      = InWindow(InWindow(windows[k], now), now + 1)
    <2>1. KeyInvariant(k) /\ windows[k] \in SUBSET StampsOf
      BY <1>1 DEF LimiterInvariant
    <2>2. \A s \in windows[k] : s[1] \in Nat /\ s[1] <= now /\ s[2] <= Limit[k]
      BY <2>1, StampType DEF KeyInvariant
    <2>3. \A s \in windows'[k] : s[1] <= now' /\ s[2] <= Limit[k]
      BY <1>1, <2>2
    <2>4. AtNow(k)' = {}
      BY <1>1, <2>2 DEF AtNow
    <2>5. InWindow(windows[k], now + 1) \subseteq InWindow(windows[k], now)
      BY <1>1, <2>2, GatewayAssumption DEF InWindow
    <2>6. Cardinality(InWindow(windows[k], now + 1)) <= Limit[k]
      <3>1. InWindow(windows[k], now) \in SUBSET StampsOf
        BY <2>1 DEF InWindow
      <3>2. /\ Cardinality(InWindow(windows[k], now + 1))
                   <= Cardinality(InWindow(windows[k], now))
            /\ Cardinality(InWindow(windows[k], now + 1)) \in Nat
            /\ Cardinality(InWindow(windows[k], now)) \in Nat
        BY <2>5, <3>1, StampsFinite
      <3> QED BY <2>1, <3>2, Limits DEF KeyInvariant
    <2>7. KeyInvariant(k)'
      BY <1>1, <2>3, <2>4, <2>6 DEF KeyInvariant
    <2> QED BY <2>5, <2>7 DEF InWindow
  <1> QED BY <1>1, <1>2 DEF LimiterInvariant

(***************************************************************************)
(* Answers to counted requests.                                            *)
(***************************************************************************)

RouteNames == {"none", "health", "create", "read", "cancel", "stream",
               "review", "decide", "verdictless", "metrics", "scrape"}

\* Division by a positive number.
LEMMA WholeSeconds ==
    ASSUME NEW wait \in Nat
    PROVE  /\ wait \div TicksPerSecond \in Nat
           /\ (wait \div TicksPerSecond) * TicksPerSecond <= wait
           /\ wait < (wait \div TicksPerSecond) * TicksPerSecond + TicksPerSecond
  <1>1. TicksPerSecond \in Nat \ {0}
    BY GatewayAssumption
  <1>2. \A a \in Nat, d \in Nat \ {0} : /\ a \div d \in Nat /\ (a \div d) * d <= a
                                       /\ a < (a \div d) * d + d
    BY Z3
  <1> QED BY <1>1, <1>2

\* The header is less than a second off.
LEMMA HeaderIsClose ==
    ASSUME NEW wait \in 1 .. Window
    PROVE  HeaderWait(wait) - wait \in (1 - TicksPerSecond) .. (TicksPerSecond - 1)
  <1> DEFINE whole == (wait \div TicksPerSecond) * TicksPerSecond
  <1>1. wait \in Nat \ {0} /\ TicksPerSecond \in Nat \ {0}
    BY GatewayAssumption
  <1>2. CASE wait < TicksPerSecond
    BY <1>1, <1>2 DEF HeaderWait
  <1>3. CASE ~(wait < TicksPerSecond)
    <2>1. HeaderWait(wait) = whole
      BY <1>3 DEF HeaderWait
    <2>2. whole \in Nat /\ whole <= wait /\ wait < whole + TicksPerSecond
      <3>1. wait \div TicksPerSecond \in Nat
        BY <1>1, WholeSeconds
      <3>2. whole \in Nat
        BY <1>1, <3>1
      <3> QED BY <1>1, <3>2, WholeSeconds
    <2> HIDE DEF whole
    <2> QED BY <1>1, <2>1, <2>2
  <1> QED BY <1>2, <1>3

\* The specification of the window counts as the limiter does.
LEMMA SameCardinality ==
    ASSUME NEW S
    PROVE  Quota!Cardinality(S) = Cardinality(S)
  BY DEF Quota!Cardinality, Cardinality

\* A window that is full becomes free when its oldest stamp leaves it.
LEMMA WaitIsExact ==
    ASSUME LimiterInvariant, NEW k \in Keys, ~Grants(k), Record(k), now' = now,
           NEW wait \in 1 .. Window, RetryAfter(k, wait)
    PROVE  /\ Cardinality(InWindow(windows'[k], now + wait)) < Limit[k]
           /\ Cardinality(InWindow(windows'[k], (now + wait) - 1)) = Limit[k]
  <1> DEFINE old == InWindow(windows[k], now)
  <1>1. /\ windows'[k] = old /\ old \in SUBSET StampsOf /\ now \in 0 .. MaxTime
        /\ Cardinality(old) <= Limit[k]
    BY RecordKeeps DEF LimiterInvariant, InWindow, KeyInvariant
  <1>2. Cardinality(old) = Limit[k]
    BY <1>1, StampsFinite, Limits DEF Grants
  <1>3. PICK s \in old : /\ \A u \in old : s[1] <= u[1]
                         /\ wait = Window - (now - s[1])
    BY DEF RetryAfter
  <1>4. /\ s[1] \in Nat /\ Window \in Nat /\ now + wait = s[1] + Window
        /\ \A u \in old : u[1] \in Nat
    BY <1>1, <1>3, StampType, GatewayAssumption
  <1>5. InWindow(old, now + wait) \subseteq old /\ s \notin InWindow(old, now + wait)
    BY <1>4 DEF InWindow
  <1>6. InWindow(old, (now + wait) - 1) = old
    <2>1. \A u \in old : u[1] > ((now + wait) - 1) - Window
      <3>1. \A a, b, c, d \in Int : a + b = c + d => ((a + b) - 1) - d = c - 1
        OBVIOUS
      <3>2. now \in Int /\ wait \in Int /\ Window \in Int /\ s[1] \in Int
        BY <1>1, <1>4, GatewayAssumption
      <3>3. ((now + wait) - 1) - Window = s[1] - 1
        BY <1>4, <3>1, <3>2
      <3> QED BY <1>3, <1>4, <3>3
    <2> DEFINE t == (now + wait) - 1
    <2>2. \A u \in old : u[1] > t - Window
      BY <2>1
    <2> HIDE DEF old, t
    <2>3. InWindow(old, t) = old
      BY <2>2 DEF InWindow
    <2> QED BY <2>3 DEF t
  <1>7. Cardinality(InWindow(old, now + wait)) < Cardinality(old)
    BY <1>1, <1>3, <1>5, StampsFinite
  <1> QED BY <1>1, <1>2, <1>6, <1>7

(***************************************************************************)
(* What every step does: it keeps the invariant, is a step of the window's *)
(* specification, and says nothing wrong.                                  *)
(***************************************************************************)

\* Who may be let in.
LetIn(who) == Guarded(deployment) => who \notin BuiltIn

\* The quota a step takes.
TakesOwnQuota ==
    \A k \in Keys :
        Cardinality(InWindow(windows'[k], now')) > Cardinality(InWindow(windows[k], now))
        => /\ last'.key = k
           /\ k \in Subjects => last'.who = k
           /\ last'.status = 403 => last'.route = "decide"

SoundStep ==
    /\ LimiterInvariant' /\ last' \in Response /\ RetryAfterIsExact' /\ BuiltInStayOut'
    /\ Quota!Next
    /\ TakesOwnQuota

\* What is in a window can be counted.
LEMMA WindowCount ==
    ASSUME LimiterInvariant, NEW k \in Keys
    PROVE  Cardinality(InWindow(windows[k], now)) \in Nat
  <1>1. InWindow(windows[k], now) \in SUBSET StampsOf
    BY DEF LimiterInvariant, InWindow
  <1> QED BY <1>1, StampsFinite

\* A request that is not counted.
LEMMA RespondKeeps ==
    ASSUME LimiterInvariant, BuiltInStayOut,
           NEW route \in RouteNames, NEW who \in Subjects \cup {NONE},
           NEW status \in Responses, Respond(route, who, status), LetIn(who),
           windows' = windows, now' = now, deployment' = deployment
    PROVE  SoundStep
  <1>1. /\ last' = [route |-> route, who |-> who, key |-> NONE, status |-> status, wait |-> 0]
        /\ 0 \in 0 .. Window
    BY GatewayAssumption DEF Respond
  <1>2. last' \in Response
    BY <1>1 DEF Response, RouteNames
  <1>3. LimiterInvariant'
    BY DEF LimiterInvariant, KeyInvariant, AtNow
  <1>4. RetryAfterIsExact' /\ BuiltInStayOut'
    BY <1>1 DEF RetryAfterIsExact, BuiltInStayOut, LetIn
  <1>5. Quota!Next
    BY <1>1 DEF Quota!Next, Quota!Other
  <1>6. TakesOwnQuota
    BY WindowCount DEF TakesOwnQuota
  <1> QED BY <1>2, <1>3, <1>4, <1>5, <1>6 DEF SoundStep

\* A counted request is granted or refused as a sliding window would, and its answer
\* says so.
LEMMA CountedKeeps ==
    ASSUME LimiterInvariant, BuiltInStayOut, NEW k \in Keys, NEW route \in RouteNames,
           NEW who \in Subjects \cup {NONE}, NEW statuses \in SUBSET Responses,
           Counted(route, who, k, statuses), Record(k),
           k \in Subjects => who = k, 403 \in statuses => route = "decide",
           LetIn(who),
           now' = now, deployment' = deployment
    PROVE  SoundStep
  <1> DEFINE recent == [j \in Keys |-> InWindow(windows[j], now)]
             later == [j \in Keys |-> InWindow(windows'[j], now)]
             answer == IF last'.key = NONE THEN {}
                       ELSE {[key |-> last'.key, granted |-> last'.wait = 0]}
  <1>1. k # NONE /\ LimiterInvariant'
    BY RecordKeeps, GatewayAssumption
  <1>0. ASSUME last'.who = who PROVE BuiltInStayOut'
    <2> SUFFICES ASSUME Guarded(deployment), NEW s \in BuiltIn
                 PROVE  who \notin BuiltIn /\ windows'[s] = {}
      BY <1>0 DEF BuiltInStayOut
    <2>1. who \notin BuiltIn
      BY DEF LetIn
    <2>2. s \in Keys /\ s # k /\ windows[s] = {}
      BY <2>1 DEF BuiltInStayOut, Keys, Subjects
    <2> QED BY <2>1, <2>2, RecordKeeps
  <1>2. CASE Grants(k)
    <2>1. PICK st \in statuses :
              last' = [route |-> route, who |-> who, key |-> k, status |-> st, wait |-> 0]
      BY <1>2 DEF Counted
    <2>2. 0 \in 0 .. Window
      BY GatewayAssumption
    <2>3. last' \in Response
      BY <2>1, <2>2 DEF Response, RouteNames
    <2>4. RetryAfterIsExact'
      BY <2>1 DEF RetryAfterIsExact
    <2>5. PICK n \in 1 .. Limit[k] : Stamp(k) = <<now, n>> /\ <<now, n>> \notin windows[k]
      BY <1>2, StampIsNew
    <2>6. later = [recent EXCEPT ![k] = @ \cup {<<now, n>>}]
      <3>1. later[k] = recent[k] \cup {<<now, n>>}
        BY <1>2, <2>5, RecordKeeps
      <3>2. \A j \in Keys \ {k} : later[j] = recent[j]
        BY RecordKeeps
      <3> QED BY <3>1, <3>2
    <2>7. <<now, n>> \notin recent[k]
      BY <2>5 DEF InWindow
    <2>8. answer = {[key |-> k, granted |-> TRUE]}
      BY <1>1, <2>1
    <2>9. Quota!Grant(k)
      BY <1>2, <2>6, <2>7, <2>8, SameCardinality DEF Quota!Grant, Grants
    <2>11. BuiltInStayOut'
      BY <1>0, <2>1
    <2>12. TakesOwnQuota
      <3>1. \A j \in Keys \ {k} :
                InWindow(windows'[j], now') = InWindow(windows[j], now)
        BY RecordKeeps
      <3>2. \A j \in Keys : Cardinality(InWindow(windows[j], now)) \in Nat
        BY WindowCount
      <3> QED BY <2>1, <3>1, <3>2 DEF TakesOwnQuota
    <2> QED BY <1>1, <2>3, <2>4, <2>9, <2>11, <2>12 DEF SoundStep, Quota!Next
  <1>3. CASE ~Grants(k)
    <2>1. PICK wait \in 1 .. Window :
              /\ RetryAfter(k, wait)
              /\ last' = [route |-> route, who |-> who, key |-> k, status |-> 429,
                          wait |-> wait]
      BY <1>3 DEF Counted
    <2>2. wait \in 0 .. Window /\ wait # 0 /\ 429 \in Responses
      BY <2>1, GatewayAssumption DEF Responses
    <2>3. last' \in Response
      BY <2>1, <2>2 DEF Response, RouteNames
    <2>4. RetryAfterIsExact'
      <3>1. /\ Cardinality(InWindow(windows'[k], now + wait)) < Limit[k]
            /\ Cardinality(InWindow(windows'[k], (now + wait) - 1)) = Limit[k]
        BY <1>3, <2>1, WaitIsExact
      <3>2. HeaderWait(wait) - wait \in (1 - TicksPerSecond) .. (TicksPerSecond - 1)
        BY HeaderIsClose
      <3>3. last'.wait = wait /\ last'.key = k
        BY <2>1
      <3>4. now' \in Int /\ wait \in Int /\ now' + wait \in Int
        BY GatewayAssumption DEF LimiterInvariant
      <3>5. /\ Cardinality(InWindow(windows'[k], now' + wait)) < Limit[k]
            /\ Cardinality(InWindow(windows'[k], (now' + wait) - 1)) = Limit[k]
        BY <3>1
      <3> QED BY <3>2, <3>3, <3>4, <3>5 DEF RetryAfterIsExact
    <2>5. later = recent
      BY <1>3, RecordKeeps
    <2>6. answer = {[key |-> k, granted |-> FALSE]}
      BY <1>1, <2>1, <2>2
    <2>7. Cardinality(recent[k]) >= Limit[k]
      <3>1. windows[k] \in SUBSET StampsOf
        BY DEF LimiterInvariant
      <3>2. InWindow(windows[k], now) \in SUBSET StampsOf
        BY <3>1 DEF InWindow
      <3> QED BY <1>3, <3>2, StampsFinite, Limits DEF Grants
    <2>8. Quota!Refuse(k)
      BY <2>5, <2>6, <2>7, SameCardinality DEF Quota!Refuse
    <2>9. BuiltInStayOut'
      BY <1>0, <2>1
    <2>10. TakesOwnQuota
      <3>1. \A j \in Keys : InWindow(windows'[j], now') = InWindow(windows[j], now)
        BY <1>3, RecordKeeps
      <3>2. \A j \in Keys : Cardinality(InWindow(windows[j], now)) \in Nat
        BY WindowCount
      <3> QED BY <3>1, <3>2 DEF TakesOwnQuota
    <2> QED BY <1>1, <2>3, <2>4, <2>8, <2>9, <2>10 DEF SoundStep, Quota!Next
  <1> QED BY <1>2, <1>3

(***************************************************************************)
(* Authentication.                                                         *)
(***************************************************************************)

\* A guarded deployment looks at keys and tokens only.
LEMMA GuardedAuthenticators ==
    ASSUME NEW d \in Deployments, Guarded(d)
    PROVE  Authenticators(d) \subseteq {"key", "token"}
  <1>1. CASE d.environment = "production"
    <2>1. d.environment # "test"
      BY <1>1
    <2>2. CASE d.auth
      BY <1>1, <2>1, <2>2 DEF Authenticators
    <2>3. CASE ~d.auth
      BY <1>1, <2>3 DEF Authenticators
    <2> QED BY <2>2, <2>3
  <1>2. CASE d.environment = "development" /\ d.auth /\ (d.keys \/ d.jwt)
    <2>1. d.environment # "test"
      BY <1>2
    <2>2. CASE d.keys
      BY <1>2, <2>1, <2>2 DEF Authenticators
    <2>3. CASE d.jwt
      BY <1>2, <2>1, <2>3 DEF Authenticators
    <2> QED BY <1>2, <2>2, <2>3
  <1> QED BY <1>1, <1>2 DEF Guarded

\* Keys and tokens identify principals.
LEMMA VerdictType ==
    ASSUME NEW c \in Credential, NEW a \in {"key", "token"}, Verdict(a, c) \in Subjects
    PROVE  Verdict(a, c) \in Principals
  <1>1. "missing" \notin BuiltIn /\ "failed" \notin BuiltIn
    BY DEF BuiltIn
  <1>2. c.is \in {"valid", "invalid"} => c.who \in Principals
    BY DEF Credential
  <1>3. HashedAPIKey(c) \in {"missing", "failed"}
            \/ (c.is = "valid" /\ HashedAPIKey(c) = c.who)
    BY DEF HashedAPIKey
  <1>4. BearerToken(c) \in {"missing", "failed"}
            \/ (c.is = "valid" /\ BearerToken(c) = c.who)
    BY DEF BearerToken
  <1>5. Verdict("key", c) = HashedAPIKey(c) /\ Verdict("token", c) = BearerToken(c)
    BY DEF Verdict
  <1>6. CASE a = "key"
    BY <1>1, <1>2, <1>3, <1>5, <1>6 DEF Subjects
  <1>7. CASE a = "token"
    BY <1>1, <1>2, <1>4, <1>5, <1>7 DEF Subjects
  <1> QED BY <1>6, <1>7

\* Whoever is identified is a subject, and is let in.
LEMMA IdentifyType ==
    ASSUME deployment \in Deployments, NEW c \in Credential
    PROVE  /\ Identify(deployment, c) \in Subjects \cup {NONE}
           /\ LetIn(Identify(deployment, c))
  <1> DEFINE accepted == {a \in Authenticators(deployment) : Verdict(a, c) \in Subjects}
             first == CHOOSE a \in accepted :
                         /\ "key" \in accepted => a = "key"
                         /\ "token" \in accepted => a \in {"key", "token"}
  <1>1. Identify(deployment, c) = IF accepted = {} THEN NONE ELSE Verdict(first, c)
    BY DEF Identify
  <1>2. accepted # {} => first \in accepted
    <2> SUFFICES ASSUME accepted # {}
                 PROVE  \E a \in accepted : /\ "key" \in accepted => a = "key"
                                            /\ "token" \in accepted => a \in {"key", "token"}
      BY Zenon
    <2>1. CASE "key" \in accepted
      BY <2>1
    <2>2. CASE "key" \notin accepted /\ "token" \in accepted
      BY <2>2
    <2>3. CASE "key" \notin accepted /\ "token" \notin accepted
      BY <2>3
    <2> QED BY <2>1, <2>2, <2>3
  <1>3. accepted # {} => first \in Authenticators(deployment) /\ Verdict(first, c) \in Subjects
    BY <1>2
  <1>4. accepted # {} => Verdict(first, c) \in Subjects
    BY <1>3
  <1>5. Guarded(deployment) /\ accepted # {} => Verdict(first, c) \in Principals
    <2> SUFFICES ASSUME Guarded(deployment), accepted # {}
                 PROVE  Verdict(first, c) \in Principals
      OBVIOUS
    <2> HIDE DEF first
    <2>1. first \in {"key", "token"} /\ Verdict(first, c) \in Subjects
      BY <1>3, GuardedAuthenticators
    <2> QED BY <2>1, VerdictType
  <1>6. Principals \cap BuiltIn = {} /\ NONE \notin BuiltIn
    BY GatewayAssumption DEF Keys, Subjects
  <1> HIDE DEF accepted, first
  <1> QED BY <1>1, <1>4, <1>5, <1>6 DEF LetIn

(***************************************************************************)
(* Requests.                                                               *)
(***************************************************************************)

\* The routes and what they answer.
LEMMA ProtectedRoutes ==
    ASSUME NEW p \in Protected
    PROVE  /\ p[1] \in RouteNames /\ p[3] \in SUBSET (Responses \ {403})
  <1> DEFINE routes == {CreateRoute, ReadRoute, CancelRoute, ReviewRoute, MetricsRoute}
  <1>1. \A q \in routes : q[1] \in RouteNames
    BY DEF CreateRoute, ReadRoute, CancelRoute, ReviewRoute, MetricsRoute, RouteNames
  <1>2. \A q \in routes : q[3] \in SUBSET (Responses \ {403})
    <2>1. /\ CreateStatus \in SUBSET (Responses \ {403})
          /\ ReadStatus \in SUBSET (Responses \ {403})
          /\ CancelStatus \in SUBSET (Responses \ {403})
      BY DEF CreateStatus, ReadStatus, CancelStatus, Responses
    <2> QED BY <2>1 DEF CreateRoute, ReadRoute, CancelRoute, ReviewRoute, MetricsRoute
  <1> QED BY <1>1, <1>2 DEF Protected

\* Who was not identified is not let in as a built-in identity.
LEMMA NobodyIsLetIn == LetIn(NONE)
  BY GatewayAssumption DEF LetIn, Keys, Subjects

\* A request that is refused and not counted.
LEMMA RefuseKeeps ==
    ASSUME LimiterInvariant, BuiltInStayOut,
           NEW route \in RouteNames, NEW who \in Subjects \cup {NONE}, LetIn(who),
           NEW status \in {400, 401, 403}, Respond(route, who, status),
           windows' = windows, now' = now, deployment' = deployment
    PROVE  SoundStep
  <1>1. status \in Responses
    BY DEF Responses
  <1> QED BY <1>1, RespondKeeps

\* Requests a middleware answers.
LEMMA FlawedKeeps ==
    ASSUME LimiterInvariant, BuiltInStayOut, NEW f \in Flaws, FlawedRequest(f)
    PROVE  SoundStep
  <1>1. FlawStatus(f) \in Responses
    BY DEF FlawStatus, Responses
  <1>2. "none" \in RouteNames /\ NONE \in Subjects \cup {NONE}
    BY DEF RouteNames
  <1>3. /\ Respond("none", NONE, FlawStatus(f)) /\ windows' = windows /\ now' = now
        /\ deployment' = deployment
    BY DEF FlawedRequest
  <1> QED BY <1>1, <1>2, <1>3, NobodyIsLetIn, RespondKeeps

\* The scrape that asks for no identity.
LEMMA ScrapeKeeps ==
    ASSUME LimiterInvariant, BuiltInStayOut, ScrapeRequest
    PROVE  SoundStep
  <1>1. "scrape" \in RouteNames /\ NONE \in Subjects \cup {NONE} /\ 200 \in Responses
    BY DEF RouteNames, Responses
  <1>2. /\ Respond("scrape", NONE, 200) /\ windows' = windows /\ now' = now
        /\ deployment' = deployment
    BY DEF ScrapeRequest
  <1> QED BY <1>1, <1>2, NobodyIsLetIn, RespondKeeps

\* Health checks.
LEMMA PublicKeeps ==
    ASSUME LimiterInvariant, BuiltInStayOut, NEW a \in Addresses, NEW f \in Flaws, PublicRequest(a, f)
    PROVE  SoundStep
  <1> DEFINE status == IF f = "none" THEN 200 ELSE FlawStatus(f)
  <1>1. status \in Responses /\ 403 \notin {status}
    BY DEF FlawStatus, Responses
  <1>2. /\ "health" \in RouteNames /\ NONE \in Subjects \cup {NONE}
        /\ a \in Keys /\ a \notin Subjects
    BY GatewayAssumption DEF RouteNames, Keys
  <1>3. LetIn(NONE)
    BY NobodyIsLetIn
  <1>4. CASE deployment.limits
    <2>1. /\ Counted("health", NONE, a, {status}) /\ Record(a) /\ now' = now
          /\ deployment' = deployment
      BY <1>4 DEF PublicRequest
    <2>2. {status} \in SUBSET Responses
      BY <1>1
    <2> HIDE DEF status
    <2> QED BY <1>1, <1>2, <1>3, <2>1, <2>2, CountedKeeps
  <1>5. CASE ~deployment.limits
    <2>1. /\ Respond("health", NONE, status) /\ windows' = windows /\ now' = now
          /\ deployment' = deployment
      BY <1>5 DEF PublicRequest
    <2> HIDE DEF status
    <2> QED BY <1>1, <1>2, <1>3, <2>1, RespondKeeps
  <1> QED BY <1>4, <1>5

\* The routes with a permission and a rate limit.
LEMMA ProtectedKeeps ==
    ASSUME LimiterInvariant, BuiltInStayOut, deployment \in Deployments, NEW p \in Protected,
           NEW c \in Credential, ProtectedRequest(p, c)
    PROVE  SoundStep
  <1>1. PICK who \in Subjects \cup {NONE} :
            /\ who = Identify(deployment, c)
            /\ LetIn(who)
    BY IdentifyType
  <1>2. /\ now' = now /\ deployment' = deployment
        /\ \/ Respond(p[1], NONE, 400) /\ windows' = windows
           \/ Respond(p[1], NONE, 401) /\ windows' = windows
           \/ Respond(p[1], who, 403) /\ windows' = windows
           \/ /\ who # NONE /\ MayDo(who, p[2])
              /\ IF deployment.limits
                 THEN Counted(p[1], who, who, p[3]) /\ Record(who)
                 ELSE (\E st \in p[3] : Respond(p[1], who, st)) /\ windows' = windows
    BY <1>1 DEF ProtectedRequest
  <1>3. /\ p[1] \in RouteNames /\ p[3] \in SUBSET Responses /\ 403 \notin p[3]
        /\ {400, 401, 403} \subseteq Responses /\ NONE \in Subjects \cup {NONE}
    BY ProtectedRoutes DEF Responses
  <1>4. CASE Respond(p[1], NONE, 400) /\ windows' = windows
    BY <1>2, <1>3, <1>4, <1>1, NobodyIsLetIn, RefuseKeeps
  <1>5. CASE Respond(p[1], NONE, 401) /\ windows' = windows
    BY <1>2, <1>3, <1>5, <1>1, NobodyIsLetIn, RefuseKeeps
  <1>6. CASE Respond(p[1], who, 403) /\ windows' = windows
    BY <1>2, <1>3, <1>6, <1>1, NobodyIsLetIn, RefuseKeeps
  <1>7. CASE /\ who # NONE /\ MayDo(who, p[2])
             /\ IF deployment.limits
                THEN Counted(p[1], who, who, p[3]) /\ Record(who)
                ELSE (\E st \in p[3] : Respond(p[1], who, st)) /\ windows' = windows
    <2>2. who \in Keys
      BY <1>7 DEF Keys
    <2>3. CASE deployment.limits
      BY <1>1, <1>2, <1>3, <1>7, <2>2, <2>3, CountedKeeps
    <2>4. CASE ~deployment.limits
      <3>1. PICK st \in p[3] : Respond(p[1], who, st)
        BY <1>7, <2>4
      <3> QED BY <1>1, <1>2, <1>3, <1>7, <2>4, <3>1, RespondKeeps
    <2> QED BY <2>3, <2>4
  <1> QED BY <1>2, <1>4, <1>5, <1>6, <1>7

\* The event stream, which has no rate limit.
LEMMA StreamKeeps ==
    ASSUME LimiterInvariant, BuiltInStayOut, deployment \in Deployments, NEW c \in Credential,
           StreamRequest(c)
    PROVE  SoundStep
  <1>1. PICK who \in Subjects \cup {NONE} :
            /\ who = Identify(deployment, c)
            /\ LetIn(who)
    BY IdentifyType
  <1>2. /\ now' = now /\ deployment' = deployment /\ windows' = windows
        /\ \/ Respond("stream", NONE, 400) \/ Respond("stream", NONE, 401)
           \/ Respond("stream", who, 403)
           \/ /\ who # NONE /\ MayDo(who, "runs:stream")
              /\ \E st \in ReadStatus : Respond("stream", who, st)
    BY <1>1 DEF StreamRequest
  <1>3. /\ "stream" \in RouteNames /\ ReadStatus \subseteq Responses
        /\ {400, 401, 403} \subseteq Responses /\ NONE \in Subjects \cup {NONE}
    BY DEF Responses, ReadStatus, RouteNames
  <1>4. CASE \/ Respond("stream", NONE, 400) \/ Respond("stream", NONE, 401)
             \/ Respond("stream", who, 403)
    BY <1>2, <1>3, <1>4, <1>1, NobodyIsLetIn, RefuseKeeps
  <1>5. CASE /\ who # NONE /\ MayDo(who, "runs:stream")
             /\ \E st \in ReadStatus : Respond("stream", who, st)
    BY <1>1, <1>2, <1>3, <1>5, RespondKeeps
  <1> QED BY <1>2, <1>4, <1>5

\* Decisions, counted before they are looked at.
LEMMA DecideKeeps ==
    ASSUME LimiterInvariant, BuiltInStayOut, deployment \in Deployments, NEW c \in Credential,
           NEW v \in Verdicts, DecideRequest(c, v)
    PROVE  SoundStep
  <1>1. PICK who \in Subjects \cup {NONE} :
            /\ who = Identify(deployment, c)
            /\ LetIn(who)
    BY IdentifyType
  <1>2. PICK route \in {"decide", "verdictless"} :
            route = IF v \in {"approved", "modified", "rejected"}
                    THEN "decide" ELSE "verdictless"
    OBVIOUS
  <1>3. /\ now' = now /\ deployment' = deployment
        /\ \/ Respond(route, NONE, 400) /\ windows' = windows
           \/ Respond(route, NONE, 401) /\ windows' = windows
           \/ /\ who # NONE
              /\ IF deployment.limits
                 THEN Counted(route, who, who, DecideStatus(who, v)) /\ Record(who)
                 ELSE /\ \E st \in DecideStatus(who, v) : Respond(route, who, st)
                      /\ windows' = windows
    BY <1>1, <1>2 DEF DecideRequest
  <1>4. /\ route \in RouteNames /\ {400, 401} \subseteq Responses /\ NONE \in Subjects \cup {NONE}
        /\ DecideStatus(who, v) \in SUBSET Responses
    BY DEF Responses, RouteNames, DecideStatus
  <1>5. CASE Respond(route, NONE, 400) /\ windows' = windows
    BY <1>3, <1>4, <1>5, <1>1, NobodyIsLetIn, RefuseKeeps
  <1>6. CASE Respond(route, NONE, 401) /\ windows' = windows
    BY <1>3, <1>4, <1>6, <1>1, NobodyIsLetIn, RefuseKeeps
  <1>7. CASE /\ who # NONE
             /\ IF deployment.limits
                THEN Counted(route, who, who, DecideStatus(who, v)) /\ Record(who)
                ELSE /\ \E st \in DecideStatus(who, v) : Respond(route, who, st)
                     /\ windows' = windows
    <2>2. 403 \in DecideStatus(who, v) => route = "decide"
      BY <1>2 DEF DecideStatus, VerdictPermissions, Verdicts
    <2>3. who \in Keys
      BY <1>7 DEF Keys
    <2>4. CASE deployment.limits
      BY <1>1, <1>3, <1>4, <1>7, <2>2, <2>3, <2>4, CountedKeeps
    <2>5. CASE ~deployment.limits
      <3>1. PICK st \in DecideStatus(who, v) : Respond(route, who, st)
        BY <1>7, <2>5
      <3> QED BY <1>1, <1>3, <1>4, <1>7, <2>5, <3>1, RespondKeeps
    <2> QED BY <2>4, <2>5
  <1> QED BY <1>3, <1>5, <1>6, <1>7

(***************************************************************************)
(* The gateway.                                                            *)
(***************************************************************************)

\* What the specification of the window sees.
quotaVars == <<now, [k \in Keys |-> InWindow(windows[k], now)],
               IF last.key = NONE THEN {}
               ELSE {[key |-> last.key, granted |-> last.wait = 0]}>>

GatewayInvariant ==
    /\ deployment \in Deployments
    /\ LimiterInvariant
    /\ last \in Response
    /\ RetryAfterIsExact
    /\ BuiltInStayOut

\* No response is no answer.
LEMMA SilenceType ==
    /\ Silence \in Response /\ Silence.wait = 0 /\ Silence.status = 0
    /\ Silence.key = NONE /\ Silence.who = NONE /\ NONE \notin BuiltIn
  <1>1. 0 \in 0 .. Window
    BY GatewayAssumption
  <1>2. NONE \notin BuiltIn
    BY GatewayAssumption DEF Keys, Subjects
  <1> QED BY <1>1, <1>2 DEF Silence, Response

\* At first nothing was granted.
LEMMA GatewayStarts == Init => GatewayInvariant /\ Quota!Init
  <1> SUFFICES ASSUME Init PROVE GatewayInvariant /\ Quota!Init
    OBVIOUS
  <1>1. InWindow({}, now) = {}
    BY DEF InWindow
  <1>2. 0 \in 0 .. MaxTime
    BY GatewayAssumption
  <1>3. LimiterInvariant
    <2>1. \A k \in Keys : KeyInvariant(k)
      <3> SUFFICES ASSUME NEW k \in Keys PROVE KeyInvariant(k)
        OBVIOUS
      <3>1. windows[k] = {} /\ AtNow(k) = {}
        BY DEF Init, AtNow
      <3>2. Cardinality(InWindow(windows[k], now)) = 0
        BY <1>1, <3>1, FS_EmptySet
      <3>3. 0 <= Limit[k]
        BY Limits
      <3> QED BY <3>1, <3>2, <3>3 DEF KeyInvariant
    <2> QED BY <1>2, <2>1 DEF Init, LimiterInvariant
  <1>4. last \in Response /\ RetryAfterIsExact /\ BuiltInStayOut
    <2>1. NONE \notin BuiltIn /\ BuiltIn \subseteq Keys
      BY GatewayAssumption DEF Keys, Subjects
    <2> QED BY <2>1, SilenceType DEF Init, RetryAfterIsExact, BuiltInStayOut
  <1>5. Quota!Init
    <2>1. now = 0 /\ last.key = NONE
      BY SilenceType DEF Init
    <2>2. \A k \in Keys : InWindow(windows[k], now) = {}
      BY <1>1 DEF Init
    <2> QED BY <2>1, <2>2 DEF Quota!Init
  <1> QED BY <1>3, <1>4, <1>5 DEF Init, GatewayInvariant

\* Every step of the gateway.
LEMMA GatewayStepKeeps ==
    GatewayInvariant /\ [Next]_vars
    => /\ GatewayInvariant'
       /\ [Quota!Next]_quotaVars
       /\ [TakesOwnQuota]_vars
  <1> SUFFICES ASSUME GatewayInvariant, [Next]_vars
               PROVE  /\ GatewayInvariant' /\ [Quota!Next]_quotaVars
                      /\ [TakesOwnQuota]_vars
    OBVIOUS
  <1> USE DEF GatewayInvariant
  <1>1. CASE Request
    <2>1. SoundStep
      <3>1. CASE \E a \in Addresses, f \in Flaws : PublicRequest(a, f)
        BY <3>1, PublicKeeps
      <3>2. CASE \E f \in Flaws : FlawedRequest(f)
        BY <3>2, FlawedKeeps
      <3>3. CASE \E p \in Protected, c \in Credential : ProtectedRequest(p, c)
        BY <3>3, ProtectedKeeps
      <3>4. CASE \E c \in Credential : StreamRequest(c)
        BY <3>4, StreamKeeps
      <3>5. CASE \E c \in Credential, v \in Verdicts : DecideRequest(c, v)
        BY <3>5, DecideKeeps
      <3>6. CASE ScrapeRequest
        BY <3>6, ScrapeKeeps
      <3> QED BY <1>1, <3>1, <3>2, <3>3, <3>4, <3>5, <3>6 DEF Request
    <2>2. deployment' = deployment
      BY <1>1 DEF Request, PublicRequest, FlawedRequest, ProtectedRequest, ScrapeRequest,
                  StreamRequest, DecideRequest
    <2> QED BY <2>1, <2>2 DEF SoundStep
  <1>2. CASE Tick
    <2>1. LimiterInvariant'
      BY <1>2, TickKeeps
    <2>2. /\ last = Silence /\ last' = last /\ windows' = windows /\ now' = now + 1
          /\ deployment' = deployment
      BY <1>2 DEF Tick
    <2>3. RetryAfterIsExact' /\ BuiltInStayOut'
      BY <2>2, SilenceType DEF RetryAfterIsExact, BuiltInStayOut
    <2>4. Quota!Tick
      <3>1. \A k \in Keys : InWindow(windows[k], now + 1)
                                = InWindow(InWindow(windows[k], now), now + 1)
        BY <1>2, TickKeeps
      <3> QED BY <2>2, <3>1 DEF Quota!Tick, Quota!InWindow, InWindow
    <2>5. TakesOwnQuota
      <3> SUFFICES ASSUME NEW k \in Keys
                   PROVE  ~(Cardinality(InWindow(windows'[k], now'))
                               > Cardinality(InWindow(windows[k], now)))
        BY DEF TakesOwnQuota
      <3>1. InWindow(windows[k], now) \in SUBSET StampsOf
            /\ InWindow(windows[k], now + 1) \subseteq InWindow(windows[k], now)
        BY <1>2, TickKeeps DEF InWindow, LimiterInvariant
      <3> QED BY <2>2, <3>1, StampsFinite
    <2> QED BY <2>1, <2>2, <2>3, <2>4, <2>5 DEF Quota!Next
  <1>3. CASE Sent
    <2>1. last' = Silence /\ UNCHANGED <<deployment, now, windows>>
      BY <1>3 DEF Sent
    <2>2. LimiterInvariant'
      BY <2>1 DEF LimiterInvariant, KeyInvariant, AtNow
    <2>3. last' \in Response /\ RetryAfterIsExact' /\ BuiltInStayOut'
      BY <2>1, SilenceType DEF RetryAfterIsExact, BuiltInStayOut
    <2>4. Quota!Other
      BY <2>1, SilenceType DEF Quota!Other
    <2>5. TakesOwnQuota
      BY <2>1, WindowCount DEF TakesOwnQuota
    <2> QED BY <2>1, <2>2, <2>3, <2>4, <2>5 DEF Quota!Next
  <1>4. CASE UNCHANGED vars
    BY <1>4 DEF vars, LimiterInvariant, KeyInvariant, AtNow, RetryAfterIsExact,
                BuiltInStayOut, quotaVars
  <1> QED BY <1>1, <1>2, <1>3, <1>4 DEF Next

\* The gateway keeps its types; a key has no more stamps at one time than its limit
\* (security/rate_limiter.py).
THEOREM GatewayTypeCorrect == Spec => []TypeOK
  <1>1. GatewayInvariant => TypeOK
    BY DEF GatewayInvariant, LimiterInvariant, KeyInvariant, StampsOf, TypeOK
  <1> QED BY <1>1, GatewayStarts, GatewayStepKeeps, PTL DEF Spec

\* check_rate_limit is a sliding window: at most the limit is granted in any window, no
\* request is refused before, although keys are pruned late and forgotten in sweeps.
THEOREM LimiterImplementsQuota == Spec => ImplementsQuota
  <1>1. Spec => Quota!Spec
    BY GatewayStarts, GatewayStepKeeps, PTL DEF Spec, Quota!Spec, quotaVars
  <1> QED BY <1>1 DEF ImplementsQuota

\* The wait a refused client is told is exact, and its header less than a second off
\* (check_rate_limit, the handler of RateLimitExceededError).
THEOREM RetryAfterCorrect == Spec => []RetryAfterIsExact
  <1>1. GatewayInvariant => RetryAfterIsExact
    BY DEF GatewayInvariant
  <1> QED BY <1>1, GatewayStarts, GatewayStepKeeps, PTL DEF Spec

\* Whatever keys, secrets and environment are configured, a production deployment, and
\* a development one with keys or a secret, never let in the identities built into the
\* code nor keep a quota for them (get_authenticator, security/authenticators.py).
THEOREM BuiltInAreNotLetIn == Spec => []BuiltInStayOut
  <1>1. GatewayInvariant => BuiltInStayOut
    BY DEF GatewayInvariant
  <1> QED BY <1>1, GatewayStarts, GatewayStepKeeps, PTL DEF Spec

\* Requests cost the quota of whoever made them, and none when the permission is
\* refused before they are counted (api/dependencies.py, require_permission).
THEOREM QuotaIsOnesOwn == Spec => RefusedTakesNoQuota
  <1>1. GatewayInvariant /\ [Next]_vars => [TakesOwnQuota]_vars
    BY GatewayStepKeeps
  <1> QED BY <1>1, GatewayStarts, GatewayStepKeeps, PTL
          DEF Spec, RefusedTakesNoQuota, TakesOwnQuota
=============================================================================
