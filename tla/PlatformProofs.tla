--------------------------- MODULE PlatformProofs ---------------------------
(***************************************************************************)
(* What is proved of a part holds of the deployment: whatever moves, the   *)
(* part either makes a step of its own or stands still in all that its     *)
(* invariant reads.  The parts proved about here, as the deployment has    *)
(* them: rate limiter, second factors, features, configuration, and the    *)
(* audit trail.                                                            *)
(***************************************************************************)
EXTENDS Platform, SequenceTheorems, FiniteSetTheorems, TLAPS

-----------------------------------------------------------------------------
(* Division, for the periods of a policy *)

LEMMA QuotientFacts ==
    ASSUME NEW n \in Nat, NEW d \in Nat \ {0}
    PROVE  /\ n \div d \in Nat /\ n \div d <= n
           /\ (n \div d) * d <= n /\ n < (n \div d + 1) * d
<1>1. /\ n \div d \in Nat /\ (n \div d) * d <= n /\ n < (n \div d) * d + d
    OBVIOUS
<1>2. n \div d <= (n \div d) * d
    <2> DEFINE q == n \div d
    <2>1. q \in Nat BY <1>1
    <2> HIDE DEF q
    <2>2. \A k \in Nat : k <= k * d OBVIOUS
    <2>3. QED BY <2>1, <2>2 DEF q
<1>3. (n \div d + 1) * d = (n \div d) * d + d
    <2> DEFINE q == n \div d
    <2>1. q \in Nat BY <1>1
    <2> HIDE DEF q
    <2>2. QED BY <2>1 DEF q
<1>4. (n \div d) * d \in Nat BY <1>1
<1> QED BY <1>1, <1>2, <1>3, <1>4

LEMMA QuotientAbove ==
    ASSUME NEW n \in Nat, NEW d \in Nat \ {0}, NEW k \in Nat, k * d <= n
    PROVE  k <= n \div d
<1>1. /\ n \div d \in Nat /\ n < (n \div d + 1) * d BY QuotientFacts
<1> DEFINE q == n \div d
<1>2. q \in Nat /\ n < (q + 1) * d BY <1>1
<1> HIDE DEF q
<1>3. CASE k <= q BY <1>3 DEF q
<1>4. CASE k >= q + 1
    <2>1. k * d >= (q + 1) * d BY <1>2, <1>4
    <2>2. QED BY <1>2, <2>1
<1> QED BY <1>2, <1>3, <1>4

-----------------------------------------------------------------------------
(* The limiter: types, and handlers that are on time *)

LEMMA LimiterFacts ==
    /\ Nobody \notin Nodes /\ IsFiniteSet(Handlers)
    /\ Grace \in Nat /\ MaxSeconds \in Nat /\ MaxDelay \in Nat /\ MaxGuesses \in Nat
    /\ MaxDelay < Grace /\ 2 * MaxDelay <= Grace
BY PlatformAssumption DEF Limiter!RateLimitAssumption, IsFiniteSet, Limiter!IsFiniteSet

LEMMA SameCardinality == \A S : Limiter!Cardinality(S) = Cardinality(S)
BY ONLY DEF Limiter!Cardinality, Cardinality

\* A handler is through with its work in MaxDelay.
HandlersOnTime ==
    \A t \in Handlers : ~Limiter!Is(t, "idle") =>
        login[t].at <= now /\ now <= login[t].at + MaxDelay

LimiterTyped == Limiter!LimiterTypeOK /\ HandlersOnTime

LEMMA RulesTyped ==
    ASSUME Limiter!LimiterTypeOK
    PROVE  /\ \A p \in Limiter!Policies :
                  /\ rules[p] \in Limiter!Policy /\ rules[p].max \in Nat
                  /\ rules[p].window \in Nat \ {0} /\ rules[p].block \in Nat
           /\ "perIp" \in Limiter!Policies /\ "login" \in Limiter!Policies
           /\ rules.perIp = rules["perIp"] /\ rules.login = rules["login"]
           /\ rules["login"].max <= MaxGuesses
<1> DEFINE chosen == [rules |-> rules, traffic |-> traffic]
<1>1. chosen \in Settings BY DEF Limiter!LimiterTypeOK
<1>2. Settings \subseteq [rules: [Limiter!Policies -> Limiter!Policy], traffic: SUBSET Limiter!Whiles]
    BY PlatformAssumption DEF Limiter!RateLimitAssumption
<1>3. rules \in [Limiter!Policies -> Limiter!Policy] BY <1>1, <1>2
<1>4. chosen.rules["login"].max <= MaxGuesses
    BY <1>1, PlatformAssumption DEF Limiter!RateLimitAssumption
<1> QED BY <1>3, <1>4 DEF Limiter!Policies, Limiter!Policy

\* The step a handler makes: it goes on, ends, or arrives.
Steps(t) ==
    /\ login' \in [Handlers -> Limiter!Handler]
    /\ \A s \in Handlers \ {t} : login'[s] = login[s]
    /\ \/ login'[t] = Limiter!Idle \/ login'[t] = login[t]
       \/ ~Limiter!Is(t, "idle") /\ login'[t].at = login[t].at /\ login'[t].node = login[t].node
       \/ Limiter!Is(t, "idle") /\ login'[t].at = now /\ login'[t].node \in Nodes

LEMMA IdleTyped ==
    ASSUME Limiter!LimiterTypeOK
    PROVE  Limiter!Idle \in Limiter!Handler /\ Limiter!Idle.phase = "idle"
BY LimiterFacts DEF Limiter!Idle, Limiter!Handler, Limiter!Phases

LEMMA HandlerEnds ==
    ASSUME Limiter!LimiterTypeOK, NEW t \in Handlers, Limiter!Ends(t)
    PROVE  Steps(t) /\ login'[t] = Limiter!Idle
BY IdleTyped DEF Limiter!Ends, Steps, Limiter!LimiterTypeOK

LEMMA HandlerTo ==
    ASSUME Limiter!LimiterTypeOK, NEW t \in Handlers, NEW phase \in Limiter!Phases,
           Limiter!To(t, phase), ~Limiter!Is(t, "idle")
    PROVE  Steps(t) /\ login'[t].phase = phase /\ login'[t].at = login[t].at
<1> DEFINE r == [login[t] EXCEPT !.phase = phase]
<1>1. r \in Limiter!Handler /\ r.phase = phase /\ r.at = login[t].at /\ r.node = login[t].node
    BY DEF Limiter!LimiterTypeOK, Limiter!Handler
<1>2. login' = [login EXCEPT ![t] = r] BY DEF Limiter!To
<1> HIDE DEF r
<1> QED BY <1>1, <1>2 DEF Limiter!LimiterTypeOK, Steps

\* Bucket of a time on the model's clock.
LEMMA BucketFacts ==
    ASSUME Limiter!LimiterTypeOK, NEW at \in 0..MaxSeconds
    PROVE  /\ Limiter!Bucket(at) \in Limiter!Buckets
           /\ at < (Limiter!Bucket(at) + 1) * rules.perIp.window
<1>1. rules.perIp.window \in Nat \ {0} BY RulesTyped
<1>2. at \in Nat /\ at <= MaxSeconds BY LimiterFacts
<1>3. /\ at \div rules.perIp.window \in Nat /\ at \div rules.perIp.window <= at
      /\ at < (at \div rules.perIp.window + 1) * rules.perIp.window
    BY <1>1, <1>2, QuotientFacts
<1> QED BY <1>2, <1>3, LimiterFacts DEF Limiter!Bucket, Limiter!Buckets

LEMMA HandlerInTime ==
    ASSUME LimiterTyped, NEW t \in Handlers
    PROVE  /\ login[t].at \in 0..MaxSeconds /\ login[t].at \in Nat /\ now \in Nat
           /\ login[t].phase \in Limiter!Phases
           /\ ~Limiter!Is(t, "idle") => login[t].at <= now /\ now <= login[t].at + MaxDelay
BY LimiterFacts DEF LimiterTyped, HandlersOnTime, Limiter!LimiterTypeOK, Limiter!Handler

LEMMA StepsKeepTime ==
    ASSUME LimiterTyped, NEW t \in Handlers, Steps(t), now' = now
    PROVE  HandlersOnTime'
<1> SUFFICES ASSUME NEW s \in Handlers, ~Limiter!Is(s, "idle")'
             PROVE  login'[s].at <= now /\ now <= login'[s].at + MaxDelay
    BY DEF HandlersOnTime
<1>1. CASE s # t
    <2>1. login'[s] = login[s] BY <1>1 DEF Steps
    <2>2. ~Limiter!Is(s, "idle") BY <2>1 DEF Limiter!Is
    <2>3. QED BY <2>1, <2>2 DEF LimiterTyped, HandlersOnTime
<1>2. CASE s = t
    <2>1. login'[t] # Limiter!Idle BY <1>2 DEF Limiter!Is, Limiter!Idle
    <2>2. CASE ~Limiter!Is(t, "idle") /\ login'[t].at = login[t].at
        BY <1>2, <2>2 DEF LimiterTyped, HandlersOnTime
    <2>3. CASE login'[t].at = now
        BY <1>2, <2>3, HandlerInTime, LimiterFacts
    <2>4. CASE login'[t] = login[t]
        BY <1>2, <2>4 DEF LimiterTyped, HandlersOnTime, Limiter!Is
    <2>5. QED BY <2>1, <2>2, <2>3, <2>4 DEF Steps
<1> QED BY <1>1, <1>2

\* What counters may be.
LEMMA IncrementTyped ==
    ASSUME Limiter!LimiterTypeOK, NEW row \in Limiter!Counter, NEW ttl \in Nat
    PROVE  /\ Limiter!Increment(row, ttl) \in Limiter!Counter
           /\ Limiter!Increment(row, ttl).ttl = ttl
           /\ Limiter!Increment(row, ttl).count = 
                  IF backend = "postgres" /\ row.ttl <= now THEN 1 ELSE row.count + 1
BY DEF Limiter!Counter, Limiter!Increment

LEMMA GetBlockTyped ==
    ASSUME Limiter!LimiterTypeOK, NEW p \in Limiter!Policies, NEW until \in Limiter!GetBlock(p)
    PROVE  /\ until \in Nat
           /\ until \in {0, blocks[p].until, blocks[p].older}
           /\ backend = "postgres" => until = IF blocks[p].ttl > now THEN blocks[p].until ELSE 0
<1>1. blocks[p] \in Limiter!BlockRow BY DEF Limiter!LimiterTypeOK
<1>2. blocks[p].until \in Nat /\ blocks[p].older \in Nat BY <1>1 DEF Limiter!BlockRow
<1> QED BY <1>2 DEF Limiter!GetBlock

\* What a step of a handler leaves typed.
StepTyped(t) ==
    /\ Limiter!LimiterTypeOK' /\ Steps(t)
    /\ UNCHANGED <<backend, traffic, rules, now>>

LEMMA ArriveTyped ==
    ASSUME LimiterTyped, NEW t \in Handlers, NEW n \in Nodes, Limiter!Arrive(t, n)
    PROVE  StepTyped(t)
<1> DEFINE r == [phase |-> IF Limiter!Disabled("perIp") THEN "isBlocked" ELSE "increment",
                 node |-> n, at |-> now]
<1>1. r \in Limiter!Handler /\ r.at = now /\ r.node = n
    BY DEF LimiterTyped, Limiter!LimiterTypeOK, Limiter!Handler, Limiter!Phases
<1>2. \/ UNCHANGED <<login, cache>>
      \/ login' = [login EXCEPT ![t] = r] /\ Limiter!Forget(n, "perIp")
    BY DEF Limiter!Arrive
<1>3. cache' \in [Nodes -> [Limiter!Policies -> Nat]]
    BY <1>2 DEF LimiterTyped, Limiter!LimiterTypeOK, Limiter!Forget
<1> HIDE DEF r
<1>4. login' \in [Handlers -> Limiter!Handler] /\ Steps(t)
    BY <1>1, <1>2 DEF LimiterTyped, Limiter!LimiterTypeOK, Steps, Limiter!Arrive
<1> QED BY <1>3, <1>4
        DEF LimiterTyped, Limiter!LimiterTypeOK, StepTyped, Limiter!Arrive, Limiter!history,
            Limiter!Buckets, Limiter!Counter, Limiter!BlockRow, Limiter!Handler

LEMMA CheckIncrementTyped ==
    ASSUME LimiterTyped, NEW t \in Handlers, Limiter!CheckIncrement(t)
    PROVE  StepTyped(t)
<1> DEFINE b == Limiter!Bucket(login[t].at)
           ttl == (b + 1) * rules.perIp.window + rules.perIp.block + Grace
           row == Limiter!Increment(counters[b], ttl)
           phase == IF row.count = 1 THEN "rehydrate"
                    ELSE IF row.count > rules.perIp.max THEN "tripIp" ELSE "isBlocked"
<1>1. b \in Limiter!Buckets /\ b \in Nat
    BY HandlerInTime, BucketFacts DEF LimiterTyped, Limiter!Buckets
<1>2. rules.perIp.window \in Nat /\ rules.perIp.block \in Nat /\ rules.perIp.max \in Nat /\ Grace \in Nat
    BY RulesTyped, LimiterFacts DEF LimiterTyped
<1>3. ttl \in Nat BY <1>1, <1>2
<1>4. counters[b] \in Limiter!Counter BY <1>1 DEF LimiterTyped, Limiter!LimiterTypeOK
<1>5. row \in Limiter!Counter BY <1>3, <1>4, IncrementTyped DEF LimiterTyped
<1>6. phase \in Limiter!Phases BY DEF Limiter!Phases
<1>7. /\ counters' = [counters EXCEPT ![b] = row]
      /\ asked' = [asked EXCEPT ![b] = Limiter!UpTo(rules.perIp.max + 1, @ + 1)]
      /\ Limiter!To(t, phase) /\ ~Limiter!Is(t, "idle")
      /\ admitted' = [admitted EXCEPT ![b] = IF row.count = 1 \/ row.count > rules.perIp.max THEN @ ELSE @ + 1]
      /\ UNCHANGED <<backend, traffic, rules, now, failures, blocks, cache, guessed, streak, wins>>
    BY DEF Limiter!CheckIncrement, Limiter!Is
<1> HIDE DEF b, ttl, row, phase
<1>8. Steps(t) BY <1>6, <1>7, HandlerTo DEF LimiterTyped
<1>9. asked' \in [Limiter!Buckets -> Nat] /\ admitted' \in [Limiter!Buckets -> Nat]
    BY <1>1, <1>2, <1>7 DEF LimiterTyped, Limiter!LimiterTypeOK, Limiter!UpTo
<1>10. counters' \in [Limiter!Buckets -> Limiter!Counter]
    BY <1>1, <1>5, <1>7 DEF LimiterTyped, Limiter!LimiterTypeOK
<1> QED BY <1>7, <1>8, <1>9, <1>10
        DEF LimiterTyped, Limiter!LimiterTypeOK, StepTyped, Steps,
            Limiter!Buckets, Limiter!Counter, Limiter!BlockRow, Limiter!Handler

\* What the steps of handlers have in common: the tables' types, one by one.
TablesTyped ==
    /\ counters \in [Limiter!Buckets -> Limiter!Counter] /\ failures \in Limiter!Counter
    /\ blocks \in [Limiter!Policies -> Limiter!BlockRow]
    /\ cache \in [Nodes -> [Limiter!Policies -> Nat]]
    /\ admitted \in [Limiter!Buckets -> Nat] /\ asked \in [Limiter!Buckets -> Nat]
    /\ guessed \in Nat /\ streak \in Nat /\ wins \in 0..MaxWins

LEMMA TypeOfTables ==
    Limiter!LimiterTypeOK =>
        /\ TablesTyped /\ login \in [Handlers -> Limiter!Handler] /\ now \in 0..MaxSeconds
        /\ backend \in {"dynamodb", "postgres"} /\ [rules |-> rules, traffic |-> traffic] \in Settings
BY DEF Limiter!LimiterTypeOK, TablesTyped

LEMMA StepIsTyped ==
    ASSUME LimiterTyped, NEW t \in Handlers, Steps(t), TablesTyped',
           UNCHANGED <<backend, traffic, rules, now>>
    PROVE  StepTyped(t)
<1>1. [rules |-> rules, traffic |-> traffic]' \in Settings
    BY TypeOfTables DEF LimiterTyped
<1> QED BY <1>1
        DEF LimiterTyped, Limiter!LimiterTypeOK, StepTyped, Steps, TablesTyped,
            Limiter!Buckets, Limiter!Counter, Limiter!BlockRow, Limiter!Handler

\* A node remembers or forgets a block.
LEMMA CacheTyped ==
    ASSUME TablesTyped, NEW n, NEW p, NEW until \in Nat
    PROVE  /\ Limiter!Remember(n, p, until) => cache' \in [Nodes -> [Limiter!Policies -> Nat]]
           /\ Limiter!Forget(n, p) => cache' \in [Nodes -> [Limiter!Policies -> Nat]]
<1>1. ASSUME NEW u \in Nat
      PROVE  [cache EXCEPT ![n] = [cache[n] EXCEPT ![p] = u]] \in [Nodes -> [Limiter!Policies -> Nat]]
    <2>1. n \in Nodes => [cache[n] EXCEPT ![p] = u] \in [Limiter!Policies -> Nat]
        BY DEF TablesTyped
    <2>2. PICK row : row = [cache[n] EXCEPT ![p] = u] OBVIOUS
    <2>3. [cache EXCEPT ![n] = row] \in [Nodes -> [Limiter!Policies -> Nat]]
        BY <2>1, <2>2 DEF TablesTyped
    <2>4. QED BY <2>2, <2>3
<1>2. ASSUME Limiter!Remember(n, p, until)
      PROVE  cache' = [cache EXCEPT ![n] = [cache[n] EXCEPT ![p] = until]]
    BY <1>2 DEF Limiter!Remember
<1>3. ASSUME Limiter!Forget(n, p)
      PROVE  cache' = [cache EXCEPT ![n] = [cache[n] EXCEPT ![p] = 0]]
    BY <1>3 DEF Limiter!Forget
<1> QED BY <1>1, <1>2, <1>3

\* Another block row.
LEMMA BlocksTyped ==
    ASSUME TablesTyped, NEW p \in Limiter!Policies, NEW until \in Nat
    PROVE  /\ Limiter!SetBlock(p, until) =>
                  /\ blocks' \in [Limiter!Policies -> Limiter!BlockRow]
                  /\ blocks'[p].until = until /\ blocks'[p].older = blocks[p].until
                  /\ blocks'[p].ttl = until + Grace
           /\ Limiter!ClearRow(p) =>
                  /\ blocks' \in [Limiter!Policies -> Limiter!BlockRow]
                  /\ blocks'[p].until = 0 /\ blocks'[p].older = blocks[p].until
                  /\ blocks'[p].ttl = 0
<1>1. blocks[p] \in Limiter!BlockRow /\ blocks[p].until \in Nat
    BY DEF TablesTyped, Limiter!BlockRow
<1>2. Grace \in Nat BY LimiterFacts
<1> DEFINE set == [until |-> until, older |-> blocks[p].until, ttl |-> until + Grace]
           cleared == [until |-> 0, older |-> blocks[p].until, ttl |-> 0]
<1>3. set \in Limiter!BlockRow /\ cleared \in Limiter!BlockRow
    BY <1>1, <1>2 DEF Limiter!BlockRow
<1>4. ASSUME Limiter!SetBlock(p, until)
      PROVE  blocks' \in [Limiter!Policies -> Limiter!BlockRow] /\ blocks'[p] = set
    BY <1>3, <1>4 DEF Limiter!SetBlock, TablesTyped
<1>5. ASSUME Limiter!ClearRow(p)
      PROVE  blocks' \in [Limiter!Policies -> Limiter!BlockRow] /\ blocks'[p] = cleared
    BY <1>3, <1>5 DEF Limiter!ClearRow, TablesTyped
<1> QED BY <1>4, <1>5

LEMMA RehydrateTyped ==
    ASSUME LimiterTyped, NEW t \in Handlers, Limiter!Rehydrate(t)
    PROVE  StepTyped(t)
<1> DEFINE b == Limiter!Bucket(login[t].at)
<1>1. PICK until \in Limiter!GetBlock("perIp") :
          /\ Limiter!Is(t, "rehydrate")
          /\ \/ Limiter!Remember(login[t].node, "perIp", until) /\ Limiter!Ends(t) /\ UNCHANGED admitted
             \/ /\ Limiter!To(t, "isBlocked") /\ UNCHANGED cache
                /\ admitted' = [admitted EXCEPT ![b] = @ + 1]
          /\ UNCHANGED <<backend, traffic, rules, now, counters, failures, blocks, asked, guessed,
                         streak, wins>>
    BY DEF Limiter!Rehydrate
<1>2. until \in Nat BY GetBlockTyped DEF LimiterTyped, Limiter!Policies
<1>3. TablesTyped BY TypeOfTables DEF LimiterTyped
<1> HIDE DEF b
<1>4. cache' \in [Nodes -> [Limiter!Policies -> Nat]] BY <1>1, <1>2, <1>3, CacheTyped DEF TablesTyped
<1>5. admitted' \in [Limiter!Buckets -> Nat] BY <1>1, <1>3 DEF TablesTyped
<1>6. TablesTyped'
    BY <1>1, <1>3, <1>4, <1>5 DEF TablesTyped, Limiter!Buckets, Limiter!Counter, Limiter!BlockRow
<1>7. Steps(t) BY <1>1, HandlerEnds, HandlerTo DEF LimiterTyped, Limiter!Phases, Limiter!Is
<1> QED BY <1>1, <1>6, <1>7, StepIsTyped

LEMMA TripTyped ==
    ASSUME LimiterTyped, NEW t \in Handlers, Limiter!TripBlock(t)
    PROVE  StepTyped(t)
<1>1. PICK p \in Limiter!Policies : Limiter!Trip(t, p)
    BY DEF Limiter!TripBlock, Limiter!Policies
<1> DEFINE until == login[t].at + rules[p].block
<1>2. until \in Nat BY HandlerInTime, RulesTyped DEF LimiterTyped
<1>3. /\ Limiter!SetBlock(p, until) \/ UNCHANGED blocks
      /\ Limiter!Remember(login[t].node, p, until) /\ Limiter!Ends(t)
      /\ UNCHANGED <<backend, traffic, rules, now, counters, failures, Limiter!history>>
    BY <1>1 DEF Limiter!Trip
<1>4. TablesTyped BY TypeOfTables DEF LimiterTyped
<1> HIDE DEF until
<1>5. blocks' \in [Limiter!Policies -> Limiter!BlockRow]
    BY <1>2, <1>3, <1>4, BlocksTyped DEF TablesTyped
<1>6. cache' \in [Nodes -> [Limiter!Policies -> Nat]] BY <1>2, <1>3, <1>4, CacheTyped
<1>7. TablesTyped'
    BY <1>3, <1>4, <1>5, <1>6
       DEF TablesTyped, Limiter!Buckets, Limiter!Counter, Limiter!BlockRow, Limiter!history
<1>8. Steps(t) BY <1>3, HandlerEnds DEF LimiterTyped
<1> QED BY <1>3, <1>7, <1>8, StepIsTyped

\* Before the password is looked at, only the cache changes.
LEMMA CheckTyped ==
    ASSUME LimiterTyped, NEW t \in Handlers,
           \/ Limiter!UnknownAccount(t) \/ Limiter!IsBlocked(t) \/ Limiter!ReadBlock(t)
           \/ Limiter!CodePending(t) \/ Limiter!StoreFails(t)
    PROVE  StepTyped(t)
<1>1. /\ ~Limiter!Is(t, "idle")
      /\ Limiter!Ends(t) \/ \E phase \in Limiter!Phases : Limiter!To(t, phase)
      /\ \/ UNCHANGED cache
         \/ \E until \in Nat : \/ Limiter!Remember(login[t].node, "login", until)
                               \/ Limiter!Forget(login[t].node, "login")
      /\ UNCHANGED <<backend, traffic, rules, now, counters, failures, blocks, Limiter!history>>
    <2>1. CASE Limiter!UnknownAccount(t) \/ Limiter!CodePending(t)
        BY <2>1 DEF Limiter!UnknownAccount, Limiter!CodePending, Limiter!Is
    <2>2. CASE Limiter!IsBlocked(t)
        BY <2>2 DEF Limiter!IsBlocked, Limiter!Is, Limiter!Phases
    <2>3. CASE Limiter!ReadBlock(t)
        <3>1. \A until \in Limiter!GetBlock("login") : until \in Nat
            BY GetBlockTyped DEF LimiterTyped, Limiter!Policies
        <3>2. QED BY <2>3, <3>1 DEF Limiter!ReadBlock, Limiter!Is, Limiter!Phases
    <2>4. CASE Limiter!StoreFails(t)
        BY <2>4 DEF Limiter!StoreFails, Limiter!Is, Limiter!Phases
    <2>5. QED BY <2>1, <2>2, <2>3, <2>4
<1>2. TablesTyped BY TypeOfTables DEF LimiterTyped
<1>3. cache' \in [Nodes -> [Limiter!Policies -> Nat]] BY <1>1, <1>2, CacheTyped DEF TablesTyped
<1>4. TablesTyped'
    BY <1>1, <1>2, <1>3 DEF TablesTyped, Limiter!Buckets, Limiter!Counter, Limiter!BlockRow,
                            Limiter!history
<1>5. Steps(t) BY <1>1, HandlerEnds, HandlerTo DEF LimiterTyped
<1> QED BY <1>1, <1>4, <1>5, StepIsTyped

LEMMA PasswordTyped ==
    ASSUME LimiterTyped, NEW t \in Handlers, Limiter!WrongPassword(t) \/ Limiter!RightPassword(t)
    PROVE  StepTyped(t)
<1>1. /\ ~Limiter!Is(t, "idle")
      /\ Limiter!Ends(t) \/ \E phase \in Limiter!Phases : Limiter!To(t, phase)
      /\ guessed' \in {guessed, Limiter!UpTo(MaxGuesses, guessed + 1)}
      /\ wins' = wins \/ (wins < MaxWins /\ wins' = wins + 1)
      /\ UNCHANGED <<backend, traffic, rules, now, counters, failures, blocks, cache, admitted, asked,
                     streak>>
    BY DEF Limiter!WrongPassword, Limiter!RightPassword, Limiter!Is, Limiter!Phases
<1>2. TablesTyped BY TypeOfTables DEF LimiterTyped
<1>3. guessed' \in Nat BY <1>1, <1>2, LimiterFacts DEF TablesTyped, Limiter!UpTo
<1>4. MaxWins \in Nat BY PlatformAssumption DEF Limiter!RateLimitAssumption
<1>5. wins' \in 0..MaxWins BY <1>1, <1>2, <1>4 DEF TablesTyped
<1>6. TablesTyped'
    BY <1>1, <1>2, <1>3, <1>5 DEF TablesTyped, Limiter!Buckets, Limiter!Counter, Limiter!BlockRow
<1>7. Steps(t) BY <1>1, HandlerEnds, HandlerTo DEF LimiterTyped
<1> QED BY <1>1, <1>6, <1>7, StepIsTyped

LEMMA RecordTyped ==
    ASSUME LimiterTyped, NEW t \in Handlers,
           Limiter!RecordFailure(t) \/ Limiter!ClearCounter(t) \/ Limiter!ClearBlock(t)
    PROVE  StepTyped(t)
<1> DEFINE ttl == login[t].at + rules.login.window + Grace
<1>1. rules.login.max \in Nat /\ ttl \in Nat
    BY HandlerInTime, RulesTyped, LimiterFacts DEF LimiterTyped
<1>2. TablesTyped BY TypeOfTables DEF LimiterTyped
<1>3. /\ ~Limiter!Is(t, "idle")
      /\ Limiter!Ends(t) \/ \E phase \in Limiter!Phases : Limiter!To(t, phase)
      /\ failures' \in {failures, Limiter!NoCounter, Limiter!Increment(failures, ttl)}
      /\ streak' \in {streak, 0, 1, Limiter!UpTo(rules.login.max, streak + 1)}
      /\ Limiter!ClearRow("login") \/ UNCHANGED blocks
      /\ Limiter!Forget(login[t].node, "login") \/ UNCHANGED cache
      /\ UNCHANGED <<backend, traffic, rules, now, counters, admitted, asked, guessed, wins>>
    BY DEF Limiter!RecordFailure, Limiter!ClearCounter, Limiter!ClearBlock, Limiter!Is,
           Limiter!Phases,
           Limiter!history
<1>4. Limiter!Increment(failures, ttl) \in Limiter!Counter /\ Limiter!NoCounter \in Limiter!Counter
    <2> HIDE DEF ttl
    <2> QED
        BY <1>1, <1>2, IncrementTyped DEF LimiterTyped, TablesTyped, Limiter!NoCounter, Limiter!Counter
<1> HIDE DEF ttl
<1>5. streak' \in Nat BY <1>1, <1>2, <1>3 DEF TablesTyped, Limiter!UpTo
<1>6. blocks' \in [Limiter!Policies -> Limiter!BlockRow]
    BY <1>2, <1>3, BlocksTyped DEF TablesTyped, Limiter!Policies
<1>7. cache' \in [Nodes -> [Limiter!Policies -> Nat]] BY <1>2, <1>3, CacheTyped DEF TablesTyped
<1>8. TablesTyped'
    BY <1>2, <1>3, <1>4, <1>5, <1>6, <1>7
       DEF TablesTyped, Limiter!Buckets, Limiter!Counter, Limiter!BlockRow
<1>9. Steps(t) BY <1>3, HandlerEnds, HandlerTo DEF LimiterTyped
<1> QED BY <1>3, <1>8, <1>9, StepIsTyped

LEMMA StepKeepsTypes ==
    ASSUME LimiterTyped, NEW t \in Handlers, Limiter!LimiterStep(t)
    PROVE  StepTyped(t) /\ LimiterTyped'
<1>1. StepTyped(t)
    <2>1. ASSUME NEW n \in Nodes, Limiter!Arrive(t, n) PROVE StepTyped(t) BY <2>1, ArriveTyped
    <2>2. QED
        BY <2>1, CheckIncrementTyped, RehydrateTyped, TripTyped, CheckTyped, PasswordTyped, RecordTyped
              DEF Limiter!LimiterStep
<1> QED BY <1>1, StepsKeepTime DEF StepTyped, LimiterTyped

\* Time and rows that go with it leave the handlers alone.
Elsewhere == Limiter!Tick \/ Limiter!SweepCounters
             \/ \E p \in Limiter!Policies : Limiter!SweepBlock(p) \/ \E n \in Nodes : Limiter!PushedOut(n, p)

LEMMA ElsewhereKeepsTypes == LimiterTyped /\ Elsewhere => LimiterTyped'
<1> SUFFICES ASSUME LimiterTyped, Elsewhere PROVE LimiterTyped'
    OBVIOUS
<1>1. TablesTyped BY TypeOfTables DEF LimiterTyped
<1>2. Limiter!NoCounter \in Limiter!Counter /\ Limiter!NoBlock \in Limiter!BlockRow
    BY DEF Limiter!NoCounter, Limiter!Counter, Limiter!NoBlock, Limiter!BlockRow
<1>3. CASE Limiter!Tick
    <2>1. now \in 0..MaxSeconds BY DEF LimiterTyped, Limiter!LimiterTypeOK
    <2>2. now' \in 0..MaxSeconds /\ now' = now + 1 /\ now \in Nat
        BY <1>3, <2>1, LimiterFacts DEF Limiter!Tick
    <2>3. Limiter!LimiterTypeOK'
        BY <1>3, <2>2
           DEF LimiterTyped, Limiter!LimiterTypeOK, Limiter!Tick, Limiter!history,
               Limiter!Buckets, Limiter!Counter, Limiter!BlockRow, Limiter!Handler
    <2>4. HandlersOnTime'
        <3> SUFFICES ASSUME NEW t \in Handlers, ~Limiter!Is(t, "idle")'
                     PROVE  login'[t].at <= now' /\ now' <= login'[t].at + MaxDelay
            BY DEF HandlersOnTime
        <3>1. login' = login /\ now < login[t].at + MaxDelay /\ ~Limiter!Is(t, "idle")
            BY <1>3 DEF Limiter!Tick, Limiter!Is
        <3>2. QED BY <2>2, <3>1, HandlerInTime, LimiterFacts
    <2>5. QED BY <2>3, <2>4 DEF LimiterTyped
<1>4. CASE ~Limiter!Tick
    <2>1. UNCHANGED <<backend, traffic, rules, now, login, Limiter!history>>
        BY <1>4 DEF Elsewhere, Limiter!SweepCounters, Limiter!SweepBlock, Limiter!PushedOut
    <2>2. counters' \in [Limiter!Buckets -> Limiter!Counter] /\ failures' \in Limiter!Counter
        BY <1>1, <1>2, <1>4
           DEF Elsewhere, Limiter!SweepCounters, Limiter!SweepBlock, Limiter!PushedOut, TablesTyped
    <2>3. blocks' \in [Limiter!Policies -> Limiter!BlockRow]
        BY <1>1, <1>2, <1>4
           DEF Elsewhere, Limiter!SweepCounters, Limiter!SweepBlock, Limiter!PushedOut, TablesTyped
    <2>4. cache' \in [Nodes -> [Limiter!Policies -> Nat]]
        BY <1>1, <1>4, CacheTyped
           DEF Elsewhere, Limiter!SweepCounters, Limiter!SweepBlock, Limiter!PushedOut, TablesTyped
    <2>5. Limiter!LimiterTypeOK'
        BY <2>1, <2>2, <2>3, <2>4
           DEF LimiterTyped, Limiter!LimiterTypeOK, Limiter!history,
               Limiter!Buckets, Limiter!Counter, Limiter!BlockRow, Limiter!Handler
    <2>6. HandlersOnTime' BY <2>1 DEF LimiterTyped, HandlersOnTime, Limiter!Is
    <2>7. QED BY <2>5, <2>6 DEF LimiterTyped
<1> QED BY <1>3, <1>4

LEMMA LimiterNextSplits ==
    Limiter!LimiterNext <=> Elsewhere \/ \E t \in Handlers : Limiter!LimiterStep(t)
BY DEF Limiter!LimiterNext, Elsewhere

-----------------------------------------------------------------------------
(* The volume cap *)

\* When the counter of a window runs out: after everybody who is counted in it.
RunsOut(b) == (b + 1) * rules.perIp.window + rules.perIp.block + Grace

\* Who is about to be let pass is counted and has its place.
WindowsCounted ==
    /\ \A b \in Limiter!Buckets :
           /\ admitted[b] <= rules.perIp.max
           /\ counters[b].count # 0 => counters[b].ttl = RunsOut(b)
           /\ now < RunsOut(b) => admitted[b] <= counters[b].count
    /\ \A t \in Handlers : Limiter!Is(t, "rehydrate") =>
           /\ admitted[Limiter!Bucket(login[t].at)] + 1 <= counters[Limiter!Bucket(login[t].at)].count
           /\ admitted[Limiter!Bucket(login[t].at)] + 1 <= rules.perIp.max
    /\ \A s, t \in Handlers :
           s # t /\ Limiter!Is(s, "rehydrate") /\ Limiter!Is(t, "rehydrate") =>
               Limiter!Bucket(login[s].at) # Limiter!Bucket(login[t].at)

VolumeInv == ~Limiter!Disabled("perIp") => WindowsCounted

LEMMA RunsOutTyped ==
    ASSUME Limiter!LimiterTypeOK, NEW b \in Limiter!Buckets
    PROVE  RunsOut(b) \in Nat
<1>1. b \in Nat BY DEF Limiter!Buckets
<1>2. rules.perIp.window \in Nat /\ rules.perIp.block \in Nat /\ Grace \in Nat
    BY RulesTyped, LimiterFacts
<1> QED BY <1>1, <1>2 DEF RunsOut

\* The bucket a handler is counted in, and that its counter has not run out.
LEMMA InWindow ==
    ASSUME LimiterTyped, NEW t \in Handlers
    PROVE  /\ Limiter!Bucket(login[t].at) \in Limiter!Buckets
           /\ ~Limiter!Is(t, "idle") => now < RunsOut(Limiter!Bucket(login[t].at))
<1> DEFINE b == Limiter!Bucket(login[t].at)
           end == (b + 1) * rules.perIp.window
<1>1. b \in Limiter!Buckets /\ login[t].at < end
    BY HandlerInTime, BucketFacts DEF LimiterTyped
<1>2. b \in Nat /\ rules.perIp.window \in Nat /\ rules.perIp.block \in Nat
    BY <1>1, RulesTyped DEF LimiterTyped, Limiter!Buckets
<1>3. end \in Nat BY <1>2
<1>4. RunsOut(b) = end + rules.perIp.block + Grace BY DEF RunsOut
<1> HIDE DEF b, end
<1>5. ~Limiter!Is(t, "idle") => now < RunsOut(b)
    BY <1>1, <1>2, <1>3, <1>4, HandlerInTime, LimiterFacts
<1> QED BY <1>1, <1>5 DEF b

LEMMA CountersTyped ==
    ASSUME LimiterTyped, NEW b \in Limiter!Buckets
    PROVE  /\ admitted[b] \in Nat /\ asked[b] \in Nat /\ counters[b] \in Limiter!Counter
           /\ counters[b].count \in Nat /\ counters[b].ttl \in Nat
BY DEF LimiterTyped, Limiter!LimiterTypeOK, Limiter!Counter

\* What a handler is counted as.
LEMMA CountedOnce ==
    ASSUME LimiterTyped, WindowsCounted, NEW t \in Handlers, ~Limiter!Is(t, "idle"),
           NEW b, b = Limiter!Bucket(login[t].at)
    PROVE  Limiter!Increment(counters[b], RunsOut(b)) = [count |-> counters[b].count + 1, ttl |-> RunsOut(b)]
<1>1. b \in Limiter!Buckets /\ now < RunsOut(b) BY InWindow
<1>2. counters[b].count \in Nat /\ counters[b].ttl \in Nat /\ RunsOut(b) \in Nat /\ now \in Nat
    BY <1>1, CountersTyped, RunsOutTyped, HandlerInTime DEF LimiterTyped
<1>3. counters[b].count # 0 => ~(counters[b].ttl <= now)
    BY <1>1, <1>2 DEF WindowsCounted
<1>4. counters[b].count = 0 => counters[b].count + 1 = 1 OBVIOUS
<1> QED BY <1>2, <1>3, <1>4 DEF Limiter!Increment

\* A handler that does not get to look at the block rows, nor is let pass.
LEMMA ElsewhereInVolume ==
    ASSUME LimiterTyped, VolumeInv, NEW t \in Handlers, StepTyped(t),
           UNCHANGED <<counters, admitted>>, ~Limiter!Is(t, "rehydrate")'
    PROVE  VolumeInv'
<1> SUFFICES ASSUME ~Limiter!Disabled("perIp")' PROVE WindowsCounted'
    BY DEF VolumeInv
<1>1. rules' = rules /\ now' = now /\ WindowsCounted
    BY DEF StepTyped, VolumeInv, Limiter!Disabled
<1>2. \A s \in Handlers : Limiter!Is(s, "rehydrate")' =>
          s # t /\ login'[s] = login[s] /\ Limiter!Is(s, "rehydrate")
    BY DEF StepTyped, Steps, Limiter!Is
<1>3. \A b \in Limiter!Buckets : RunsOut(b)' = RunsOut(b) BY <1>1 DEF RunsOut
<1>4. \A s \in Handlers : Limiter!Is(s, "rehydrate")' =>
          Limiter!Bucket(login[s].at)' = Limiter!Bucket(login[s].at)
    BY <1>1, <1>2 DEF Limiter!Bucket
<1>5. Limiter!Buckets' = Limiter!Buckets BY DEF Limiter!Buckets
<1> QED BY <1>1, <1>2, <1>3, <1>4, <1>5 DEF WindowsCounted

LEMMA CheckIncrementCaps ==
    ASSUME LimiterTyped, VolumeInv, NEW t \in Handlers, Limiter!CheckIncrement(t)
    PROVE  VolumeInv'
<1> SUFFICES ASSUME ~Limiter!Disabled("perIp")' PROVE WindowsCounted'
    BY DEF VolumeInv
<1>1. /\ rules' = rules /\ now' = now /\ ~Limiter!Is(t, "idle") /\ WindowsCounted
      /\ rules.perIp.max # 0
    BY RulesTyped
       DEF Limiter!CheckIncrement, VolumeInv, Limiter!Disabled, Limiter!Is, LimiterTyped
<1>2. PICK b : b = Limiter!Bucket(login[t].at) OBVIOUS
<1>3. b \in Limiter!Buckets /\ now < RunsOut(b) BY <1>1, <1>2, InWindow
<1> DEFINE count == counters[b].count + 1
           phase == IF count = 1 THEN "rehydrate"
                    ELSE IF count > rules.perIp.max THEN "tripIp" ELSE "isBlocked"
<1>4. Limiter!Increment(counters[b], RunsOut(b)) = [count |-> count, ttl |-> RunsOut(b)]
    BY <1>1, <1>2, CountedOnce
<1>5. /\ counters' = [counters EXCEPT ![b] = [count |-> count, ttl |-> RunsOut(b)]]
      /\ admitted' = [admitted EXCEPT ![b] = IF count = 1 \/ count > rules.perIp.max THEN @ ELSE @ + 1]
      /\ Limiter!To(t, phase)
    <2> DEFINE here == Limiter!Bucket(login[t].at)
               row == Limiter!Increment(counters[here], RunsOut(here))
    <2>1. /\ counters' = [counters EXCEPT ![here] = row]
          /\ admitted' = [admitted EXCEPT ![here] =
                              IF row.count = 1 \/ row.count > rules.perIp.max THEN @ ELSE @ + 1]
          /\ Limiter!To(t, IF row.count = 1 THEN "rehydrate"
                           ELSE IF row.count > rules.perIp.max THEN "tripIp" ELSE "isBlocked")
        BY DEF Limiter!CheckIncrement, RunsOut
    <2>2. here = b BY <1>2
    <2> HIDE DEF here
    <2>3. row = [count |-> count, ttl |-> RunsOut(b)] BY <1>4, <2>2
    <2> HIDE DEF row
    <2>4. row.count = count BY <2>3
    <2>5. QED BY <2>1, <2>2, <2>3, <2>4
<1>6. /\ admitted[b] \in Nat /\ counters[b].count \in Nat /\ rules.perIp.max \in Nat /\ count \in Nat
    BY <1>3, CountersTyped, RulesTyped DEF LimiterTyped
<1>7. /\ counters'[b].count = count /\ counters'[b].ttl = RunsOut(b)
      /\ \A c \in Limiter!Buckets \ {b} : counters'[c] = counters[c] /\ admitted'[c] = admitted[c]
      /\ admitted'[b] = IF count = 1 \/ count > rules.perIp.max THEN admitted[b] ELSE admitted[b] + 1
    BY <1>3, <1>5 DEF LimiterTyped, Limiter!LimiterTypeOK
<1>8. phase \in Limiter!Phases BY DEF Limiter!Phases
<1> HIDE DEF count, phase
<1>9. /\ login'[t].phase = phase /\ login'[t].at = login[t].at
      /\ \A s \in Handlers \ {t} : login'[s] = login[s]
    BY <1>1, <1>5, <1>8, HandlerTo DEF LimiterTyped, Steps
<1>10. \A s \in Handlers : Limiter!Bucket(login[s].at)' = Limiter!Bucket(login[s].at)
    BY <1>1, <1>9 DEF Limiter!Bucket
<1>11. admitted[b] <= counters[b].count /\ admitted[b] <= rules.perIp.max
    BY <1>1, <1>3 DEF WindowsCounted
\* Whoever waits in this window came first, and has its place.
<1>12. \A s \in Handlers \ {t} : Limiter!Is(s, "rehydrate") /\ Limiter!Bucket(login[s].at) = b =>
           /\ admitted[b] + 1 <= counters[b].count /\ admitted[b] + 1 <= rules.perIp.max
           /\ count # 1
    BY <1>1, <1>6 DEF WindowsCounted, count
<1>13. \A c \in Limiter!Buckets :
           /\ admitted'[c] <= rules.perIp.max
           /\ counters'[c].count # 0 => counters'[c].ttl = RunsOut(c)
           /\ now < RunsOut(c) => admitted'[c] <= counters'[c].count
    <2>1. /\ admitted'[b] <= rules.perIp.max /\ admitted'[b] <= count
        BY <1>6, <1>7, <1>11 DEF count
    <2>2. QED BY <1>1, <1>7, <2>1 DEF WindowsCounted
<1>14. \A s \in Handlers : Limiter!Is(s, "rehydrate")' =>
           /\ admitted'[Limiter!Bucket(login[s].at)] + 1 <= counters'[Limiter!Bucket(login[s].at)].count
           /\ admitted'[Limiter!Bucket(login[s].at)] + 1 <= rules.perIp.max
    <2> SUFFICES ASSUME NEW s \in Handlers, Limiter!Is(s, "rehydrate")'
                 PROVE  /\ admitted'[Limiter!Bucket(login[s].at)] + 1
                               <= counters'[Limiter!Bucket(login[s].at)].count
                        /\ admitted'[Limiter!Bucket(login[s].at)] + 1 <= rules.perIp.max
        OBVIOUS
    <2>1. CASE s = t
        <3>1. count = 1 BY <1>9, <2>1 DEF Limiter!Is, phase
        <3>2. admitted'[b] = 0 BY <1>6, <1>7, <1>11, <3>1 DEF count
        <3>3. QED BY <1>1, <1>2, <1>6, <1>7, <2>1, <3>1, <3>2
    <2>2. CASE s # t
        <3>1. Limiter!Is(s, "rehydrate") BY <1>9, <2>2 DEF Limiter!Is
        <3>2. Limiter!Bucket(login[s].at) \in Limiter!Buckets BY InWindow
        <3>3. CASE Limiter!Bucket(login[s].at) # b
            BY <1>1, <1>7, <3>1, <3>2, <3>3 DEF WindowsCounted
        <3>4. CASE Limiter!Bucket(login[s].at) = b
            <4>1. /\ admitted[b] + 1 <= counters[b].count /\ admitted[b] + 1 <= rules.perIp.max
                  /\ count # 1
                BY <1>12, <2>2, <3>1, <3>4
            <4>2. admitted'[b] + 1 <= count /\ admitted'[b] + 1 <= rules.perIp.max
                BY <1>6, <1>7, <4>1 DEF count
            <4>3. QED BY <1>7, <3>4, <4>2
        <3>5. QED BY <3>3, <3>4
    <2>3. QED BY <2>1, <2>2
<1>15. \A s, u \in Handlers :
           s # u /\ Limiter!Is(s, "rehydrate")' /\ Limiter!Is(u, "rehydrate")' =>
               Limiter!Bucket(login[s].at) # Limiter!Bucket(login[u].at)
    <2>1. \A s \in Handlers \ {t} : Limiter!Is(s, "rehydrate")' => Limiter!Is(s, "rehydrate")
        BY <1>9 DEF Limiter!Is
    <2>2. Limiter!Is(t, "rehydrate")' => count = 1 BY <1>9 DEF Limiter!Is, phase
    <2>3. \A s \in Handlers \ {t} : Limiter!Is(s, "rehydrate")' /\ Limiter!Is(t, "rehydrate")' =>
              Limiter!Bucket(login[s].at) # b
        BY <1>12, <2>1, <2>2
    <2>4. QED BY <1>1, <1>2, <2>1, <2>3 DEF WindowsCounted
<1>16. \A c \in Limiter!Buckets : RunsOut(c)' = RunsOut(c) BY <1>1 DEF RunsOut
<1>17. Limiter!Buckets' = Limiter!Buckets BY DEF Limiter!Buckets
<1> QED BY <1>1, <1>10, <1>13, <1>14, <1>15, <1>16, <1>17 DEF WindowsCounted

LEMMA RehydrateCaps ==
    ASSUME LimiterTyped, VolumeInv, NEW t \in Handlers, Limiter!Rehydrate(t)
    PROVE  VolumeInv'
<1>1. StepTyped(t) BY RehydrateTyped
<1>2. CASE UNCHANGED admitted /\ Limiter!Ends(t)
    <2>1. ~Limiter!Is(t, "rehydrate")'
        BY <1>2, HandlerEnds, IdleTyped DEF LimiterTyped, Limiter!Is
    <2>2. UNCHANGED counters BY DEF Limiter!Rehydrate
    <2>3. QED BY <1>1, <1>2, <2>1, <2>2, ElsewhereInVolume
<1>3. CASE /\ Limiter!To(t, "isBlocked")
           /\ admitted' = [admitted EXCEPT ![Limiter!Bucket(login[t].at)] = @ + 1]
    <2> SUFFICES ASSUME ~Limiter!Disabled("perIp")' PROVE WindowsCounted'
        BY DEF VolumeInv
    <2>1. /\ rules' = rules /\ now' = now /\ counters' = counters /\ Limiter!Is(t, "rehydrate")
          /\ ~Limiter!Is(t, "idle") /\ WindowsCounted
        BY DEF Limiter!Rehydrate, VolumeInv, Limiter!Disabled, Limiter!Is
    <2>2. PICK b : b = Limiter!Bucket(login[t].at) OBVIOUS
    <2>3. b \in Limiter!Buckets BY <2>2, InWindow
    <2>4. /\ login'[t].phase = "isBlocked" /\ login'[t].at = login[t].at
          /\ \A s \in Handlers \ {t} : login'[s] = login[s]
        BY <1>3, <2>1, HandlerTo DEF LimiterTyped, Steps, Limiter!Phases
    <2>5. \A s \in Handlers : Limiter!Bucket(login[s].at)' = Limiter!Bucket(login[s].at)
        BY <2>1, <2>4 DEF Limiter!Bucket
    <2>6. /\ admitted'[b] = admitted[b] + 1
          /\ \A c \in Limiter!Buckets \ {b} : admitted'[c] = admitted[c]
        BY <1>3, <2>2, <2>3 DEF LimiterTyped, Limiter!LimiterTypeOK
    <2>7. admitted[b] + 1 <= counters[b].count /\ admitted[b] + 1 <= rules.perIp.max
        BY <2>1, <2>2 DEF WindowsCounted
    <2>8. \A s \in Handlers : Limiter!Is(s, "rehydrate")' =>
              s # t /\ Limiter!Is(s, "rehydrate") /\ Limiter!Bucket(login[s].at) # b
        BY <2>1, <2>2, <2>4 DEF WindowsCounted, Limiter!Is
    <2>9. \A s \in Handlers : Limiter!Bucket(login[s].at) \in Limiter!Buckets BY InWindow
    <2>10. \A c \in Limiter!Buckets : RunsOut(c)' = RunsOut(c) BY <2>1 DEF RunsOut
    <2>11. Limiter!Buckets' = Limiter!Buckets BY DEF Limiter!Buckets
    <2>12. \A c \in Limiter!Buckets :
               /\ admitted'[c] <= rules.perIp.max
               /\ counters'[c].count # 0 => counters'[c].ttl = RunsOut(c)
               /\ now < RunsOut(c) => admitted'[c] <= counters'[c].count
        BY <2>1, <2>6, <2>7 DEF WindowsCounted
    <2>13. \A s \in Handlers : Limiter!Is(s, "rehydrate")' =>
               /\ admitted'[Limiter!Bucket(login[s].at)] + 1 <= counters'[Limiter!Bucket(login[s].at)].count
               /\ admitted'[Limiter!Bucket(login[s].at)] + 1 <= rules.perIp.max
        BY <2>1, <2>6, <2>8, <2>9 DEF WindowsCounted
    <2>14. \A s, u \in Handlers :
               s # u /\ Limiter!Is(s, "rehydrate")' /\ Limiter!Is(u, "rehydrate")' =>
                   Limiter!Bucket(login[s].at) # Limiter!Bucket(login[u].at)
        BY <2>1, <2>8 DEF WindowsCounted
    <2>15. QED BY <2>1, <2>5, <2>10, <2>11, <2>12, <2>13, <2>14 DEF WindowsCounted
<1> QED BY <1>2, <1>3 DEF Limiter!Rehydrate

LEMMA ElsewhereCaps == LimiterTyped /\ VolumeInv /\ Elsewhere => VolumeInv'
<1> SUFFICES ASSUME LimiterTyped, VolumeInv, Elsewhere, ~Limiter!Disabled("perIp")'
             PROVE  WindowsCounted'
    BY DEF VolumeInv
<1>1. /\ rules' = rules /\ login' = login /\ admitted' = admitted /\ WindowsCounted
      /\ now' = now \/ now' = now + 1
    BY DEF Elsewhere, Limiter!Tick, Limiter!SweepCounters, Limiter!SweepBlock, Limiter!PushedOut,
           Limiter!history, VolumeInv, Limiter!Disabled
<1>2. \A c \in Limiter!Buckets :
          counters'[c] = counters[c] \/ (counters'[c] = Limiter!NoCounter /\ Limiter!Expired(counters[c]) /\ now' = now)
    BY DEF Elsewhere, Limiter!Tick, Limiter!SweepCounters, Limiter!SweepBlock, Limiter!PushedOut,
           LimiterTyped, Limiter!LimiterTypeOK
<1>3. now \in Nat BY DEF LimiterTyped, Limiter!LimiterTypeOK
<1>4. \A c \in Limiter!Buckets : RunsOut(c)' = RunsOut(c) /\ RunsOut(c) \in Nat
    BY <1>1, RunsOutTyped DEF RunsOut, LimiterTyped
<1>5. \A s \in Handlers : /\ Limiter!Bucket(login[s].at)' = Limiter!Bucket(login[s].at)
                          /\ Limiter!Is(s, "rehydrate")' <=> Limiter!Is(s, "rehydrate")
    BY <1>1 DEF Limiter!Bucket, Limiter!Is
<1>6. Limiter!Buckets' = Limiter!Buckets BY DEF Limiter!Buckets
<1>7. \A c \in Limiter!Buckets :
          /\ admitted'[c] <= rules.perIp.max
          /\ counters'[c].count # 0 => counters'[c].ttl = RunsOut(c)
          /\ now' < RunsOut(c) => admitted'[c] <= counters'[c].count
    <2> SUFFICES ASSUME NEW c \in Limiter!Buckets
                 PROVE  /\ admitted'[c] <= rules.perIp.max
                        /\ counters'[c].count # 0 => counters'[c].ttl = RunsOut(c)
                        /\ now' < RunsOut(c) => admitted'[c] <= counters'[c].count
        OBVIOUS
    <2>1. CASE counters'[c] = counters[c]
        BY <1>1, <1>3, <1>4, <2>1 DEF WindowsCounted
    <2>2. CASE counters'[c] = Limiter!NoCounter /\ Limiter!Expired(counters[c]) /\ now' = now
        <3>1. counters'[c].count = 0 BY <2>2 DEF Limiter!NoCounter
        <3>2. counters[c].count # 0 => ~(now < RunsOut(c))
            BY <1>1, <1>3, <1>4, <2>2 DEF WindowsCounted, Limiter!Expired
        <3>3. QED BY <1>1, <2>2, <3>1, <3>2 DEF WindowsCounted
    <2>3. QED BY <1>2, <2>1, <2>2
<1>8. \A s \in Handlers : Limiter!Is(s, "rehydrate") =>
          counters'[Limiter!Bucket(login[s].at)] = counters[Limiter!Bucket(login[s].at)]
    <2> SUFFICES ASSUME NEW s \in Handlers, Limiter!Is(s, "rehydrate"),
                        NEW b, b = Limiter!Bucket(login[s].at)
                 PROVE  counters'[b] = counters[b]
        OBVIOUS
    <2>1. b \in Limiter!Buckets /\ now < RunsOut(b) BY InWindow DEF Limiter!Is
    <2>2. admitted[b] \in Nat /\ counters[b].count \in Nat /\ admitted[b] + 1 <= counters[b].count
        BY <1>1, <2>1, CountersTyped DEF WindowsCounted
    <2>3. counters[b].count # 0 BY <2>2
    <2>4. ~Limiter!Expired(counters[b])
        BY <1>1, <1>3, <1>4, <2>1, <2>3 DEF WindowsCounted, Limiter!Expired
    <2>5. QED BY <1>2, <2>1, <2>4
<1> QED BY <1>1, <1>4, <1>5, <1>6, <1>7, <1>8 DEF WindowsCounted

\* Only counting leads to the rows of the cap.
LEMMA PastTheCap ==
    ASSUME LimiterTyped, NEW t \in Handlers, Limiter!LimiterStep(t), ~Limiter!CheckIncrement(t)
    PROVE  /\ login'[t].phase \notin {"rehydrate", "tripIp"}
           /\ UNCHANGED <<counters, asked>>
           /\ ~Limiter!Rehydrate(t) => UNCHANGED admitted
<1>1. CASE \E n \in Nodes : Limiter!Arrive(t, n)
    <2>1. PICK n \in Nodes : Limiter!Arrive(t, n) BY <1>1
    <2>2. login' = login \/ login'[t].phase = IF Limiter!Disabled("perIp") THEN "isBlocked" ELSE "increment"
        BY <2>1 DEF Limiter!Arrive, LimiterTyped, Limiter!LimiterTypeOK
    <2>3. Limiter!Is(t, "idle") /\ UNCHANGED <<counters, asked, admitted>>
        BY <2>1 DEF Limiter!Arrive, Limiter!history
    <2>4. QED BY <2>2, <2>3 DEF Limiter!Is
<1>2. CASE ~\E n \in Nodes : Limiter!Arrive(t, n)
    <2>1. /\ ~Limiter!Is(t, "idle")
          /\ Limiter!Ends(t) \/ \E phase \in Limiter!Phases \ {"rehydrate", "tripIp"} : Limiter!To(t, phase)
        BY <1>2
           DEF Limiter!LimiterStep, Limiter!Rehydrate, Limiter!TripBlock, Limiter!Trip,
              Limiter!UnknownAccount,
               Limiter!IsBlocked, Limiter!ReadBlock, Limiter!WrongPassword, Limiter!CodePending,
               Limiter!RightPassword, Limiter!RecordFailure, Limiter!ClearCounter, Limiter!ClearBlock,
               Limiter!StoreFails, Limiter!Is, Limiter!Phases
    <2>2. UNCHANGED <<counters, asked>> /\ (~Limiter!Rehydrate(t) => UNCHANGED admitted)
        BY <1>2
           DEF Limiter!LimiterStep, Limiter!Rehydrate, Limiter!TripBlock, Limiter!Trip,
              Limiter!UnknownAccount,
               Limiter!IsBlocked, Limiter!ReadBlock, Limiter!WrongPassword, Limiter!CodePending,
               Limiter!RightPassword, Limiter!RecordFailure, Limiter!ClearCounter, Limiter!ClearBlock,
               Limiter!StoreFails, Limiter!history
    <2>3. login'[t].phase \notin {"rehydrate", "tripIp"}
        <3>1. CASE Limiter!Ends(t) BY <3>1, HandlerEnds, IdleTyped DEF LimiterTyped
        <3>2. CASE \E phase \in Limiter!Phases \ {"rehydrate", "tripIp"} : Limiter!To(t, phase)
            BY <2>1, <3>2, HandlerTo DEF LimiterTyped
        <3>3. QED BY <2>1, <3>1, <3>2
    <2>4. QED BY <2>2, <2>3
<1> QED BY <1>1, <1>2

LEMMA StepCaps ==
    ASSUME LimiterTyped, VolumeInv, NEW t \in Handlers, Limiter!LimiterStep(t)
    PROVE  VolumeInv'
<1>1. StepTyped(t) BY StepKeepsTypes
<1>2. CASE Limiter!CheckIncrement(t) \/ Limiter!Rehydrate(t)
    BY <1>2, CheckIncrementCaps, RehydrateCaps
<1>3. CASE ~(Limiter!CheckIncrement(t) \/ Limiter!Rehydrate(t))
    <2>1. UNCHANGED <<counters, admitted>> /\ ~Limiter!Is(t, "rehydrate")'
        BY <1>3, PastTheCap DEF Limiter!Is
    <2>2. QED BY <1>1, <2>1, ElsewhereInVolume
<1> QED BY <1>2, <1>3

-----------------------------------------------------------------------------
(* Causes: of a tripped cap *)

\* The history counts along with the counter, at least up to the cap.
WindowCauses ==
    /\ \A b \in Limiter!Buckets : counters[b].count <= asked[b] \/ asked[b] > rules.perIp.max
    /\ \A t \in Handlers : Limiter!Is(t, "tripIp") => asked[Limiter!Bucket(login[t].at)] > rules.perIp.max

LEMMA StepAsks ==
    ASSUME LimiterTyped, WindowCauses, NEW t \in Handlers, Limiter!LimiterStep(t)
    PROVE  /\ WindowCauses'
           /\ \A b \in Limiter!Buckets : asked[b] > rules.perIp.max => asked'[b] > rules.perIp.max
<1>1. StepTyped(t) BY StepKeepsTypes
<1>2. /\ rules' = rules /\ now' = now /\ Limiter!Buckets' = Limiter!Buckets
      /\ \A s \in Handlers \ {t} : login'[s] = login[s]
    BY <1>1 DEF StepTyped, Steps, Limiter!Buckets
<1>3. CASE ~Limiter!CheckIncrement(t)
    <2>1. UNCHANGED <<counters, asked>> /\ ~Limiter!Is(t, "tripIp")'
        BY <1>3, PastTheCap DEF Limiter!Is
    <2>2. QED BY <1>2, <2>1 DEF WindowCauses, Limiter!Is, Limiter!Bucket
<1>4. CASE Limiter!CheckIncrement(t)
    <2> DEFINE here == Limiter!Bucket(login[t].at)
               row == Limiter!Increment(counters[here], RunsOut(here))
    <2>1. /\ counters' = [counters EXCEPT ![here] = row]
          /\ asked' = [asked EXCEPT ![here] = Limiter!UpTo(rules.perIp.max + 1, @ + 1)]
          /\ Limiter!To(t, IF row.count = 1 THEN "rehydrate"
                           ELSE IF row.count > rules.perIp.max THEN "tripIp" ELSE "isBlocked")
          /\ ~Limiter!Is(t, "idle")
        BY <1>4 DEF Limiter!CheckIncrement, RunsOut, Limiter!Is
    <2>2. PICK b : b = here OBVIOUS
    <2>3. b \in Limiter!Buckets BY <2>2, InWindow
    <2>4. /\ asked[b] \in Nat /\ counters[b].count \in Nat /\ counters[b] \in Limiter!Counter
          /\ rules.perIp.max \in Nat
        BY <2>3, CountersTyped, RulesTyped DEF LimiterTyped
    <2>5. row.count = 1 \/ row.count = counters[b].count + 1
        <3>1. RunsOut(b) \in Nat BY <2>3, RunsOutTyped DEF LimiterTyped
        <3>2. Limiter!Increment(counters[b], RunsOut(b)).count \in {1, counters[b].count + 1}
            BY <2>4, <3>1, IncrementTyped DEF LimiterTyped
        <3>3. QED BY <2>2, <3>2
    <2> HIDE DEF row
    <2>6. /\ counters'[b] = row /\ asked'[b] = Limiter!UpTo(rules.perIp.max + 1, asked[b] + 1)
          /\ \A c \in Limiter!Buckets \ {b} : counters'[c] = counters[c] /\ asked'[c] = asked[c]
        BY <2>1, <2>2, <2>3 DEF LimiterTyped, Limiter!LimiterTypeOK
    <2>7. /\ asked'[b] = asked[b] + 1 \/ asked'[b] > rules.perIp.max
          /\ asked[b] > rules.perIp.max => asked'[b] > rules.perIp.max
        BY <2>4, <2>6 DEF Limiter!UpTo
    <2>8. row.count <= asked'[b] \/ asked'[b] > rules.perIp.max
        BY <2>3, <2>4, <2>5, <2>7 DEF WindowCauses
    <2>9. login'[t].at = login[t].at /\ Limiter!Bucket(login[t].at)' = b
        <3>1. \A phase \in Limiter!Phases : Limiter!To(t, phase) => login'[t].at = login[t].at
            BY <2>1, HandlerTo DEF LimiterTyped
        <3>2. login'[t].at = login[t].at BY <2>1, <3>1 DEF Limiter!Phases
        <3>3. QED BY <1>2, <2>2, <3>2 DEF Limiter!Bucket
    <2>10. Limiter!Is(t, "tripIp")' => row.count > rules.perIp.max
        <3>1. \A phase \in Limiter!Phases : Limiter!To(t, phase) => login'[t].phase = phase
            BY <2>1, HandlerTo DEF LimiterTyped
        <3>2. QED BY <2>1, <3>1 DEF Limiter!Phases, Limiter!Is
    <2>11. Limiter!Is(t, "tripIp")' => asked'[b] > rules.perIp.max
        <3>1. row.count \in Nat /\ asked'[b] \in Nat BY <2>4, <2>5, <2>6 DEF Limiter!UpTo
        <3>2. QED BY <2>4, <2>8, <2>10, <3>1
    <2>12. \A c \in Limiter!Buckets : asked[c] > rules.perIp.max => asked'[c] > rules.perIp.max
        BY <2>6, <2>7
    <2>13. \A s \in Handlers : Limiter!Is(s, "tripIp")' =>
               asked'[Limiter!Bucket(login[s].at)'] > rules.perIp.max
        <3> SUFFICES ASSUME NEW s \in Handlers, Limiter!Is(s, "tripIp")', s # t
                     PROVE  asked'[Limiter!Bucket(login[s].at)'] > rules.perIp.max
            BY <2>9, <2>11
        <3>1. Limiter!Is(s, "tripIp") /\ Limiter!Bucket(login[s].at)' = Limiter!Bucket(login[s].at)
            BY <1>2 DEF Limiter!Is, Limiter!Bucket
        <3>2. asked[Limiter!Bucket(login[s].at)] > rules.perIp.max BY <3>1 DEF WindowCauses
        <3>3. Limiter!Bucket(login[s].at) \in Limiter!Buckets BY InWindow
        <3>4. QED BY <2>12, <3>1, <3>2, <3>3
    <2>14. \A c \in Limiter!Buckets : counters'[c].count <= asked'[c] \/ asked'[c] > rules.perIp.max
        BY <2>6, <2>8 DEF WindowCauses
    <2>15. QED BY <1>2, <2>12, <2>13, <2>14 DEF WindowCauses
<1> QED BY <1>3, <1>4

LEMMA ElsewhereAsks ==
    ASSUME LimiterTyped, WindowCauses, Elsewhere
    PROVE  WindowCauses'
<1>1. /\ rules' = rules /\ login' = login /\ asked' = asked
      /\ \A c \in Limiter!Buckets : counters'[c] = counters[c] \/ counters'[c] = Limiter!NoCounter
    BY DEF Elsewhere, Limiter!Tick, Limiter!SweepCounters, Limiter!SweepBlock, Limiter!PushedOut,
           Limiter!history, LimiterTyped, Limiter!LimiterTypeOK
<1>2. \A c \in Limiter!Buckets : asked[c] \in Nat /\ Limiter!NoCounter.count = 0
    BY CountersTyped DEF Limiter!NoCounter
<1>3. \A c \in Limiter!Buckets : counters'[c].count <= asked'[c] \/ asked'[c] > rules.perIp.max
    BY <1>1, <1>2 DEF WindowCauses
<1>4. Limiter!Buckets' = Limiter!Buckets BY DEF Limiter!Buckets
<1> QED BY <1>1, <1>3, <1>4 DEF WindowCauses, Limiter!Is, Limiter!Bucket

(* Causes: of a run of failures *)

\* Who has failed, and is not counted yet.
Pending == {t \in Handlers : Limiter!Is(t, "failure")}

\* The history counts along with the failures, counted and to be counted, up to the cap.
LoginCauses ==
    /\ guessed >= rules.login.max \/ failures.count + Cardinality(Pending) <= guessed
    /\ \A t \in Handlers : Limiter!Is(t, "tripLogin") => guessed >= rules.login.max

\* Only a failure leads to the counter, and only counting it to a block of the account.
LEMMA BesidesFailures ==
    ASSUME LimiterTyped, NEW t \in Handlers, Limiter!LimiterStep(t),
           ~Limiter!WrongPassword(t), ~Limiter!RecordFailure(t)
    PROVE  /\ guessed' = guessed
           /\ login'[t].phase \notin {"failure", "tripLogin"}
           /\ \/ UNCHANGED <<failures, streak>>
              \/ Limiter!Is(t, "clearCounter") /\ failures' = Limiter!NoCounter /\ streak' = 0
           /\ login'[t].phase = "clearCounter" => wins' > 0
           /\ wins' >= wins
<1> USE DEF Limiter!Is
<1>w. wins \in Nat /\ wins' \in Nat
    <2>1. MaxWins \in Nat BY PlatformAssumption DEF Limiter!RateLimitAssumption
    <2>2. wins \in 0..MaxWins /\ wins' \in 0..MaxWins
        BY StepKeepsTypes DEF StepTyped, LimiterTyped, Limiter!LimiterTypeOK
    <2>3. QED BY <2>1, <2>2
<1>1. CASE \E n \in Nodes : Limiter!Arrive(t, n)
    <2>1. PICK n \in Nodes : Limiter!Arrive(t, n) BY <1>1
    <2>2. login' = login \/ login'[t].phase = IF Limiter!Disabled("perIp") THEN "isBlocked" ELSE "increment"
        BY <2>1 DEF Limiter!Arrive, LimiterTyped, Limiter!LimiterTypeOK
    <2>3. login[t].phase = "idle" /\ UNCHANGED <<guessed, failures, streak, wins>>
        BY <2>1 DEF Limiter!Arrive, Limiter!history
    <2>4. QED BY <1>w, <2>2, <2>3
<1>2. CASE ~\E n \in Nodes : Limiter!Arrive(t, n)
    <2>1. /\ ~Limiter!Is(t, "idle")
          /\ \/ Limiter!Ends(t)
             \/ \E phase \in Limiter!Phases \ {"failure", "tripLogin", "clearCounter"} : Limiter!To(t, phase)
             \/ Limiter!To(t, "clearCounter") /\ wins' = wins + 1
        BY <1>2
           DEF Limiter!LimiterStep, Limiter!CheckIncrement, Limiter!Rehydrate, Limiter!TripBlock,
              Limiter!Trip,
               Limiter!UnknownAccount, Limiter!IsBlocked, Limiter!ReadBlock, Limiter!CodePending,
               Limiter!RightPassword, Limiter!ClearCounter, Limiter!ClearBlock, Limiter!StoreFails,
               Limiter!Phases
    <2>2. /\ guessed' = guessed /\ (wins' = wins \/ wins' = wins + 1)
          /\ \/ UNCHANGED <<failures, streak>>
             \/ Limiter!Is(t, "clearCounter") /\ failures' = Limiter!NoCounter /\ streak' = 0
        BY <1>2
           DEF Limiter!LimiterStep, Limiter!CheckIncrement, Limiter!Rehydrate, Limiter!TripBlock,
              Limiter!Trip,
               Limiter!UnknownAccount, Limiter!IsBlocked, Limiter!ReadBlock, Limiter!CodePending,
               Limiter!RightPassword, Limiter!ClearCounter, Limiter!ClearBlock, Limiter!StoreFails,
               Limiter!history
    <2>3. \/ login'[t].phase \notin {"failure", "tripLogin", "clearCounter"}
          \/ login'[t].phase = "clearCounter" /\ wins' = wins + 1
        <3>1. CASE Limiter!Ends(t) BY <3>1, HandlerEnds, IdleTyped DEF LimiterTyped
        <3>2. CASE \E phase \in Limiter!Phases \ {"failure", "tripLogin", "clearCounter"} : Limiter!To(t, phase)
            BY <2>1, <3>2, HandlerTo DEF LimiterTyped
        <3>3. CASE Limiter!To(t, "clearCounter") /\ wins' = wins + 1
            BY <2>1, <3>3, HandlerTo DEF LimiterTyped, Limiter!Phases
        <3>4. QED BY <2>1, <3>1, <3>2, <3>3
    <2>4. QED BY <1>w, <2>2, <2>3
<1> QED BY <1>1, <1>2

\* Counting a failure.
LEMMA FailureIsCounted ==
    ASSUME LimiterTyped, NEW t \in Handlers, Limiter!RecordFailure(t)
    PROVE  /\ Limiter!Is(t, "failure") /\ failures.count \in Nat /\ failures.ttl \in Nat
           /\ failures'.count = IF backend = "postgres" /\ failures.ttl <= now THEN 1 ELSE failures.count + 1
           /\ failures'.ttl = login[t].at + rules.login.window + Grace
           /\ failures'.count \in Nat
           /\ streak' = IF failures.ttl <= now THEN 1 ELSE Limiter!UpTo(rules.login.max, streak + 1)
           /\ IF failures'.count >= rules.login.max
              THEN login'[t].phase = "tripLogin" /\ login'[t].at = login[t].at
              ELSE login'[t] = Limiter!Idle
           /\ UNCHANGED <<backend, traffic, rules, now, blocks, cache, asked, guessed, wins>>
<1> DEFINE ttl == login[t].at + rules.login.window + Grace
<1>1. ttl \in Nat BY HandlerInTime, RulesTyped, LimiterFacts DEF LimiterTyped
<1>2. failures \in Limiter!Counter BY DEF LimiterTyped, Limiter!LimiterTypeOK
<1>3. /\ failures' = Limiter!Increment(failures, ttl) /\ Limiter!Is(t, "failure")
      /\ streak' = IF failures.ttl <= now THEN 1 ELSE Limiter!UpTo(rules.login.max, streak + 1)
      /\ IF failures'.count >= rules.login.max THEN Limiter!To(t, "tripLogin") ELSE Limiter!Ends(t)
      /\ UNCHANGED <<backend, traffic, rules, now, blocks, cache, asked, guessed, wins>>
    BY DEF Limiter!RecordFailure
<1> HIDE DEF ttl
<1>4. /\ failures' \in Limiter!Counter /\ failures'.ttl = ttl
      /\ failures'.count = IF backend = "postgres" /\ failures.ttl <= now THEN 1 ELSE failures.count + 1
    BY <1>1, <1>2, <1>3, IncrementTyped DEF LimiterTyped
<1>5. IF failures'.count >= rules.login.max
      THEN login'[t].phase = "tripLogin" /\ login'[t].at = login[t].at
      ELSE login'[t] = Limiter!Idle
    BY <1>3, HandlerEnds, HandlerTo DEF LimiterTyped, Limiter!Is, Limiter!Phases
<1> QED BY <1>2, <1>3, <1>4, <1>5 DEF Limiter!Counter, ttl

\* A wrong password.
LEMMA PasswordIsWrong ==
    ASSUME LimiterTyped, NEW t \in Handlers, Limiter!WrongPassword(t)
    PROVE  /\ Limiter!Is(t, "verify") /\ guessed \in Nat /\ guessed' \in Nat
           /\ \/ guessed' = guessed /\ login'[t] = Limiter!Idle /\ rules.login.max = 0
              \/ /\ guessed' = guessed + 1 \/ (guessed' = MaxGuesses /\ guessed' <= guessed + 1)
                 /\ login'[t].phase = "failure" /\ login'[t].at = login[t].at /\ rules.login.max # 0
           /\ UNCHANGED <<backend, traffic, rules, now, failures, blocks, cache, asked, streak, wins>>
<1>1. /\ Limiter!Is(t, "verify") /\ guessed \in Nat /\ MaxGuesses \in Nat
      /\ UNCHANGED <<backend, traffic, rules, now, failures, blocks, cache, asked, streak, wins>>
    BY LimiterFacts DEF Limiter!WrongPassword, LimiterTyped, Limiter!LimiterTypeOK
<1>2. \/ guessed' = guessed /\ Limiter!Ends(t) /\ rules.login.max = 0
      \/ guessed' = Limiter!UpTo(MaxGuesses, guessed + 1) /\ Limiter!To(t, "failure") /\ rules.login.max # 0
    BY RulesTyped DEF Limiter!WrongPassword, Limiter!Disabled, LimiterTyped
<1>3. Limiter!UpTo(MaxGuesses, guessed + 1) = guessed + 1
      \/ (Limiter!UpTo(MaxGuesses, guessed + 1) = MaxGuesses /\ MaxGuesses <= guessed + 1)
    BY <1>1 DEF Limiter!UpTo
<1>4. Limiter!Ends(t) => login'[t] = Limiter!Idle BY HandlerEnds DEF LimiterTyped
<1>5. Limiter!To(t, "failure") => login'[t].phase = "failure" /\ login'[t].at = login[t].at
    BY <1>1, HandlerTo DEF LimiterTyped, Limiter!Is, Limiter!Phases
<1> QED BY <1>1, <1>2, <1>3, <1>4, <1>5

LEMMA PendingFinite == IsFiniteSet(Pending) /\ Cardinality(Pending) \in Nat
BY LimiterFacts, FS_Subset, FS_CardinalityType DEF Pending

LEMMA StepCauses ==
    ASSUME LimiterTyped, LoginCauses, NEW t \in Handlers, Limiter!LimiterStep(t)
    PROVE  LoginCauses' /\ (guessed >= rules.login.max => guessed' >= rules.login.max)
<1>1. StepTyped(t) BY StepKeepsTypes
<1>2. /\ rules' = rules /\ rules.login.max \in Nat /\ rules.login.max <= MaxGuesses /\ MaxGuesses \in Nat
      /\ guessed \in Nat /\ failures.count \in Nat /\ guessed' \in Nat
      /\ \A s \in Handlers \ {t} : login'[s] = login[s]
      /\ IsFiniteSet(Pending) /\ Cardinality(Pending) \in Nat
    BY <1>1, RulesTyped, LimiterFacts, PendingFinite
       DEF StepTyped, Steps, LimiterTyped, Limiter!LimiterTypeOK, Limiter!Counter
<1>3. CASE ~Limiter!WrongPassword(t) /\ ~Limiter!RecordFailure(t)
    <2>1. /\ guessed' = guessed /\ login'[t].phase \notin {"failure", "tripLogin"}
          /\ failures' = failures \/ failures' = Limiter!NoCounter
        BY <1>3, BesidesFailures
    <2>2. Pending' \subseteq Pending BY <1>2, <2>1 DEF Pending, Limiter!Is
    <2>3. Cardinality(Pending') <= Cardinality(Pending) /\ Cardinality(Pending') \in Nat
        BY <1>2, <2>2, FS_Subset, FS_CardinalityType
    <2>4. failures'.count \in Nat /\ failures'.count <= failures.count
        BY <1>2, <2>1 DEF Limiter!NoCounter
    <2>5. \A s \in Handlers : Limiter!Is(s, "tripLogin")' => Limiter!Is(s, "tripLogin")
        BY <1>2, <2>1 DEF Limiter!Is
    <2>6. guessed' >= rules.login.max \/ failures'.count + Cardinality(Pending') <= guessed'
        BY <1>2, <2>1, <2>3, <2>4 DEF LoginCauses
    <2>7. QED BY <1>2, <2>1, <2>5, <2>6 DEF LoginCauses
<1>4. CASE Limiter!WrongPassword(t)
    <2>1. CASE login'[t] = Limiter!Idle /\ guessed' = guessed
        <3>1. failures' = failures /\ ~Limiter!Is(t, "failure")
            BY <1>4, PasswordIsWrong DEF Limiter!Is
        <3>2. login'[t].phase = "idle" BY <2>1 DEF Limiter!Idle
        <3>3. Pending' = Pending BY <1>2, <3>1, <3>2 DEF Pending, Limiter!Is
        <3>4. \A s \in Handlers : Limiter!Is(s, "tripLogin")' => Limiter!Is(s, "tripLogin")
            BY <1>2, <3>2 DEF Limiter!Is
        <3>5. QED BY <1>2, <2>1, <3>1, <3>3, <3>4 DEF LoginCauses
    <2>2. CASE /\ guessed' = guessed + 1 \/ (guessed' = MaxGuesses /\ guessed' <= guessed + 1)
               /\ login'[t].phase = "failure"
        <3>1. failures' = failures /\ ~Limiter!Is(t, "failure")
            BY <1>4, PasswordIsWrong DEF Limiter!Is
        <3>2. Pending' = Pending \cup {t} /\ t \notin Pending
            BY <1>2, <2>2, <3>1 DEF Pending, Limiter!Is
        <3>3. Cardinality(Pending') = Cardinality(Pending) + 1 BY <1>2, <3>2, FS_AddElement
        <3>4. \A s \in Handlers : Limiter!Is(s, "tripLogin")' => Limiter!Is(s, "tripLogin")
            BY <1>2, <2>2 DEF Limiter!Is
        <3>5. guessed' >= rules.login.max \/ (guessed' = guessed + 1 /\ failures.count + Cardinality(Pending) <= guessed)
            BY <1>2, <2>2 DEF LoginCauses
        <3>6. guessed >= rules.login.max => guessed' >= rules.login.max BY <1>2, <2>2
        <3>7. guessed' >= rules.login.max \/ failures'.count + Cardinality(Pending') <= guessed'
            BY <1>2, <3>1, <3>3, <3>5
        <3>8. QED BY <1>2, <3>4, <3>6, <3>7 DEF LoginCauses
    <2>3. QED BY <1>4, <2>1, <2>2, PasswordIsWrong
<1>5. CASE Limiter!RecordFailure(t)
    <2>1. /\ Limiter!Is(t, "failure") /\ guessed' = guessed
          /\ failures'.count \in Nat
          /\ failures'.count = 1 \/ failures'.count = failures.count + 1
          /\ IF failures'.count >= rules.login.max THEN login'[t].phase = "tripLogin"
                                                   ELSE login'[t] = Limiter!Idle
        BY <1>5, FailureIsCounted
    <2>2. login'[t].phase # "failure" BY <2>1 DEF Limiter!Idle
    <2>3. Pending' = Pending \ {t} /\ t \in Pending BY <1>2, <2>1, <2>2 DEF Pending, Limiter!Is
    <2>4. Cardinality(Pending') = Cardinality(Pending) - 1 /\ Cardinality(Pending') \in Nat
        BY <1>2, <2>3, FS_RemoveElement, FS_CardinalityType
    <2>5. guessed' >= rules.login.max \/ failures'.count + Cardinality(Pending') <= guessed'
        BY <1>2, <2>1, <2>4 DEF LoginCauses
    <2>6. Limiter!Is(t, "tripLogin")' => guessed' >= rules.login.max
        <3>1. Limiter!Is(t, "tripLogin")' => failures'.count >= rules.login.max
            BY <2>1 DEF Limiter!Is, Limiter!Idle
        <3>2. QED BY <1>2, <2>1, <2>4, <2>5, <3>1
    <2>7. \A s \in Handlers \ {t} : Limiter!Is(s, "tripLogin")' => Limiter!Is(s, "tripLogin")
        BY <1>2 DEF Limiter!Is
    <2>8. QED BY <1>2, <2>1, <2>5, <2>6, <2>7 DEF LoginCauses
<1> QED BY <1>3, <1>4, <1>5

LEMMA ElsewhereCauses ==
    ASSUME LimiterTyped, LoginCauses, Elsewhere
    PROVE  LoginCauses' /\ guessed' = guessed
<1>1. /\ rules' = rules /\ login' = login /\ guessed' = guessed
      /\ failures' = failures \/ failures' = Limiter!NoCounter
    BY DEF Elsewhere, Limiter!Tick, Limiter!SweepCounters, Limiter!SweepBlock, Limiter!PushedOut,
           Limiter!history
<1>2. Pending' = Pending BY <1>1 DEF Pending, Limiter!Is
<1>3. /\ guessed \in Nat /\ failures.count \in Nat /\ rules.login.max \in Nat /\ Cardinality(Pending) \in Nat
    BY PendingFinite, RulesTyped DEF LimiterTyped, Limiter!LimiterTypeOK, Limiter!Counter
<1>4. failures'.count \in Nat /\ failures'.count <= failures.count BY <1>1, <1>3 DEF Limiter!NoCounter
<1>5. guessed' >= rules.login.max \/ failures'.count + Cardinality(Pending') <= guessed'
    BY <1>1, <1>2, <1>3, <1>4 DEF LoginCauses
<1> QED BY <1>1, <1>5 DEF LoginCauses, Limiter!Is

\* What stands behind a block of that end.
Caused(p, until) ==
    until # 0 =>
        /\ until <= now + rules[p].block
        /\ p = "perIp" => \E b \in Limiter!Buckets : asked[b] > rules.perIp.max
        /\ p = "login" => guessed >= rules.login.max

\* Behind what may still be read of a row, and what the nodes remember.
BlocksCaused ==
    \A p \in Limiter!Policies :
        /\ Caused(p, blocks[p].until) /\ Caused(p, blocks[p].older)
        /\ \A n \in Nodes : Caused(p, cache[n][p])

\* Time does not take a cause away.
LEMMA CauseStays ==
    ASSUME LimiterTyped, NEW p \in Limiter!Policies, NEW until \in Nat, Caused(p, until),
           rules' = rules, now' \in Nat, now' >= now,
           \A b \in Limiter!Buckets : asked[b] > rules.perIp.max => asked'[b] > rules.perIp.max,
           guessed >= rules.login.max => guessed' >= rules.login.max
    PROVE  Caused(p, until)'
<1>1. rules[p].block \in Nat /\ now \in Nat
    BY RulesTyped, HandlerInTime DEF LimiterTyped, Limiter!LimiterTypeOK
<1>2. until <= now + rules[p].block => until <= now' + rules'[p].block BY <1>1
<1>3. Limiter!Buckets' = Limiter!Buckets BY DEF Limiter!Buckets
<1> QED BY <1>2, <1>3 DEF Caused

LEMMA RowsTyped ==
    ASSUME LimiterTyped, NEW p \in Limiter!Policies
    PROVE  /\ blocks[p].until \in Nat /\ blocks[p].older \in Nat /\ blocks[p].ttl \in Nat
           /\ \A n \in Nodes : cache[n][p] \in Nat
BY DEF LimiterTyped, Limiter!LimiterTypeOK, Limiter!BlockRow

\* The rows and caches of a step, from those before it.
LEMMA BlocksStayCaused ==
    ASSUME LimiterTyped, BlocksCaused, rules' = rules, now' \in Nat, now' >= now,
           \A b \in Limiter!Buckets : asked[b] > rules.perIp.max => asked'[b] > rules.perIp.max,
           guessed >= rules.login.max => guessed' >= rules.login.max,
           \A p \in Limiter!Policies :
               /\ \/ blocks'[p] = blocks[p]
                  \/ blocks'[p].until = 0 /\ blocks'[p].older \in {0, blocks[p].until}
               /\ \A n \in Nodes : cache'[n][p] \in {0, cache[n][p], blocks[p].until, blocks[p].older}
    PROVE  BlocksCaused'
<1> SUFFICES ASSUME NEW p \in Limiter!Policies
             PROVE  /\ Caused(p, blocks[p].until)' /\ Caused(p, blocks[p].older)'
                    /\ \A n \in Nodes : Caused(p, cache[n][p])'
    BY DEF BlocksCaused
<1>1. \A until \in Nat : Caused(p, until) => Caused(p, until)' BY CauseStays
<1>2. \A until \in {0, blocks[p].until, blocks[p].older} \cup {cache[n][p] : n \in Nodes} :
          until \in Nat /\ Caused(p, until)
    BY RowsTyped DEF BlocksCaused, Caused
<1>3. \A until \in {0, blocks[p].until, blocks[p].older} \cup {cache[n][p] : n \in Nodes} : Caused(p, until)'
    BY <1>1, <1>2
<1>4. /\ blocks'[p].until \in {0, blocks[p].until} /\ blocks'[p].older \in {0, blocks[p].until, blocks[p].older}
      /\ \A n \in Nodes : cache'[n][p] \in {0, blocks[p].until, blocks[p].older} \cup {cache[m][p] : m \in Nodes}
    OBVIOUS
<1>5. \A until : Caused(p, until)' <=>
          (until # 0 =>
              /\ until <= now' + rules'[p].block
              /\ p = "perIp" => \E b \in Limiter!Buckets' : asked'[b] > rules'.perIp.max
              /\ p = "login" => guessed' >= rules'.login.max)
    BY DEF Caused
<1> QED BY <1>3, <1>4, <1>5 DEF Caused

\* What the blocks and caches become: less, or what was read of a row.
LessOrRead ==
    \A p \in Limiter!Policies :
        /\ \/ blocks'[p] = blocks[p]
           \/ blocks'[p].until = 0 /\ blocks'[p].older \in {0, blocks[p].until}
        /\ \A n \in Nodes : cache'[n][p] \in {0, cache[n][p], blocks[p].until, blocks[p].older}

LEMMA ForgetsOrRemembers ==
    ASSUME LimiterTyped, NEW m, NEW q, NEW until,
           Limiter!Forget(m, q) \/ Limiter!Remember(m, q, until)
    PROVE  \A p \in Limiter!Policies, n \in Nodes :
               cache'[n][p] \in {0, cache[n][p]} \/ (p = q /\ cache'[n][p] = until)
BY DEF LimiterTyped, Limiter!LimiterTypeOK, Limiter!Forget, Limiter!Remember

LEMMA OnlyTripsBlock ==
    ASSUME LimiterTyped, NEW t \in Handlers, Limiter!LimiterStep(t), ~Limiter!TripBlock(t)
    PROVE  LessOrRead
<1> DEFINE read(p) == {0, blocks[p].until, blocks[p].older}
<1>1. \/ UNCHANGED cache
      \/ \E n, p : Limiter!Forget(n, p)
      \/ \E n : \E p \in Limiter!Policies : \E until \in read(p) : Limiter!Remember(n, p, until)
    <2>1. CASE Limiter!Rehydrate(t) \/ Limiter!ReadBlock(t)
        <3>1. \A p \in Limiter!Policies : \A until \in Limiter!GetBlock(p) : until \in read(p)
            BY GetBlockTyped DEF LimiterTyped
        <3>2. PICK p \in Limiter!Policies : \E until \in Limiter!GetBlock(p) :
                  UNCHANGED cache \/ Limiter!Remember(login[t].node, p, until)
            BY <2>1 DEF Limiter!Rehydrate, Limiter!ReadBlock, Limiter!Policies
        <3>3. PICK until \in Limiter!GetBlock(p) : UNCHANGED cache \/ Limiter!Remember(login[t].node, p, until)
            BY <3>2
        <3>4. until \in read(p) BY <3>1, <3>3
        <3> HIDE DEF read
        <3>5. PICK n : n = login[t].node OBVIOUS
        <3>6. UNCHANGED cache \/ Limiter!Remember(n, p, until) BY <3>3, <3>5
        <3>7. QED BY <3>4, <3>6
    <2>2. CASE ~(Limiter!Rehydrate(t) \/ Limiter!ReadBlock(t))
        <3>1. PICK m : m = login[t].node OBVIOUS
        <3>2. CASE \E n \in Nodes : Limiter!Arrive(t, n)
            <4>1. PICK n \in Nodes : Limiter!Arrive(t, n) BY <3>2
            <4>2. UNCHANGED cache \/ Limiter!Forget(n, "perIp") BY <4>1 DEF Limiter!Arrive
            <4>3. QED BY <4>2
        <3>3. CASE Limiter!IsBlocked(t) \/ Limiter!ClearBlock(t)
            <4>1. UNCHANGED cache \/ Limiter!Forget(m, "login")
                BY <3>1, <3>3 DEF Limiter!IsBlocked, Limiter!ClearBlock
            <4>2. QED BY <4>1
        <3>4. CASE ~((\E n \in Nodes : Limiter!Arrive(t, n)) \/ Limiter!IsBlocked(t) \/ Limiter!ClearBlock(t))
            BY <2>2, <3>4
               DEF Limiter!LimiterStep, Limiter!CheckIncrement, Limiter!UnknownAccount,
                   Limiter!WrongPassword, Limiter!CodePending, Limiter!RightPassword,
                   Limiter!RecordFailure, Limiter!ClearCounter, Limiter!StoreFails
        <3>5. QED BY <3>2, <3>3, <3>4
    <2>3. QED BY <2>1, <2>2
<1>2. \A p \in Limiter!Policies, n \in Nodes : cache'[n][p] \in {0, cache[n][p], blocks[p].until, blocks[p].older}
    <2>1. CASE UNCHANGED cache BY <2>1
    <2>2. CASE \E n, p : Limiter!Forget(n, p)
        <3>1. PICK n, p : Limiter!Forget(n, p) BY <2>2
        <3>2. \A q \in Limiter!Policies, m \in Nodes : cache'[m][q] \in {0, cache[m][q]}
            BY <3>1 DEF LimiterTyped, Limiter!LimiterTypeOK, Limiter!Forget
        <3>3. QED BY <3>2
    <2>3. CASE \E n : \E p \in Limiter!Policies : \E until \in read(p) : Limiter!Remember(n, p, until)
        <3>1. PICK n, p : p \in Limiter!Policies /\ \E until \in read(p) : Limiter!Remember(n, p, until) BY <2>3
        <3>2. PICK until \in read(p) : Limiter!Remember(n, p, until) BY <3>1
        <3>3. \A q \in Limiter!Policies, m \in Nodes :
                  cache'[m][q] \in {0, cache[m][q]} \/ (q = p /\ cache'[m][q] = until)
            BY <3>2, ForgetsOrRemembers
        <3>4. QED BY <3>2, <3>3
    <2>4. QED BY <1>1, <2>1, <2>2, <2>3
<1>3. \A p \in Limiter!Policies :
          \/ blocks'[p] = blocks[p]
          \/ blocks'[p].until = 0 /\ blocks'[p].older \in {0, blocks[p].until}
    <2>1. \/ UNCHANGED blocks
          \/ Limiter!ClearRow("login")
        <3>1. CASE Limiter!ClearBlock(t) BY <3>1 DEF Limiter!ClearBlock
        <3>2. CASE \E n \in Nodes : Limiter!Arrive(t, n) BY <3>2 DEF Limiter!Arrive
        <3>3. CASE ~Limiter!ClearBlock(t) /\ ~\E n \in Nodes : Limiter!Arrive(t, n)
            BY <3>3
               DEF Limiter!LimiterStep, Limiter!CheckIncrement, Limiter!UnknownAccount,
                   Limiter!Rehydrate, Limiter!ReadBlock, Limiter!IsBlocked, Limiter!WrongPassword,
                   Limiter!CodePending, Limiter!RightPassword, Limiter!RecordFailure,
                   Limiter!ClearCounter, Limiter!StoreFails
        <3>4. QED BY <3>1, <3>2, <3>3
    <2>2. TablesTyped BY TypeOfTables DEF LimiterTyped
    <2>3. ASSUME Limiter!ClearRow("login")
          PROVE  /\ blocks'["login"].until = 0 /\ blocks'["login"].older = blocks["login"].until
                 /\ \A p \in Limiter!Policies \ {"login"} : blocks'[p] = blocks[p]
        BY <2>2, <2>3 DEF Limiter!ClearRow, TablesTyped, Limiter!BlockRow, Limiter!Policies
    <2>4. QED BY <2>1, <2>3
<1> QED BY <1>2, <1>3 DEF LessOrRead

LEMMA TripIsCaused ==
    ASSUME LimiterTyped, BlocksCaused, WindowCauses, LoginCauses, NEW t \in Handlers,
           Limiter!TripBlock(t)
    PROVE  BlocksCaused'
<1>1. PICK p \in Limiter!Policies :
          /\ Limiter!Trip(t, p) /\ ~Limiter!Is(t, "idle")
          /\ p = "perIp" => Limiter!Is(t, "tripIp")
          /\ p = "login" => Limiter!Is(t, "tripLogin")
    BY DEF Limiter!TripBlock, Limiter!Policies, Limiter!Is
<1>2. PICK until : until = login[t].at + rules[p].block OBVIOUS
<1>3. /\ rules[p].block \in Nat /\ until \in Nat /\ until <= now + rules[p].block
    BY <1>1, <1>2, HandlerInTime, RulesTyped DEF LimiterTyped
<1>4. /\ UNCHANGED <<rules, now, asked, guessed>>
      /\ Limiter!SetBlock(p, until) \/ UNCHANGED blocks
      /\ Limiter!Remember(login[t].node, p, until)
    BY <1>1, <1>2 DEF Limiter!Trip, Limiter!history
<1>5. Caused(p, until)
    <2>1. p = "perIp" => \E b \in Limiter!Buckets : asked[b] > rules.perIp.max
        BY <1>1, InWindow DEF WindowCauses
    <2>2. p = "login" => guessed >= rules.login.max BY <1>1 DEF LoginCauses
    <2>3. QED BY <1>3, <2>1, <2>2 DEF Caused
<1>6. \A q \in Limiter!Policies : \A u \in Nat : Caused(q, u)' <=> Caused(q, u)
    BY <1>4 DEF Caused, Limiter!Buckets
<1>7. \A q \in Limiter!Policies :
          /\ blocks[q].until \in Nat /\ blocks[q].older \in Nat /\ \A n \in Nodes : cache[n][q] \in Nat
          /\ Caused(q, blocks[q].until) /\ Caused(q, blocks[q].older) /\ \A n \in Nodes : Caused(q, cache[n][q])
          /\ Caused(q, 0)
    BY RowsTyped DEF BlocksCaused, Caused
<1>8. \A q \in Limiter!Policies :
          /\ blocks'[q].until = blocks[q].until \/ (q = p /\ blocks'[q].until = until)
          /\ blocks'[q].older \in {blocks[q].older, blocks[q].until}
    <2>1. TablesTyped BY TypeOfTables DEF LimiterTyped
    <2>2. ASSUME Limiter!SetBlock(p, until)
          PROVE  /\ blocks'[p].until = until /\ blocks'[p].older = blocks[p].until
                 /\ \A q \in Limiter!Policies \ {p} : blocks'[q] = blocks[q]
        BY <1>3, <2>1, <2>2 DEF Limiter!SetBlock, TablesTyped, Limiter!BlockRow
    <2>3. QED BY <1>4, <2>2
<1>9. PICK m : m = login[t].node OBVIOUS
<1>10. \A q \in Limiter!Policies, n \in Nodes :
           cache'[n][q] \in {0, cache[n][q]} \/ (q = p /\ cache'[n][q] = until)
    BY <1>4, <1>9, ForgetsOrRemembers
<1>11. ASSUME NEW q \in Limiter!Policies, NEW u, NEW v \in Nat, u = v, Caused(q, v)
       PROVE  Caused(q, v)' BY <1>6, <1>11
<1>12. \A q, u : Caused(q, u)' <=>
          (u # 0 =>
              /\ u <= now + rules[q].block
              /\ q = "perIp" => \E b \in Limiter!Buckets : asked[b] > rules.perIp.max
              /\ q = "login" => guessed >= rules.login.max)
    BY <1>4 DEF Caused, Limiter!Buckets
<1>13. \A q \in Limiter!Policies :
          /\ blocks'[q].until \in Nat /\ Caused(q, blocks'[q].until)
          /\ blocks'[q].older \in Nat /\ Caused(q, blocks'[q].older)
          /\ \A n \in Nodes : cache'[n][q] \in Nat /\ Caused(q, cache'[n][q])
    BY <1>3, <1>5, <1>7, <1>8, <1>10
<1>14. \A q \in Limiter!Policies :
          /\ Caused(q, blocks[q].until)' /\ Caused(q, blocks[q].older)'
          /\ \A n \in Nodes : Caused(q, cache[n][q])'
    BY <1>4, <1>13 DEF Caused, Limiter!Buckets
<1> QED BY <1>14 DEF BlocksCaused, Limiter!Policies

LEMMA StepBlocksCaused ==
    ASSUME LimiterTyped, BlocksCaused, WindowCauses, LoginCauses, NEW t \in Handlers,
           Limiter!LimiterStep(t)
    PROVE  BlocksCaused'
<1>1. CASE Limiter!TripBlock(t) BY <1>1, TripIsCaused
<1>2. CASE ~Limiter!TripBlock(t)
    <2>1. StepTyped(t) BY StepKeepsTypes
    <2>2. rules' = rules /\ now' = now /\ now \in Nat
        BY <2>1, HandlerInTime DEF StepTyped
    <2>3. \A b \in Limiter!Buckets : asked[b] > rules.perIp.max => asked'[b] > rules.perIp.max
        BY StepAsks
    <2>4. guessed >= rules.login.max => guessed' >= rules.login.max BY StepCauses
    <2>5. LessOrRead BY <1>2, OnlyTripsBlock
    <2>6. QED BY <2>2, <2>3, <2>4, <2>5, BlocksStayCaused DEF LessOrRead
<1> QED BY <1>1, <1>2

LEMMA ElsewhereBlocksCaused ==
    ASSUME LimiterTyped, BlocksCaused, LoginCauses, Elsewhere
    PROVE  BlocksCaused'
<1>1. rules' = rules /\ asked' = asked /\ now \in Nat /\ (now' = now \/ now' = now + 1)
    BY DEF Elsewhere, Limiter!Tick, Limiter!SweepCounters, Limiter!SweepBlock, Limiter!PushedOut,
           Limiter!history, LimiterTyped, Limiter!LimiterTypeOK
<1>2. guessed' = guessed BY ElsewhereCauses
<1>3. \A p \in Limiter!Policies : blocks'[p] = blocks[p] \/ blocks'[p] = Limiter!NoBlock
    BY DEF Elsewhere, Limiter!Tick, Limiter!SweepCounters, Limiter!SweepBlock, Limiter!PushedOut,
           LimiterTyped, Limiter!LimiterTypeOK
<1>4. \A p \in Limiter!Policies, n \in Nodes : cache'[n][p] \in {0, cache[n][p]}
    BY DEF Elsewhere, Limiter!Tick, Limiter!SweepCounters, Limiter!SweepBlock, Limiter!PushedOut,
           LimiterTyped, Limiter!LimiterTypeOK, Limiter!Forget
<1>5. LessOrRead BY <1>3, <1>4 DEF LessOrRead, Limiter!NoBlock
<1> QED BY <1>1, <1>2, <1>5, BlocksStayCaused DEF LessOrRead

-----------------------------------------------------------------------------
(* A quiet period resets the count *)

\* The streak is as long as the count says, and the row that tripped the cap outlives its handler.
QuietInv ==
    backend = "postgres" =>
        /\ failures.count <= streak \/ streak >= rules.login.max
        /\ \A t \in Handlers :
               /\ Limiter!Is(t, "clearCounter") => wins > 0
               /\ Limiter!Is(t, "tripLogin") =>
                      \/ wins > 0
                      \/ streak >= rules.login.max /\ failures.ttl > login[t].at + MaxDelay

LEMMA StepQuiet ==
    ASSUME LimiterTyped, QuietInv, NEW t \in Handlers, Limiter!LimiterStep(t)
    PROVE  QuietInv'
<1>1. StepTyped(t) BY StepKeepsTypes
<1>2. /\ rules' = rules /\ backend' = backend /\ now' = now
      /\ \A s \in Handlers \ {t} : login'[s] = login[s]
      /\ rules.login.max \in Nat /\ rules.login.window \in Nat \ {0} /\ wins \in Nat /\ streak \in Nat
      /\ failures.count \in Nat /\ failures.ttl \in Nat /\ MaxDelay \in Nat /\ Grace \in Nat
      /\ 2 * MaxDelay <= Grace
    <2>1. MaxWins \in Nat BY PlatformAssumption DEF Limiter!RateLimitAssumption
    <2>2. QED BY <1>1, <2>1, RulesTyped, LimiterFacts
              DEF StepTyped, Steps, LimiterTyped, Limiter!LimiterTypeOK, Limiter!Counter
<1> SUFFICES ASSUME backend = "postgres" PROVE QuietInv'
    BY <1>2 DEF QuietInv
<1>3. CASE ~Limiter!WrongPassword(t) /\ ~Limiter!RecordFailure(t)
    <2>1. /\ login'[t].phase # "tripLogin" /\ wins' >= wins /\ wins' \in Nat
          /\ login'[t].phase = "clearCounter" => wins' > 0
          /\ \/ UNCHANGED <<failures, streak>>
             \/ Limiter!Is(t, "clearCounter") /\ failures' = Limiter!NoCounter /\ streak' = 0
        BY <1>1, <1>3, BesidesFailures
           DEF StepTyped, Limiter!LimiterTypeOK
    <2>2. CASE UNCHANGED <<failures, streak>>
        BY <1>2, <2>1, <2>2 DEF QuietInv, Limiter!Is
    <2>3. CASE Limiter!Is(t, "clearCounter") /\ failures' = Limiter!NoCounter /\ streak' = 0
        <3>1. wins > 0 BY <2>3 DEF QuietInv
        <3>2. failures'.count = 0 BY <2>3 DEF Limiter!NoCounter
        <3>3. wins' > 0 BY <1>2, <2>1, <3>1
        <3>4. QED BY <2>3, <3>2, <3>3 DEF QuietInv
    <2>4. QED BY <2>1, <2>2, <2>3
<1>4. CASE Limiter!WrongPassword(t)
    <2>1. /\ UNCHANGED <<failures, streak, wins>>
          /\ login'[t].phase \notin {"clearCounter", "tripLogin"}
        BY <1>4, PasswordIsWrong DEF Limiter!Idle
    <2>2. QED BY <1>2, <2>1 DEF QuietInv, Limiter!Is
<1>5. CASE Limiter!RecordFailure(t)
    <2>1. /\ ~Limiter!Is(t, "idle")
          /\ failures'.count \in Nat
          /\ failures'.count = IF failures.ttl <= now THEN 1 ELSE failures.count + 1
          /\ failures'.ttl = login[t].at + rules.login.window + Grace
          /\ streak' = IF failures.ttl <= now THEN 1 ELSE Limiter!UpTo(rules.login.max, streak + 1)
          /\ IF failures'.count >= rules.login.max
             THEN login'[t].phase = "tripLogin" /\ login'[t].at = login[t].at
             ELSE login'[t] = Limiter!Idle
          /\ wins' = wins
        BY <1>5, FailureIsCounted DEF Limiter!Is
    <2>2. Limiter!UpTo(rules.login.max, streak + 1) = streak + 1
          \/ (Limiter!UpTo(rules.login.max, streak + 1) = rules.login.max)
        BY DEF Limiter!UpTo
    <2>3. failures'.count <= streak' \/ streak' >= rules.login.max
        BY <1>2, <2>1, <2>2 DEF QuietInv
    <2>4. \A s \in Handlers : login[s].at \in Nat /\ now \in Nat
              /\ (~Limiter!Is(s, "idle") => login[s].at <= now /\ now <= login[s].at + MaxDelay)
        BY HandlerInTime
    <2>5. \A s \in Handlers : ~Limiter!Is(s, "idle") => failures'.ttl > login[s].at + MaxDelay
        <3> SUFFICES ASSUME NEW s \in Handlers, ~Limiter!Is(s, "idle")
                     PROVE  failures'.ttl > login[s].at + MaxDelay
            OBVIOUS
        <3>1. login[s].at \in Nat /\ login[t].at \in Nat /\ login[s].at <= login[t].at + MaxDelay
            BY <1>2, <2>1, <2>4
        <3>2. PICK w \in Nat \ {0} : w = rules.login.window BY <1>2
        <3>3. failures'.ttl = login[t].at + w + Grace BY <2>1, <3>2
        <3>4. QED BY <1>2, <3>1, <3>2, <3>3
    <2>6. Limiter!Is(t, "tripLogin")' => streak' >= rules.login.max /\ failures'.ttl > login'[t].at + MaxDelay
        <3>1. streak' \in Nat BY <1>2, <2>1, <2>2
        <3>2. Limiter!Is(t, "tripLogin")' => failures'.count >= rules.login.max /\ login'[t].at = login[t].at
            BY <2>1 DEF Limiter!Is, Limiter!Idle
        <3>3. QED BY <1>2, <2>1, <2>3, <2>5, <3>1, <3>2
    <2>7. ~Limiter!Is(t, "clearCounter")' BY <2>1 DEF Limiter!Is, Limiter!Idle
    <2>8. \A s \in Handlers \ {t} : Limiter!Is(s, "tripLogin")' =>
              wins > 0 \/ (streak' >= rules.login.max /\ failures'.ttl > login[s].at + MaxDelay)
        <3> SUFFICES ASSUME NEW s \in Handlers \ {t}, Limiter!Is(s, "tripLogin")', ~(wins > 0)
                     PROVE  streak' >= rules.login.max /\ failures'.ttl > login[s].at + MaxDelay
            OBVIOUS
        <3>1. Limiter!Is(s, "tripLogin") /\ ~Limiter!Is(s, "idle") BY <1>2 DEF Limiter!Is
        <3>2. streak >= rules.login.max /\ failures.ttl > login[s].at + MaxDelay BY <3>1 DEF QuietInv
        <3>3. ~(failures.ttl <= now) BY <1>2, <2>4, <3>1, <3>2
        <3>4. streak' >= rules.login.max BY <1>2, <2>1, <2>2, <3>2, <3>3
        <3>5. QED BY <2>5, <3>1, <3>4
    <2>9. QED BY <1>2, <2>1, <2>3, <2>6, <2>7, <2>8 DEF QuietInv, Limiter!Is
<1> QED BY <1>3, <1>4, <1>5

LEMMA ElsewhereQuiet ==
    ASSUME LimiterTyped, QuietInv, Elsewhere
    PROVE  QuietInv'
<1>1. /\ rules' = rules /\ login' = login /\ backend' = backend /\ streak' = streak /\ wins' = wins
      /\ \/ failures' = failures
         \/ failures' = Limiter!NoCounter /\ Limiter!Expired(failures)
    BY DEF Elsewhere, Limiter!Tick, Limiter!SweepCounters, Limiter!SweepBlock, Limiter!PushedOut,
           Limiter!history
<1>2. CASE failures' = failures BY <1>1, <1>2 DEF QuietInv, Limiter!Is
<1>3. CASE failures' = Limiter!NoCounter /\ Limiter!Expired(failures)
    <2>1. failures.ttl <= now /\ failures'.count = 0 BY <1>3 DEF Limiter!Expired, Limiter!NoCounter
    <2>2. streak \in Nat /\ failures.ttl \in Nat /\ MaxDelay \in Nat
        BY LimiterFacts DEF LimiterTyped, Limiter!LimiterTypeOK, Limiter!Counter
    <2>3. \A s \in Handlers : Limiter!Is(s, "tripLogin") => ~(failures.ttl > login[s].at + MaxDelay)
        <3>1. \A s \in Handlers : Limiter!Is(s, "tripLogin") =>
                  login[s].at \in Nat /\ now \in Nat /\ now <= login[s].at + MaxDelay
            BY HandlerInTime DEF Limiter!Is
        <3>2. QED BY <2>1, <2>2, <3>1
    <2>4. QED BY <1>1, <2>1, <2>2, <2>3 DEF QuietInv, Limiter!Is
<1> QED BY <1>1, <1>2, <1>3

-----------------------------------------------------------------------------
(* The guesses an account can take *)

\* The store answers, nobody gives the right password, and a block outlasts its handler.
Guarded ==
    /\ backend = "postgres"
    /\ traffic \cap {"know", "outage"} = {}
    /\ ~Limiter!Disabled("login") /\ rules.login.block > MaxDelay

Quota == rules.login.max - 1                        \* guesses of a run that trips no cap
Quiet == rules.login.window + Grace - MaxDelay      \* what lies between two runs, at least
Barred == rules.login.block - MaxDelay              \* how long a block lasts, at least

Below(n) == n * Quota
Spell(n) == n * Quiet
Span(j) == j * Barred

\* The guesses of the run at hand that are in its quota.
Sofar == IF failures.count < Quota THEN failures.count ELSE Quota

\* No request of the handler that is still to come has an earlier time.
Past(t) == IF Limiter!Is(t, "idle") THEN now ELSE login[t].at

(***************************************************************************)
(* The books of the guesses: n runs that are over, the run at hand, and    *)
(* the excess, guesses beyond a quota or not yet counted.  An excess guess *)
(* has the span of time it was made in, its handler guesses again only     *)
(* when that span is over, and so has at most one in each.                 *)
(***************************************************************************)
Settled(t, excess) ==
    /\ login[t].phase \notin {"clearCounter", "clearBlock"}
    /\ Limiter!Is(t, "verify") =>
           \A j \in Nat : <<t, j>> \in excess => Span(j + 1) <= login[t].at
    /\ Limiter!Is(t, "failure") =>
           \E j \in Nat :
               /\ <<t, j>> \in excess
               /\ \A k \in Nat \ {j} : <<t, k>> \in excess => Span(k + 1) <= login[t].at
    /\ login[t].phase \notin {"verify", "failure", "tripLogin"} =>
           \A j \in Nat : <<t, j>> \in excess =>
               Span(j + 1) <= Past(t) \/ Span(j + 1) <= blocks["login"].until

Ledger(n, excess) ==
    /\ IsFiniteSet(excess)
    /\ guessed <= Below(n) + Sofar + Cardinality(excess)
    /\ Spell(n) <= now
    /\ failures.count > 0 => Spell(n + 1) <= failures.ttl
    /\ \A t \in Handlers, j \in Nat : <<t, j>> \in excess => Span(j) <= now
    /\ \A t \in Handlers : Settled(t, excess)

RowSound ==
    \/ blocks["login"].ttl = blocks["login"].until + Grace
    \/ blocks["login"].until = 0 /\ blocks["login"].ttl = 0

GuessInv ==
    Guarded => /\ RowSound
               /\ \E n \in Nat, excess \in SUBSET (Handlers \X Nat) : Ledger(n, excess)

LEMMA SpanFacts ==
    ASSUME LimiterTyped, Guarded
    PROVE  /\ Quota \in Nat /\ Quota + 1 = rules.login.max
           /\ Quiet \in Nat \ {0} /\ Barred \in Nat \ {0}
           /\ Quiet + MaxDelay = rules.login.window + Grace /\ Barred + MaxDelay = rules.login.block
           /\ \A n \in Nat :
                  /\ Below(n) \in Nat /\ Below(n + 1) = Below(n) + Quota
                  /\ Spell(n) \in Nat /\ Spell(n + 1) = Spell(n) + Quiet /\ Spell(n + 1) \in Nat
                  /\ Span(n) \in Nat /\ Span(n + 1) = Span(n) + Barred /\ Span(n + 1) \in Nat
           /\ now \div Barred \in Nat /\ Span(now \div Barred) <= now
           /\ \A j \in Nat : Span(j) <= now => j <= now \div Barred
           /\ \A n \in Nat : Spell(n) <= now => n <= now \div Quiet
           /\ now \div Quiet \in Nat
<1>1. /\ rules.login.max \in Nat /\ rules.login.window \in Nat \ {0} /\ rules.login.block \in Nat
      /\ rules.login.max # 0 /\ rules.login.block > MaxDelay
      /\ Grace \in Nat /\ MaxDelay \in Nat /\ MaxDelay < Grace /\ now \in Nat
    BY RulesTyped, LimiterFacts DEF LimiterTyped, Guarded, Limiter!Disabled, Limiter!LimiterTypeOK
<1>2. /\ Quota \in Nat /\ Quota + 1 = rules.login.max
      /\ Quiet \in Nat \ {0} /\ Barred \in Nat \ {0}
      /\ Quiet + MaxDelay = rules.login.window + Grace /\ Barred + MaxDelay = rules.login.block
    BY <1>1 DEF Quota, Quiet, Barred
<1>3. \A n, d \in Nat : n * d \in Nat /\ (n + 1) * d = n * d + d /\ (n + 1) * d \in Nat
    OBVIOUS
<1>4. \A n \in Nat :
          /\ Below(n) \in Nat /\ Below(n + 1) = Below(n) + Quota
          /\ Spell(n) \in Nat /\ Spell(n + 1) = Spell(n) + Quiet /\ Spell(n + 1) \in Nat
          /\ Span(n) \in Nat /\ Span(n + 1) = Span(n) + Barred /\ Span(n + 1) \in Nat
    BY <1>2, <1>3 DEF Below, Spell, Span
<1>5. PICK d \in Nat \ {0} : d = Barred BY <1>2
<1>6. /\ now \div d \in Nat /\ (now \div d) * d <= now /\ \A j \in Nat : j * d <= now => j <= now \div d
    BY <1>1, QuotientFacts, QuotientAbove
<1>7. PICK e \in Nat \ {0} : e = Quiet BY <1>2
<1>8. now \div e \in Nat /\ \A j \in Nat : j * e <= now => j <= now \div e
    BY <1>1, QuotientFacts, QuotientAbove
<1>9. /\ now \div Barred \in Nat /\ Span(now \div Barred) <= now
      /\ \A j \in Nat : Span(j) <= now => j <= now \div Barred
    BY <1>5, <1>6 DEF Span
<1>10. now \div Quiet \in Nat /\ \A n \in Nat : Spell(n) <= now => n <= now \div Quiet
    BY <1>7, <1>8 DEF Spell
<1> QED BY <1>2, <1>4, <1>9, <1>10

\* The policies do not change.
LEMMA SpansStay ==
    ASSUME rules' = rules
    PROVE  /\ Quota' = Quota /\ Quiet' = Quiet /\ Barred' = Barred
           /\ \A n : Below(n)' = Below(n) /\ Spell(n)' = Spell(n) /\ Span(n)' = Span(n)
           /\ \A n : Below(n + 1)' = Below(n + 1) /\ Spell(n + 1)' = Spell(n + 1) /\ Span(n + 1)' = Span(n + 1)
BY DEF Quota, Quiet, Barred, Below, Spell, Span

\* The steps the premise leaves.
Aside(t) ==
    /\ UNCHANGED <<failures, guessed>> /\ blocks'["login"] = blocks["login"]
    /\ login[t].phase \notin {"failure", "tripLogin"}
    /\ login'[t].phase \notin {"verify", "failure", "tripLogin", "clearCounter", "clearBlock"}

Bars(t) ==
    /\ Limiter!Is(t, "tripLogin")
    /\ Limiter!SetBlock("login", login[t].at + rules["login"].block)
    /\ UNCHANGED <<failures, guessed>>
    /\ login'[t] = Limiter!Idle

Passes(t) ==
    /\ Limiter!Is(t, "getBlock")
    /\ \E until \in Limiter!GetBlock("login") : ~(login[t].at < until)
    /\ login'[t].phase = "verify" /\ login'[t].at = login[t].at
    /\ UNCHANGED <<failures, guessed, blocks>>

LEMMA GuardedSteps ==
    ASSUME LimiterTyped, Guarded, NEW t \in Handlers, Limiter!LimiterStep(t),
           login[t].phase \notin {"clearCounter", "clearBlock"}
    PROVE  Limiter!WrongPassword(t) \/ Limiter!RecordFailure(t) \/ Bars(t) \/ Passes(t) \/ Aside(t)
<1> SUFFICES ASSUME ~Limiter!WrongPassword(t), ~Limiter!RecordFailure(t)
             PROVE  Bars(t) \/ Passes(t) \/ Aside(t)
    OBVIOUS
<1> USE DEF Limiter!Is
<1>1. /\ ~Limiter!StoreFails(t) /\ ~Limiter!CodePending(t) /\ ~Limiter!RightPassword(t)
      /\ ~Limiter!ClearCounter(t) /\ ~Limiter!ClearBlock(t)
    BY DEF Guarded, Limiter!StoreFails, Limiter!CodePending, Limiter!RightPassword,
           Limiter!ClearCounter,
           Limiter!ClearBlock
<1>2. /\ guessed' = guessed /\ failures' = failures /\ login'[t].phase \notin {"failure", "tripLogin"}
    BY BesidesFailures
<1>3. TablesTyped BY TypeOfTables DEF LimiterTyped
<1>4. "login" \in Limiter!Policies /\ "perIp" \in Limiter!Policies /\ "perIp" # "login"
    BY DEF Limiter!Policies
<1>5. CASE \E n \in Nodes : Limiter!Arrive(t, n)
    <2>1. PICK n \in Nodes : Limiter!Arrive(t, n) BY <1>5
    <2>2. login' = login \/ login'[t].phase = IF Limiter!Disabled("perIp") THEN "isBlocked" ELSE "increment"
        BY <2>1 DEF Limiter!Arrive, LimiterTyped, Limiter!LimiterTypeOK
    <2>3. login[t].phase = "idle" /\ blocks' = blocks
        BY <2>1 DEF Limiter!Arrive
    <2>4. QED BY <1>2, <2>2, <2>3 DEF Aside
<1>6. CASE Limiter!CheckIncrement(t) \/ Limiter!Rehydrate(t) \/ Limiter!UnknownAccount(t) \/ Limiter!IsBlocked(t)
    <2>1. /\ login[t].phase \notin {"idle", "failure", "tripLogin"} /\ blocks' = blocks
          /\ Limiter!Ends(t) \/ \E phase \in {"rehydrate", "tripIp", "isBlocked", "getBlock"} : Limiter!To(t, phase)
        BY <1>6
           DEF Limiter!CheckIncrement, Limiter!Rehydrate, Limiter!UnknownAccount, Limiter!IsBlocked,
               Limiter!Disabled, Guarded
    <2>2. login'[t].phase \in {"idle", "rehydrate", "tripIp", "isBlocked", "getBlock"}
        <3>1. CASE Limiter!Ends(t) BY <3>1, HandlerEnds, IdleTyped DEF LimiterTyped
        <3>2. ASSUME NEW phase \in {"rehydrate", "tripIp", "isBlocked", "getBlock"}, Limiter!To(t, phase)
              PROVE  login'[t].phase = phase
            <4>1. phase \in Limiter!Phases BY DEF Limiter!Phases
            <4>2. QED BY <2>1, <3>2, <4>1, HandlerTo DEF LimiterTyped
        <3>3. QED BY <2>1, <3>1, <3>2
    <2>3. QED BY <1>2, <2>1, <2>2 DEF Aside
<1>7. CASE Limiter!TripBlock(t)
    <2>1. CASE Limiter!Is(t, "tripLogin") /\ Limiter!Trip(t, "login")
        <3>1. Limiter!SetBlock("login", login[t].at + rules["login"].block) /\ Limiter!Ends(t)
            BY <2>1 DEF Limiter!Trip, Guarded
        <3>2. login'[t] = Limiter!Idle BY <3>1, HandlerEnds DEF LimiterTyped
        <3>3. QED BY <1>2, <2>1, <3>1, <3>2 DEF Bars
    <2>2. CASE Limiter!Is(t, "tripIp") /\ Limiter!Trip(t, "perIp")
        <3>1. Limiter!SetBlock("perIp", login[t].at + rules["perIp"].block) /\ Limiter!Ends(t)
            BY <2>2 DEF Limiter!Trip, Guarded
        <3>2. login'[t] = Limiter!Idle BY <3>1, HandlerEnds DEF LimiterTyped
        <3>3. blocks'["login"] = blocks["login"]
            BY <1>3, <1>4, <3>1 DEF Limiter!SetBlock, TablesTyped
        <3>4. QED BY <1>2, <2>2, <3>2, <3>3 DEF Aside, Limiter!Idle
    <2>3. QED BY <1>7, <2>1, <2>2 DEF Limiter!TripBlock
<1>8. CASE Limiter!ReadBlock(t)
    <2>1. PICK until \in Limiter!GetBlock("login") :
              /\ Limiter!Is(t, "getBlock") /\ blocks' = blocks
              /\ \/ Limiter!Ends(t)
                 \/ ~(login[t].at < until) /\ Limiter!To(t, "verify")
        BY <1>8 DEF Limiter!ReadBlock
    <2>2. CASE Limiter!Ends(t)
        <3>1. login'[t] = Limiter!Idle BY <2>2, HandlerEnds DEF LimiterTyped
        <3>2. QED BY <1>2, <2>1, <3>1 DEF Aside, Limiter!Idle
    <2>3. CASE ~(login[t].at < until) /\ Limiter!To(t, "verify")
        <3>1. login'[t].phase = "verify" /\ login'[t].at = login[t].at
            BY <2>1, <2>3, HandlerTo DEF LimiterTyped, Limiter!Phases
        <3>2. QED BY <1>2, <2>1, <2>3, <3>1 DEF Passes
    <2>4. QED BY <2>1, <2>2, <2>3
<1> QED BY <1>1, <1>5, <1>6, <1>7, <1>8 DEF Limiter!LimiterStep

\* What is settled stays so for the others.
LEMMA OthersSettled ==
    ASSUME LimiterTyped, NEW t \in Handlers, StepTyped(t), NEW s \in Handlers \ {t},
           NEW before, NEW after, Settled(s, before),
           \A j \in Nat : <<s, j>> \in after <=> <<s, j>> \in before,
           \/ blocks'["login"].until = blocks["login"].until
           \/ \A j \in Nat : <<s, j>> \in after => Span(j + 1) <= blocks'["login"].until
    PROVE  Settled(s, after)'
<1>1. login'[s] = login[s] /\ rules' = rules /\ now' = now BY DEF StepTyped, Steps
<1>2. \A j \in Nat : Span(j + 1)' = Span(j + 1) BY <1>1, SpansStay
<1>3. Past(s)' = Past(s) BY <1>1 DEF Past, Limiter!Is
<1>4. /\ login'[s].phase \notin {"clearCounter", "clearBlock"}
      /\ Limiter!Is(s, "verify")' => \A j \in Nat : <<s, j>> \in after => Span(j + 1)' <= login'[s].at
    BY <1>1, <1>2 DEF Settled, Limiter!Is
<1>5. Limiter!Is(s, "failure")' =>
          \E j \in Nat :
              /\ <<s, j>> \in after
              /\ \A k \in Nat \ {j} : <<s, k>> \in after => Span(k + 1)' <= login'[s].at
    <2> SUFFICES ASSUME Limiter!Is(s, "failure")
                 PROVE  \E j \in Nat :
                            /\ <<s, j>> \in after
                            /\ \A k \in Nat \ {j} : <<s, k>> \in after => Span(k + 1)' <= login'[s].at
        BY <1>1 DEF Limiter!Is
    <2>1. PICK j \in Nat : /\ <<s, j>> \in before
                           /\ \A k \in Nat \ {j} : <<s, k>> \in before => Span(k + 1) <= login[s].at
        BY DEF Settled
    <2>2. QED BY <1>1, <1>2, <2>1
<1>6. login'[s].phase \notin {"verify", "failure", "tripLogin"} =>
          \A j \in Nat : <<s, j>> \in after =>
              Span(j + 1)' <= Past(s)' \/ Span(j + 1)' <= blocks'["login"].until
    BY <1>1, <1>2, <1>3 DEF Settled
<1> QED BY <1>4, <1>5, <1>6 DEF Settled

\* Time that goes by.
LEMMA SpansEnd ==
    ASSUME LimiterTyped, NEW t \in Handlers
    PROVE  /\ Past(t) \in Nat /\ Past(t) <= now /\ now <= Past(t) + MaxDelay
           /\ ~Limiter!Is(t, "idle") => Past(t) = login[t].at
BY HandlerInTime, LimiterFacts DEF Past

\* A step the books do not show.
LEMMA AsideLedger ==
    ASSUME LimiterTyped, Guarded, NEW n \in Nat, NEW excess \in SUBSET (Handlers \X Nat),
           Ledger(n, excess),
           NEW t \in Handlers, StepTyped(t), Aside(t)
    PROVE  Ledger(n, excess)'
<1>1. /\ rules' = rules /\ now' = now /\ failures' = failures /\ guessed' = guessed
      /\ blocks'["login"] = blocks["login"]
    BY DEF StepTyped, Aside
<1>2. Quota' = Quota /\ Below(n)' = Below(n) /\ Spell(n)' = Spell(n) /\ Spell(n + 1)' = Spell(n + 1)
      /\ \A j \in Nat : Span(j)' = Span(j) /\ Span(j + 1)' = Span(j + 1)
    BY <1>1, SpansStay
<1>3. Sofar' = Sofar BY <1>1, <1>2 DEF Sofar
<1>4. \A s \in Handlers \ {t} : Settled(s, excess)' BY <1>1, OthersSettled DEF Ledger
<1>5. Settled(t, excess)'
    <2>1. Past(t)' \in Nat /\ Past(t) \in Nat /\ Past(t) <= Past(t)'
        <3>1. LimiterTyped' BY StepsKeepTime DEF StepTyped, LimiterTyped
        <3>2. Past(t)' \in Nat /\ Past(t) \in Nat /\ Past(t) <= now
              /\ (~Limiter!Is(t, "idle") => Past(t) = login[t].at)
            <4>1. Past(t) \in Nat /\ Past(t) <= now /\ (~Limiter!Is(t, "idle") => Past(t) = login[t].at)
                BY SpansEnd
            <4>2. login'[t].at \in Nat /\ now' \in Nat
                BY <3>1, LimiterFacts DEF LimiterTyped, Limiter!LimiterTypeOK, Limiter!Handler
            <4>3. Past(t)' \in Nat BY <4>2 DEF Past
            <4>4. QED BY <4>1, <4>3
        <3>3. CASE login'[t] = Limiter!Idle
            <4>1. Past(t)' = now BY <1>1, <3>3 DEF Past, Limiter!Is, Limiter!Idle
            <4>2. QED BY <3>2, <4>1
        <3>4. CASE login'[t] = login[t]
            <4>1. Past(t)' = Past(t) BY <1>1, <3>4 DEF Past, Limiter!Is
            <4>2. QED BY <3>2, <4>1
        <3>5. CASE ~Limiter!Is(t, "idle") /\ login'[t].at = login[t].at
            <4>1. Past(t)' = now \/ Past(t)' = login[t].at BY <1>1, <3>5 DEF Past
            <4>2. QED BY <3>2, <3>5, <4>1
        <3>6. CASE login'[t].at = now
            <4>1. Past(t)' = now BY <1>1, <3>6 DEF Past
            <4>2. QED BY <3>2, <4>1
        <3>7. QED BY <3>3, <3>4, <3>5, <3>6 DEF StepTyped, Steps
    <2>2. login[t].phase # "verify" => \A j \in Nat : <<t, j>> \in excess =>
              Span(j + 1) <= Past(t) \/ Span(j + 1) <= blocks["login"].until
        BY DEF Ledger, Settled, Aside
    <2>3. login[t].phase = "verify" => \A j \in Nat : <<t, j>> \in excess => Span(j + 1) <= Past(t)
        BY SpansEnd DEF Ledger, Settled, Limiter!Is
    <2>4. \A j \in Nat : <<t, j>> \in excess =>
              Span(j + 1)' <= Past(t)' \/ Span(j + 1)' <= blocks'["login"].until
        <3>1. \A j \in Nat : Span(j + 1) \in Nat BY SpanFacts
        <3>2. QED BY <1>1, <1>2, <2>1, <2>2, <2>3, <3>1
    <2>5. QED BY <2>4 DEF Settled, Aside, Limiter!Is
<1> QED BY <1>1, <1>2, <1>3, <1>4, <1>5 DEF Ledger

\* The check lets a handler pass when the blocks for its own guesses are over.
LEMMA PassesLedger ==
    ASSUME LimiterTyped, Guarded, RowSound, NEW n \in Nat, NEW excess \in SUBSET (Handlers \X Nat),
           Ledger(n, excess), NEW t \in Handlers, StepTyped(t), Passes(t)
    PROVE  Ledger(n, excess)'
<1>1. /\ rules' = rules /\ now' = now /\ failures' = failures /\ guessed' = guessed /\ blocks' = blocks
      /\ login'[t].phase = "verify" /\ login'[t].at = login[t].at /\ Limiter!Is(t, "getBlock")
    BY DEF StepTyped, Passes
<1>2. Quota' = Quota /\ Below(n)' = Below(n) /\ Spell(n)' = Spell(n) /\ Spell(n + 1)' = Spell(n + 1)
      /\ \A j \in Nat : Span(j)' = Span(j) /\ Span(j + 1)' = Span(j + 1)
    BY <1>1, SpansStay
<1>3. Sofar' = Sofar BY <1>1, <1>2 DEF Sofar
<1>4. \A s \in Handlers \ {t} : Settled(s, excess)' BY <1>1, OthersSettled DEF Ledger
<1>5. blocks["login"].until <= login[t].at
    <2>1. PICK until \in Limiter!GetBlock("login") : ~(login[t].at < until) BY DEF Passes
    <2>2. until = IF blocks["login"].ttl > now THEN blocks["login"].until ELSE 0
        BY <2>1, GetBlockTyped DEF Guarded, LimiterTyped, Limiter!Policies
    <2>3. /\ blocks["login"].until \in Nat /\ blocks["login"].ttl \in Nat
          /\ login[t].at \in Nat /\ now \in Nat /\ now <= login[t].at + MaxDelay
          /\ Grace \in Nat /\ MaxDelay \in Nat /\ MaxDelay < Grace
        BY <1>1, RowsTyped, HandlerInTime, LimiterFacts DEF Limiter!Policies, Limiter!Is
    <2>4. CASE blocks["login"].ttl > now BY <2>1, <2>2, <2>3, <2>4
    <2>5. CASE ~(blocks["login"].ttl > now) BY <2>3, <2>5 DEF RowSound
    <2>6. QED BY <2>4, <2>5
<1>6. Settled(t, excess)'
    <2>1. login[t].at \in Nat /\ blocks["login"].until \in Nat /\ \A j \in Nat : Span(j + 1) \in Nat
        BY HandlerInTime, RowsTyped, SpanFacts DEF Limiter!Policies
    <2>2. Past(t) = login[t].at BY <1>1, SpansEnd DEF Limiter!Is
    <2>3. \A j \in Nat : <<t, j>> \in excess => Span(j + 1) <= Past(t) \/ Span(j + 1) <= blocks["login"].until
        BY <1>1 DEF Ledger, Settled, Limiter!Is
    <2>4. ASSUME NEW j \in Nat, <<t, j>> \in excess PROVE Span(j + 1)' <= login'[t].at
        <3>1. Span(j + 1) <= login[t].at \/ Span(j + 1) <= blocks["login"].until BY <2>2, <2>3, <2>4
        <3>2. Span(j + 1) <= login[t].at BY <1>5, <2>1, <3>1
        <3>3. QED BY <1>1, <1>2, <3>2
    <2>5. QED BY <1>1, <2>4 DEF Settled, Limiter!Is
<1> QED BY <1>1, <1>2, <1>3, <1>4, <1>6 DEF Ledger

\* What the limiter's numbers are, for the steps below.
LEMMA Numbers ==
    ASSUME LimiterTyped, Guarded
    PROVE  /\ guessed \in Nat /\ now \in Nat /\ failures.count \in Nat /\ failures.ttl \in Nat
           /\ Grace \in Nat /\ MaxDelay \in Nat /\ MaxDelay < Grace
           /\ rules.login.max \in Nat /\ rules.login.max # 0
           /\ rules.login.window \in Nat /\ rules.login.block \in Nat
           /\ Sofar \in Nat /\ Sofar <= failures.count /\ Sofar <= Quota
           /\ failures.count > Quota => Sofar = Quota
           /\ failures.count <= Quota => Sofar = failures.count
<1>1. /\ guessed \in Nat /\ now \in Nat /\ failures.count \in Nat /\ failures.ttl \in Nat
      /\ Grace \in Nat /\ MaxDelay \in Nat /\ MaxDelay < Grace
      /\ rules.login.max \in Nat /\ rules.login.max # 0
      /\ rules.login.window \in Nat /\ rules.login.block \in Nat
    BY RulesTyped, LimiterFacts
       DEF LimiterTyped, Limiter!LimiterTypeOK, Limiter!Counter, Guarded, Limiter!Disabled
<1>2. Quota \in Nat BY SpanFacts
<1> QED BY <1>1, <1>2 DEF Sofar

\* A wrong password is in excess until it is counted.
LEMMA WrongLedger ==
    ASSUME LimiterTyped, Guarded, NEW n \in Nat, NEW excess \in SUBSET (Handlers \X Nat),
           Ledger(n, excess),
           NEW t \in Handlers, StepTyped(t), Limiter!WrongPassword(t)
    PROVE  \E more \in SUBSET (Handlers \X Nat) : Ledger(n, more)'
<1>1. /\ rules' = rules /\ now' = now /\ failures' = failures /\ blocks' = blocks
      /\ Limiter!Is(t, "verify") /\ guessed' \in Nat /\ guessed' <= guessed + 1
      /\ login'[t].phase = "failure" /\ login'[t].at = login[t].at
    BY PasswordIsWrong, Numbers DEF StepTyped
<1>2. Quota' = Quota /\ Below(n)' = Below(n) /\ Spell(n)' = Spell(n) /\ Spell(n + 1)' = Spell(n + 1)
      /\ \A j \in Nat : Span(j)' = Span(j) /\ Span(j + 1)' = Span(j + 1)
    BY <1>1, SpansStay
<1>3. Sofar' = Sofar BY <1>1, <1>2 DEF Sofar
<1>4. PICK i \in Nat : i = now \div Barred /\ Span(i) <= now BY SpanFacts
<1>5. \A j \in Nat : <<t, j>> \in excess => Span(j + 1) <= login[t].at
    BY <1>1 DEF Ledger, Settled
<1>6. <<t, i>> \notin excess
    <2> SUFFICES ASSUME <<t, i>> \in excess PROVE FALSE
        OBVIOUS
    <2>1. Span(i + 1) <= now
        <3>1. login[t].at <= now /\ login[t].at \in Nat /\ now \in Nat
            BY <1>1, HandlerInTime DEF Limiter!Is
        <3>2. Span(i + 1) \in Nat /\ Span(i + 1) <= login[t].at BY <1>5, SpanFacts
        <3>3. QED BY <3>1, <3>2
    <2>2. \A j \in Nat : Span(j) <= now => j <= i BY <1>4, SpanFacts
    <2>3. i + 1 <= i BY <2>1, <2>2
    <2>4. QED BY <2>3
<1>7. PICK more : more = excess \cup {<<t, i>>} OBVIOUS
<1>8. more \in SUBSET (Handlers \X Nat) BY <1>7
<1>9. IsFiniteSet(more) /\ Cardinality(more) = Cardinality(excess) + 1 /\ Cardinality(excess) \in Nat
    BY <1>6, <1>7, FS_AddElement, FS_CardinalityType DEF Ledger
<1>10. \A s \in Handlers \ {t} : Settled(s, more)'
    <2> SUFFICES ASSUME NEW s \in Handlers \ {t} PROVE Settled(s, more)'
        OBVIOUS
    <2>1. \A j \in Nat : <<s, j>> \in more <=> <<s, j>> \in excess BY <1>7
    <2>2. QED BY <1>1, <2>1, OthersSettled DEF Ledger
<1>11. Settled(t, more)'
    <2>1. \A k \in Nat \ {i} : <<t, k>> \in more => Span(k + 1)' <= login'[t].at
        BY <1>1, <1>2, <1>5, <1>7
    <2>2. <<t, i>> \in more BY <1>7
    <2>3. QED BY <1>1, <2>1, <2>2 DEF Settled, Limiter!Is
<1>12. guessed' <= Below(n)' + Sofar' + Cardinality(more)
    <2>1. guessed <= Below(n) + Sofar + Cardinality(excess) BY DEF Ledger
    <2>2. QED BY <1>1, <1>2, <1>3, <1>9, <2>1, Numbers, SpanFacts
<1>13. \A s \in Handlers, j \in Nat : <<s, j>> \in more => Span(j)' <= now'
    BY <1>1, <1>2, <1>4, <1>7 DEF Ledger
<1>14. Ledger(n, more)'
    BY <1>1, <1>2, <1>9, <1>10, <1>11, <1>12, <1>13 DEF Ledger
<1> QED BY <1>8, <1>14

\* A block is long enough for every excess guess made so far.
LEMMA BarsLedger ==
    ASSUME LimiterTyped, Guarded, NEW n \in Nat, NEW excess \in SUBSET (Handlers \X Nat),
           Ledger(n, excess),
           NEW t \in Handlers, StepTyped(t), Bars(t)
    PROVE  Ledger(n, excess)'
<1>1. /\ rules' = rules /\ now' = now /\ failures' = failures /\ guessed' = guessed
      /\ login'[t].phase = "idle" /\ Limiter!Is(t, "tripLogin")
    BY DEF StepTyped, Bars, Limiter!Idle
<1>2. Quota' = Quota /\ Below(n)' = Below(n) /\ Spell(n)' = Spell(n) /\ Spell(n + 1)' = Spell(n + 1)
      /\ \A j \in Nat : Span(j)' = Span(j) /\ Span(j + 1)' = Span(j + 1)
    BY <1>1, SpansStay
<1>3. Sofar' = Sofar BY <1>1, <1>2 DEF Sofar
<1>4. PICK until \in Nat : until = login[t].at + rules["login"].block
    BY HandlerInTime, RulesTyped DEF LimiterTyped
<1>5. blocks'["login"].until = until
    BY <1>4, BlocksTyped, TypeOfTables DEF Bars, LimiterTyped, Limiter!Policies
<1>6. \A s \in Handlers, j \in Nat : <<s, j>> \in excess => Span(j + 1) <= until
    <2> SUFFICES ASSUME NEW s \in Handlers, NEW j \in Nat, <<s, j>> \in excess
                 PROVE  Span(j + 1) <= until
        OBVIOUS
    <2>1. Span(j) <= now BY DEF Ledger
    <2>2. /\ Span(j) \in Nat /\ Span(j + 1) = Span(j) + Barred /\ Barred \in Nat
          /\ Barred + MaxDelay = rules["login"].block /\ rules["login"].block \in Nat
        BY SpanFacts, RulesTyped DEF LimiterTyped
    <2>3. now <= login[t].at + MaxDelay /\ login[t].at \in Nat /\ now \in Nat /\ MaxDelay \in Nat
        BY <1>1, HandlerInTime, LimiterFacts DEF Limiter!Is
    <2>4. QED BY <1>4, <2>1, <2>2, <2>3
<1>7. \A s \in Handlers \ {t} : Settled(s, excess)'
    <2> SUFFICES ASSUME NEW s \in Handlers \ {t} PROVE Settled(s, excess)'
        OBVIOUS
    <2>1. \A j \in Nat : <<s, j>> \in excess => Span(j + 1) <= blocks'["login"].until BY <1>5, <1>6
    <2>2. QED BY <2>1, OthersSettled DEF Ledger
<1>8. Settled(t, excess)' BY <1>1, <1>2, <1>5, <1>6 DEF Settled, Limiter!Is
<1> QED BY <1>1, <1>2, <1>3, <1>7, <1>8 DEF Ledger

\* A failure that is counted: a run may be over, and the guess is of the run at hand or stays in excess.
LEMMA RecordLedger ==
    ASSUME LimiterTyped, Guarded, NEW n \in Nat, NEW excess \in SUBSET (Handlers \X Nat),
           Ledger(n, excess),
           NEW t \in Handlers, StepTyped(t), Limiter!RecordFailure(t)
    PROVE  \E m \in Nat, rest \in SUBSET (Handlers \X Nat) : Ledger(m, rest)'
<1>1. /\ rules' = rules /\ now' = now /\ blocks' = blocks /\ guessed' = guessed /\ Limiter!Is(t, "failure")
      /\ failures'.count \in Nat
      /\ failures'.count = IF failures.ttl <= now THEN 1 ELSE failures.count + 1
      /\ failures'.ttl = login[t].at + rules.login.window + Grace
      /\ IF failures'.count >= rules.login.max THEN login'[t].phase = "tripLogin" ELSE login'[t].phase = "idle"
    BY FailureIsCounted DEF StepTyped, Guarded, Limiter!Idle
<1>2. /\ Quota' = Quota /\ \A j \in Nat : Span(j)' = Span(j) /\ Span(j + 1)' = Span(j + 1)
      /\ \A m : Below(m)' = Below(m) /\ Spell(m)' = Spell(m) /\ Spell(m + 1)' = Spell(m + 1)
    BY <1>1, SpansStay
<1>3. PICK j \in Nat : /\ <<t, j>> \in excess
                       /\ \A k \in Nat \ {j} : <<t, k>> \in excess => Span(k + 1) <= login[t].at
    BY <1>1 DEF Ledger, Settled
<1>4. PICK m \in Nat :
          m = IF failures.ttl <= now /\ failures.count > 0 THEN n + 1 ELSE n
    BY SpanFacts
<1>5. PICK rest : rest = IF failures'.count >= rules.login.max THEN excess ELSE excess \ {<<t, j>>}
    OBVIOUS
<1>6. rest \in SUBSET (Handlers \X Nat) BY <1>5
<1>7. /\ IsFiniteSet(rest) /\ Cardinality(rest) \in Nat /\ Cardinality(excess) \in Nat
      /\ Cardinality(rest) = IF failures'.count >= rules.login.max THEN Cardinality(excess)
                             ELSE Cardinality(excess) - 1
    <2>1. IsFiniteSet(excess) /\ Cardinality(excess) \in Nat BY FS_CardinalityType DEF Ledger
    <2>2. /\ IsFiniteSet(excess \ {<<t, j>>}) /\ Cardinality(excess \ {<<t, j>>}) \in Nat
          /\ Cardinality(excess \ {<<t, j>>}) = Cardinality(excess) - 1
        BY <1>3, <2>1, FS_RemoveElement, FS_CardinalityType
    <2>3. QED BY <1>5, <2>1, <2>2
<1>8. /\ Below(m) \in Nat /\ Below(n) \in Nat /\ Quota \in Nat /\ Quota + 1 = rules.login.max
      /\ Below(n + 1) = Below(n) + Quota
      /\ Spell(m) \in Nat /\ Spell(m + 1) = Spell(m) + Quiet /\ Quiet \in Nat
      /\ Quiet + MaxDelay = rules.login.window + Grace
    BY SpanFacts
<1>9. /\ Sofar' \in Nat
      /\ failures'.count > Quota => Sofar' = Quota
      /\ failures'.count <= Quota => Sofar' = failures'.count
    BY <1>1, <1>2, <1>8 DEF Sofar
<1>10. guessed' <= Below(m)' + Sofar' + Cardinality(rest)
    <2>1. guessed <= Below(n) + Sofar + Cardinality(excess) BY DEF Ledger
    <2>2. CASE failures.ttl <= now
        <3>1. Below(n) + Sofar <= Below(m)
            <4>1. CASE failures.count > 0 BY <1>4, <1>8, <2>2, <4>1, Numbers
            <4>2. CASE ~(failures.count > 0) BY <1>4, <1>8, <2>2, <4>2, Numbers
            <4>3. QED BY <4>1, <4>2
        <3>2. failures'.count = 1 BY <1>1, <2>2
        <3>3. Cardinality(excess) <= Sofar' + Cardinality(rest) BY <1>7, <1>8, <1>9, <3>2
        <3>4. QED BY <1>1, <1>2, <1>7, <1>8, <1>9, <2>1, <3>1, <3>3, Numbers
    <2>3. CASE ~(failures.ttl <= now)
        <3>1. failures'.count = failures.count + 1 /\ m = n BY <1>1, <1>4, <2>3
        <3>2. Sofar + Cardinality(excess) <= Sofar' + Cardinality(rest)
            BY <1>7, <1>8, <1>9, <3>1, Numbers
        <3>3. QED BY <1>1, <1>2, <1>7, <1>8, <1>9, <2>1, <3>1, <3>2, Numbers
    <2>4. QED BY <2>2, <2>3
<1>11. Spell(m) <= now
    <2>1. Spell(n) <= now /\ (failures.count > 0 => Spell(n + 1) <= failures.ttl) BY DEF Ledger
    <2>2. Spell(n) \in Nat /\ Spell(n + 1) \in Nat BY SpanFacts
    <2>3. CASE failures.ttl <= now /\ failures.count > 0 BY <1>4, <2>1, <2>2, <2>3, Numbers
    <2>4. CASE ~(failures.ttl <= now /\ failures.count > 0) BY <1>4, <2>1, <2>4
    <2>5. QED BY <2>3, <2>4
<1>12. Spell(m + 1) <= failures'.ttl
    <2>1. login[t].at \in Nat /\ now <= login[t].at + MaxDelay
        BY <1>1, HandlerInTime DEF Limiter!Is
    <2>2. QED BY <1>1, <1>8, <1>11, <2>1, Numbers
<1>13. \A s \in Handlers, k \in Nat : <<s, k>> \in rest => <<s, k>> \in excess
    BY <1>5
<1>14. \A s \in Handlers \ {t} : Settled(s, rest)'
    <2> SUFFICES ASSUME NEW s \in Handlers \ {t} PROVE Settled(s, rest)'
        OBVIOUS
    <2>1. \A k \in Nat : <<s, k>> \in rest <=> <<s, k>> \in excess BY <1>5
    <2>2. QED BY <1>1, <2>1, OthersSettled DEF Ledger
<1>15. Settled(t, rest)'
    <2>1. CASE failures'.count >= rules.login.max
        BY <1>1, <2>1 DEF Settled, Limiter!Is
    <2>2. CASE ~(failures'.count >= rules.login.max)
        <3>1. Past(t)' = now /\ login[t].at \in Nat /\ now \in Nat /\ login[t].at <= now
            BY <1>1, <2>2, HandlerInTime DEF Past, Limiter!Is
        <3>2. ASSUME NEW k \in Nat, <<t, k>> \in rest PROVE Span(k + 1)' <= Past(t)'
            <4>1. Span(k + 1) <= login[t].at /\ Span(k + 1) \in Nat
                BY <1>3, <1>5, <2>2, <3>2, SpanFacts
            <4>2. QED BY <1>2, <3>1, <4>1
        <3>3. QED BY <1>1, <2>2, <3>2 DEF Settled, Limiter!Is
    <2>3. QED BY <2>1, <2>2
<1>16. \A s \in Handlers, k \in Nat : <<s, k>> \in rest => Span(k)' <= now'
    BY <1>1, <1>2, <1>13 DEF Ledger
<1>17. Ledger(m, rest)'
    BY <1>1, <1>2, <1>7, <1>10, <1>11, <1>12, <1>14, <1>15, <1>16 DEF Ledger
<1> QED BY <1>6, <1>17

LEMMA RowStaysSound ==
    ASSUME LimiterTyped, Guarded, RowSound, NEW t \in Handlers,
           \/ blocks'["login"] = blocks["login"]
           \/ Bars(t)
    PROVE  RowSound'
<1>1. CASE blocks'["login"] = blocks["login"] BY <1>1 DEF RowSound
<1>2. CASE Bars(t)
    <2>1. PICK until \in Nat : until = login[t].at + rules["login"].block
        BY HandlerInTime, RulesTyped DEF LimiterTyped
    <2>2. blocks'["login"].until = until /\ blocks'["login"].ttl = until + Grace
        BY <1>2, <2>1, BlocksTyped, TypeOfTables DEF Bars, LimiterTyped, Limiter!Policies
    <2>3. QED BY <2>2 DEF RowSound
<1> QED BY <1>1, <1>2

LEMMA StepGuesses ==
    ASSUME LimiterTyped, GuessInv, NEW t \in Handlers, Limiter!LimiterStep(t)
    PROVE  GuessInv'
<1>1. StepTyped(t) BY StepKeepsTypes
<1> SUFFICES ASSUME Guarded PROVE GuessInv'
    BY <1>1 DEF StepTyped, GuessInv, Guarded, Limiter!Disabled
<1>2. PICK n \in Nat, excess \in SUBSET (Handlers \X Nat) : Ledger(n, excess) BY DEF GuessInv
<1>3. RowSound BY DEF GuessInv
<1>4. Limiter!WrongPassword(t) \/ Limiter!RecordFailure(t) \/ Bars(t) \/ Passes(t) \/ Aside(t)
    BY <1>2, GuardedSteps DEF Ledger, Settled
<1>5. \E m \in Nat, rest \in SUBSET (Handlers \X Nat) : Ledger(m, rest)'
    BY <1>1, <1>2, <1>3, <1>4, WrongLedger, RecordLedger, BarsLedger, PassesLedger, AsideLedger
<1>6. RowSound'
    BY <1>3, <1>4, RowStaysSound DEF Limiter!WrongPassword, Limiter!RecordFailure, Passes, Aside
<1> QED BY <1>5, <1>6 DEF GuessInv

-----------------------------------------------------------------------------
(* Time in the books *)

LEMMA ElsewhereGuesses ==
    ASSUME LimiterTyped, GuessInv, Elsewhere
    PROVE  GuessInv'
<1>1. /\ rules' = rules /\ backend' = backend /\ traffic' = traffic /\ login' = login /\ guessed' = guessed
      /\ now' = now \/ now' = now + 1
      /\ now \in Nat /\ now' \in Nat /\ now <= now'
    BY DEF Elsewhere, Limiter!Tick, Limiter!SweepCounters, Limiter!SweepBlock, Limiter!PushedOut,
           Limiter!history, LimiterTyped, Limiter!LimiterTypeOK
<1> SUFFICES ASSUME Guarded PROVE GuessInv'
    BY <1>1 DEF GuessInv, Guarded, Limiter!Disabled
<1>2. PICK n \in Nat, excess \in SUBSET (Handlers \X Nat) : Ledger(n, excess) BY DEF GuessInv
<1>3. /\ Quota' = Quota /\ \A j \in Nat : Span(j)' = Span(j) /\ Span(j + 1)' = Span(j + 1)
      /\ \A m : Below(m)' = Below(m) /\ Spell(m)' = Spell(m) /\ Spell(m + 1)' = Spell(m + 1)
    BY <1>1, SpansStay
<1>4. /\ \/ blocks'["login"] = blocks["login"]
         \/ /\ blocks'["login"].until = 0 /\ blocks'["login"].ttl = 0
            /\ blocks["login"].ttl # 0 /\ blocks["login"].ttl <= now /\ now' = now
      /\ \/ failures' = failures
         \/ failures'.count = 0 /\ failures.ttl <= now /\ now' = now
    <2>1. CASE Limiter!Tick BY <2>1 DEF Limiter!Tick
    <2>2. CASE Limiter!SweepCounters
        BY <2>2 DEF Limiter!SweepCounters, Limiter!Expired, Limiter!NoCounter
    <2>3. CASE \E p \in Limiter!Policies : Limiter!SweepBlock(p)
        BY <2>3 DEF Limiter!SweepBlock, Limiter!Expired, Limiter!NoBlock, Limiter!Policies,
                    LimiterTyped, Limiter!LimiterTypeOK
    <2>4. CASE \E p \in Limiter!Policies, m \in Nodes : Limiter!PushedOut(m, p)
        BY <2>4 DEF Limiter!PushedOut
    <2>5. QED BY <2>1, <2>2, <2>3, <2>4 DEF Elsewhere
<1>5. RowSound' BY <1>4 DEF GuessInv, RowSound
<1>6. \A s \in Handlers : /\ Past(s) \in Nat /\ Past(s)' \in Nat /\ Past(s) <= Past(s)'
                          /\ now <= Past(s) + MaxDelay
    <2>1. \A s \in Handlers : Past(s) \in Nat /\ now <= Past(s) + MaxDelay /\ login[s].at \in Nat
        BY SpansEnd, HandlerInTime
    <2>2. QED BY <1>1, <2>1 DEF Past, Limiter!Is
<1>7. ASSUME NEW s \in Handlers PROVE Settled(s, excess)'
    <2>1. ASSUME NEW j \in Nat, Span(j + 1) <= Past(s) \/ Span(j + 1) <= blocks["login"].until
          PROVE  Span(j + 1)' <= Past(s)' \/ Span(j + 1)' <= blocks'["login"].until
        <3>1. Span(j + 1) \in Nat /\ blocks["login"].until \in Nat /\ blocks["login"].ttl \in Nat
            BY SpanFacts, RowsTyped DEF Limiter!Policies
        <3>2. CASE Span(j + 1) <= Past(s) BY <1>3, <1>6, <3>1, <3>2
        <3>3. CASE Span(j + 1) <= blocks["login"].until /\ blocks'["login"] = blocks["login"]
            BY <1>3, <3>3
        <3>4. CASE /\ Span(j + 1) <= blocks["login"].until
                   /\ blocks["login"].ttl # 0 /\ blocks["login"].ttl <= now
            <4>1. blocks["login"].ttl = blocks["login"].until + Grace
                BY <3>4 DEF GuessInv, RowSound
            <4>2. blocks["login"].until <= Past(s) BY <1>6, <3>1, <3>4, <4>1, Numbers
            <4>3. QED BY <1>3, <1>6, <3>1, <3>4, <4>2
        <3>5. QED BY <1>4, <2>1, <3>2, <3>3, <3>4
    <2>2. Settled(s, excess) BY <1>2 DEF Ledger
    <2>3. \A j \in Nat : Span(j + 1)' = Span(j + 1) BY <1>3
    <2>4. Limiter!Is(s, "failure")' =>
              \E j \in Nat :
                  /\ <<s, j>> \in excess
                  /\ \A k \in Nat \ {j} : <<s, k>> \in excess => Span(k + 1)' <= login'[s].at
        BY <1>1, <2>2, <2>3 DEF Settled, Limiter!Is
    <2>5. QED BY <1>1, <2>1, <2>2, <2>3, <2>4 DEF Settled, Limiter!Is
<1>8. Cardinality(excess) \in Nat BY <1>2, FS_CardinalityType DEF Ledger
<1>9. \A s \in Handlers, j \in Nat : <<s, j>> \in excess => Span(j)' <= now'
    <2>1. \A j \in Nat : Span(j) \in Nat BY SpanFacts
    <2>2. \A s \in Handlers, j \in Nat : <<s, j>> \in excess => Span(j) <= now BY <1>2 DEF Ledger
    <2>3. QED BY <1>1, <1>3, <2>1, <2>2
<1>10. /\ Spell(n) \in Nat /\ Spell(n + 1) \in Nat /\ Below(n) \in Nat /\ Quota \in Nat
       /\ Below(n + 1) = Below(n) + Quota
    BY SpanFacts
<1>11. CASE failures' = failures
    <2>1. Sofar' = Sofar BY <1>3, <1>11 DEF Sofar
    <2>2. Spell(n)' <= now' BY <1>1, <1>2, <1>3, <1>10 DEF Ledger
    <2>3. Ledger(n, excess)' BY <1>1, <1>2, <1>3, <1>7, <1>9, <1>11, <2>1, <2>2 DEF Ledger
    <2>4. QED BY <1>5, <2>3 DEF GuessInv
<1>12. CASE failures'.count = 0 /\ failures.ttl <= now /\ now' = now
    <2>1. Sofar' = 0 BY <1>3, <1>10, <1>12 DEF Sofar
    <2>2. guessed <= Below(n) + Sofar + Cardinality(excess) /\ Spell(n) <= now
          /\ (failures.count > 0 => Spell(n + 1) <= failures.ttl)
        BY <1>2 DEF Ledger
    <2>3. CASE failures.count > 0
        <3>1. Spell(n + 1) <= now BY <1>10, <1>12, <2>2, <2>3, Numbers
        <3>2. guessed <= Below(n + 1) + 0 + Cardinality(excess) BY <1>8, <1>10, <2>2, Numbers
        <3>3. PICK m \in Nat : m = n + 1 OBVIOUS
        <3>4. Ledger(m, excess)'
            BY <1>1, <1>2, <1>3, <1>7, <1>9, <1>12, <2>1, <3>1, <3>2, <3>3 DEF Ledger
        <3>5. QED BY <1>5, <3>4 DEF GuessInv
    <2>4. CASE ~(failures.count > 0)
        <3>1. Sofar = 0 BY <2>4, Numbers
        <3>2. Ledger(n, excess)' BY <1>1, <1>2, <1>3, <1>7, <1>9, <1>12, <2>1, <2>2, <3>1 DEF Ledger
        <3>3. QED BY <1>5, <3>2 DEF GuessInv
    <2>5. QED BY <2>3, <2>4
<1> QED BY <1>4, <1>11, <1>12

-----------------------------------------------------------------------------
(* The limiter, as the deployment has it *)

LimiterInv ==
    /\ LimiterTyped /\ VolumeInv
    /\ WindowCauses /\ LoginCauses /\ BlocksCaused
    /\ QuietInv /\ GuessInv

LEMMA LimiterStarts == ASSUME Limiter!LimiterInit PROVE LimiterInv
<1>1. PICK chosen \in Settings : rules = chosen.rules /\ traffic = chosen.traffic
    BY DEF Limiter!LimiterInit
<1>2. [rules |-> rules, traffic |-> traffic] = chosen
    <2>1. chosen \in [rules: [Limiter!Policies -> Limiter!Policy], traffic: SUBSET Limiter!Whiles]
        BY PlatformAssumption DEF Limiter!RateLimitAssumption
    <2>2. QED BY <1>1, <2>1
<1>3. /\ MaxSeconds \in Nat /\ MaxWins \in Nat
      /\ Limiter!NoCounter \in Limiter!Counter /\ Limiter!NoBlock \in Limiter!BlockRow
      /\ Limiter!Idle \in Limiter!Handler /\ Limiter!Idle.phase = "idle"
    <2>1. MaxSeconds \in Nat /\ MaxWins \in Nat BY PlatformAssumption DEF Limiter!RateLimitAssumption
    <2>2. QED
        BY <2>1 DEF Limiter!NoCounter, Limiter!Counter, Limiter!NoBlock, Limiter!BlockRow, Limiter!Idle,
                          Limiter!Handler, Limiter!Phases
<1>4. LimiterTyped
    <2>1. Limiter!LimiterTypeOK
        BY <1>2, <1>3 DEF Limiter!LimiterInit, Limiter!LimiterTypeOK
    <2>2. HandlersOnTime BY <1>3 DEF Limiter!LimiterInit, HandlersOnTime, Limiter!Is
    <2>3. QED BY <2>1, <2>2 DEF LimiterTyped
<1>5. \A t \in Handlers : login[t].phase = "idle" BY <1>3 DEF Limiter!LimiterInit
<1>6. rules.perIp.max \in Nat /\ rules.login.max \in Nat BY <1>4, RulesTyped DEF LimiterTyped
<1>7. VolumeInv
    BY <1>5, <1>6 DEF VolumeInv, WindowsCounted, Limiter!LimiterInit, Limiter!NoCounter, Limiter!Is
<1>8. WindowCauses BY <1>5, <1>6 DEF WindowCauses, Limiter!LimiterInit, Limiter!NoCounter, Limiter!Is
<1>9. LoginCauses
    <2>1. Pending = {} BY <1>5 DEF Pending, Limiter!Is
    <2>2. Cardinality(Pending) = 0 BY <2>1, FS_EmptySet
    <2>3. QED BY <1>5, <2>2 DEF LoginCauses, Limiter!LimiterInit, Limiter!NoCounter, Limiter!Is
<1>10. BlocksCaused
    BY DEF BlocksCaused, Caused, Limiter!LimiterInit, Limiter!NoBlock, Limiter!Policies
<1>11. QuietInv BY <1>5 DEF QuietInv, Limiter!LimiterInit, Limiter!NoCounter, Limiter!Is
<1>12. GuessInv
    <2> SUFFICES ASSUME Guarded
                 PROVE  RowSound /\ \E n \in Nat, excess \in SUBSET (Handlers \X Nat) : Ledger(n, excess)
        BY DEF GuessInv
    <2>1. RowSound BY DEF RowSound, Limiter!LimiterInit, Limiter!NoBlock, Limiter!Policies
    <2>2. /\ Below(0) \in Nat /\ Spell(0) = 0 /\ Sofar \in Nat
        BY <1>4, SpanFacts, Numbers DEF Spell
    <2>3. PICK none \in SUBSET (Handlers \X Nat) : none = {} OBVIOUS
    <2>4. IsFiniteSet(none) /\ Cardinality(none) = 0 BY <2>3, FS_EmptySet
    <2>5. \A t \in Handlers : Settled(t, none) BY <1>5, <2>3 DEF Settled, Limiter!Is
    <2>6. now = 0 /\ guessed = 0 /\ failures.count = 0 BY DEF Limiter!LimiterInit, Limiter!NoCounter
    <2>7. Ledger(0, none) BY <2>2, <2>3, <2>4, <2>5, <2>6 DEF Ledger
    <2>8. QED BY <2>1, <2>7
<1> QED BY <1>4, <1>7, <1>8, <1>9, <1>10, <1>11, <1>12 DEF LimiterInv

LEMMA LimiterMoves == ASSUME LimiterInv, Limiter!LimiterNext PROVE LimiterInv'
<1>1. CASE \E t \in Handlers : Limiter!LimiterStep(t)
    BY <1>1, StepKeepsTypes, StepCaps, StepAsks, StepCauses, StepBlocksCaused, StepQuiet, StepGuesses
       DEF LimiterInv
<1>2. CASE Elsewhere
    BY <1>2, ElsewhereKeepsTypes, ElsewhereCaps, ElsewhereAsks, ElsewhereCauses,
       ElsewhereBlocksCaused,
       ElsewhereQuiet, ElsewhereGuesses
       DEF LimiterInv
<1> QED BY <1>1, <1>2, LimiterNextSplits

\* The parts that share the backend with it leave it what it is.
LEMMA FactorsKeepBackend == Factors!FactorsNext => backend' = backend
<1> SUFFICES ASSUME Factors!FactorsNext PROVE backend' = backend
    OBVIOUS
<1>1. ASSUME NEW t \in Handlers, NEW u \in Users,
             \/ Factors!OtherEdit(t, u) \/ Factors!DeleteUser(t, u)
             \/ \E s \in Secrets : Factors!TotpSetup(t, u, s) \/ Factors!TotpVerify(t, u, s) \/ Factors!TotpDisable(t, u, s)
             \/ \E code \in Secrets \cup {NoSecret} : Factors!PasswordLogin(t, u, code)
             \/ \E k \in Ceremonies, c \in Credentials : Factors!RegisterFinish(t, u, k, c)
      PROVE  backend' = backend
    BY <1>1 DEF Factors!OtherEdit, Factors!DeleteUser, Factors!TotpSetup, Factors!TotpVerify,
                Factors!TotpDisable,
                Factors!PasswordLogin, Factors!RegisterFinish
<1>2. ASSUME NEW t \in Handlers,
             \/ \E k \in Ceremonies, c \in Credentials : Factors!LoginFinish(t, k, c)
             \/ Factors!PutUser(t) \/ Factors!PutCredential(t) \/ Factors!FindByCredential(t) \/ Factors!ListPasskeys(t)
             \/ Factors!UpdateCounter(t) \/ Factors!RewriteCredential(t) \/ Factors!PasskeySession(t)
             \/ Factors!DeleteAllForUser(t) \/ Factors!DeleteListed(t) \/ Factors!DropUser(t) \/ Factors!HandlerStops(t)
      PROVE  backend' = backend
    BY <1>2 DEF Factors!LoginFinish, Factors!PutUser, Factors!PutCredential, Factors!FindByCredential,
                Factors!ListPasskeys, Factors!UpdateCounter, Factors!RewriteCredential,
                Factors!PasskeySession,
                Factors!DeleteAllForUser, Factors!DeleteListed, Factors!DropUser, Factors!HandlerStops
<1>3. ASSUME NEW k \in Ceremonies,
             \/ \E u \in Users : Factors!RegisterStart(k, u) \/ Factors!LoginStart(k, u)
             \/ Factors!DiscoverableStart(k) \/ Factors!CeremonyExpires(k)
      PROVE  backend' = backend
    BY <1>3 DEF Factors!RegisterStart, Factors!LoginStart, Factors!DiscoverableStart,
                Factors!CeremonyExpires,
                Factors!StoreCeremony
<1> QED BY <1>1, <1>2, <1>3 DEF Factors!FactorsNext

LEMMA AuditKeepsBackend == Audit!AuditNext => backend' = backend
BY DEF Audit!AuditNext, Audit!Stamp, Audit!Insert, Audit!RecordingFails, Audit!IndexCatchesUp,
       Audit!Expires,
       Audit!BeginWalk, Audit!NextPage, Audit!Ticks

LEMMA LimiterStands == ASSUME LimiterInv, UNCHANGED <<limiterOnly, backend>> PROVE LimiterInv'
<1>1. /\ UNCHANGED <<traffic, rules, now, counters, failures, blocks, cache, login>>
      /\ UNCHANGED <<admitted, asked, guessed, streak, wins, backend>>
    BY DEF limiterOnly
<1>2. LimiterTyped'
    BY <1>1 DEF LimiterInv, LimiterTyped, Limiter!LimiterTypeOK, HandlersOnTime, Limiter!Is,
                Limiter!Buckets,
                Limiter!Counter, Limiter!BlockRow, Limiter!Handler
<1>3. VolumeInv'
    BY <1>1 DEF LimiterInv, VolumeInv, WindowsCounted, RunsOut, Limiter!Is, Limiter!Disabled,
                Limiter!Bucket,
                Limiter!Buckets
<1>4. WindowCauses' /\ LoginCauses'
    BY <1>1 DEF LimiterInv, WindowCauses, LoginCauses, Pending, Limiter!Is, Limiter!Bucket,
                Limiter!Buckets
<1>5. BlocksCaused'
    BY <1>1 DEF LimiterInv, BlocksCaused, Caused, Limiter!Buckets, Limiter!Policies
<1>6. QuietInv'
    BY <1>1 DEF LimiterInv, QuietInv, Limiter!Is
<1>7. GuessInv'
    <2> SUFFICES ASSUME Guarded
                 PROVE  RowSound' /\ \E n \in Nat, excess \in SUBSET (Handlers \X Nat) : Ledger(n, excess)'
        BY <1>1 DEF GuessInv, Guarded, Limiter!Disabled
    <2>1. RowSound' BY <1>1 DEF LimiterInv, GuessInv, RowSound
    <2>2. PICK n \in Nat, excess \in SUBSET (Handlers \X Nat) : Ledger(n, excess)
        BY DEF LimiterInv, GuessInv
    <2>3. /\ \A j : Span(j)' = Span(j) /\ Span(j + 1)' = Span(j + 1)
          /\ Below(n)' = Below(n) /\ Spell(n)' = Spell(n) /\ Spell(n + 1)' = Spell(n + 1) /\ Sofar' = Sofar
        BY <1>1 DEF Span, Below, Spell, Sofar, Quota, Quiet, Barred
    <2>4. \A t \in Handlers : Past(t)' = Past(t) BY <1>1 DEF Past, Limiter!Is
    <2>5. \A t \in Handlers : Settled(t, excess)'
        BY <1>1, <2>2, <2>3, <2>4 DEF Ledger, Settled, Limiter!Is
    <2>6. Ledger(n, excess)' BY <1>1, <2>2, <2>3, <2>5 DEF Ledger
    <2>7. QED BY <2>1, <2>6
<1> QED BY <1>2, <1>3, <1>4, <1>5, <1>6, <1>7 DEF LimiterInv

LEMMA LimiterStepOrStand == LimiterInv /\ [Next]_vars => LimiterInv'
<1> SUFFICES ASSUME LimiterInv, [Next]_vars PROVE LimiterInv'
    OBVIOUS
<1>1. CASE ThrottleMoves BY <1>1, LimiterMoves DEF ThrottleMoves
<1>2. CASE ~ThrottleMoves
    <2>1. UNCHANGED limiterOnly
        BY <1>2 DEF Next, vars, FactorsMove, ConfigurationMoves, TrailMoves, GrantsMove
    <2>2. UNCHANGED backend
        BY <1>2, FactorsKeepBackend, AuditKeepsBackend
           DEF Next, vars, FactorsMove, ConfigurationMoves, TrailMoves, GrantsMove
    <2>3. QED BY <2>1, <2>2, LimiterStands
<1> QED BY <1>1, <1>2

\* At most one excess guess of a handler in each span, and no more spans or runs than time has.
LEMMA LedgerBounds ==
    ASSUME LimiterTyped, Guarded, GuessInv
    PROVE  guessed <= Limiter!GuessesAllowed
<1>1. PICK n \in Nat, excess \in SUBSET (Handlers \X Nat) : Ledger(n, excess) BY DEF GuessInv
<1>2. PICK last \in Nat : last = now \div Barred BY SpanFacts
<1>3. excess \subseteq Handlers \X (0..last)
    <2> SUFFICES ASSUME NEW x \in excess PROVE x \in Handlers \X (0..last)
        OBVIOUS
    <2>1. PICK t \in Handlers, j \in Nat : x = <<t, j>> OBVIOUS
    <2>2. j <= last BY <1>1, <1>2, <2>1, SpanFacts DEF Ledger
    <2>3. j \in 0..last BY <2>2
    <2>4. QED BY <2>1, <2>3
<1>4. /\ IsFiniteSet(0..last) /\ Cardinality(0..last) = last + 1
    <2>1. IsFiniteSet(0..last) /\ Cardinality(0..last) = IF 0 > last THEN 0 ELSE last - 0 + 1
        BY FS_Interval
    <2>2. QED BY <2>1
<1>5. PICK c \in Nat : c = Cardinality(Handlers) BY LimiterFacts, FS_CardinalityType
<1>6. IsFiniteSet(Handlers \X (0..last)) /\ Cardinality(Handlers \X (0..last)) = c * (last + 1)
    BY <1>4, <1>5, LimiterFacts, FS_Product
<1>7. Cardinality(excess) \in Nat /\ Cardinality(excess) <= c * (last + 1)
    BY <1>3, <1>6, FS_Subset, FS_CardinalityType
<1>8. PICK m \in Nat : m = now \div Quiet BY SpanFacts
<1>9. n <= m BY <1>1, <1>8, SpanFacts DEF Ledger
<1>10. PICK q \in Nat : q = Quota BY SpanFacts
<1>11. n * q <= m * q BY <1>9
<1>12. guessed <= n * q + q + c * (last + 1)
    <2>1. guessed <= n * q + Sofar + Cardinality(excess) BY <1>1, <1>10 DEF Ledger, Below
    <2>2. Sofar \in Nat /\ Sofar <= q /\ guessed \in Nat BY <1>10, Numbers
    <2>3. n * q \in Nat /\ c * (last + 1) \in Nat OBVIOUS
    <2>4. QED BY <1>7, <2>1, <2>2, <2>3
<1>13. guessed <= (1 + m) * q + (1 + last) * c
    <2>1. (1 + m) * q = m * q + q /\ (1 + last) * c = c * (last + 1) OBVIOUS
    <2>2. n * q \in Nat /\ m * q \in Nat /\ c * (last + 1) \in Nat /\ guessed \in Nat BY Numbers
    <2>3. QED BY <1>11, <1>12, <2>1, <2>2
<1>14. Limiter!GuessesAllowed = (1 + m) * q + (1 + last) * c
    BY <1>2, <1>5, <1>8, <1>10, SameCardinality DEF Limiter!GuessesAllowed, Quota, Quiet, Barred
<1> QED BY <1>13, <1>14

(***************************************************************************)
(* A throttle is neither evaded nor unearned, whatever the policies, the   *)
(* nodes and the handlers at work: no window lets more requests pass than  *)
(* its cap, no account takes more wrong passwords than its policy allows,  *)
(* behind every block stands its cause, and a quiet period resets the      *)
(* count (check, is_blocked, record_failure, trip_block, increment).       *)
(***************************************************************************)
THEOREM ThrottlesAreJust == Spec => []ThrottlingIsJust
<1>1. LimiterInv => ThrottlingIsJust
    <2> SUFFICES ASSUME LimiterInv PROVE ThrottlingIsJust
        OBVIOUS
    <2>1. Limiter!VolumeCapped
        BY DEF LimiterInv, VolumeInv, WindowsCounted, Limiter!VolumeCapped
    <2>2. Limiter!GuessesBounded
        BY LedgerBounds DEF LimiterInv, Limiter!GuessesBounded, Guarded
    <2>3. Limiter!BlockedForCause
        BY DEF LimiterInv, BlocksCaused, Caused, Limiter!BlockedForCause
    <2>4. Limiter!QuietPeriodResets
        BY DEF LimiterInv, QuietInv, Limiter!QuietPeriodResets
    <2>5. QED BY <2>1, <2>2, <2>3, <2>4 DEF ThrottlingIsJust
<1>2. Init => LimiterInv BY LimiterStarts DEF Init
<1> QED BY <1>1, <1>2, LimiterStepOrStand, PTL DEF Spec
-----------------------------------------------------------------------------
(* Second factors belong to their holders.  For secrets: not only is every *)
(* stored secret proven, so is every secret in a copy of a row that a      *)
(* handler has yet to write back.  For passkeys: whoever holds a ceremony  *)
(* has taken it, nobody else holds it and it has led nowhere yet; and the  *)
(* credential in a handler's hand is one its account enroled.              *)
Shown(u, row) == row.secret # NoSecret => <<u, row.secret>> \in scanned

SecretsAreTyped ==
    /\ accounts \in [Users -> Factors!Account]
    /\ handler \in [Handlers -> Factors!Handler]
    /\ scanned \subseteq Users \X Secrets

\* What is stored, what will be written back, and what was signed in with.
SecretsAreRight ==
    /\ \A u \in Users : Shown(u, accounts[u])
    /\ \A t \in Handlers : Factors!At(t, "put") =>
           handler[t].user \in Users /\ Shown(handler[t].user, handler[t].copy)
    /\ \A s \in signed : s.secret # NoSecret => <<s.user, s.secret>> \in scanned

Enroled(u, c) == u \in Users /\ <<u, c>> \in enroled

PasskeysAreTyped ==
    /\ passkeys \in [Users -> SUBSET Credentials]
    /\ ceremonies \in [Ceremonies -> Factors!Ceremony]
    /\ spent \in [Ceremonies -> Nat]

\* A handler past its ceremony, from where on it knows the account.
HoldsCeremony(t) == handler[t].phase \in {"attested", "find", "list", "update", "rewrite", "account"}
KnowsAccount(t) == handler[t].phase \in {"attested", "list", "update", "rewrite", "account"}

PasskeysAreRight ==
    /\ \A u \in Users : \A c \in passkeys[u] : Enroled(u, c)
    /\ \A k \in Ceremonies : ceremonies[k].kind = "named" =>
           \A c \in ceremonies[k].allowed : Enroled(ceremonies[k].user, c)
    /\ \A t \in Handlers : KnowsAccount(t) =>
           /\ Enroled(handler[t].user, handler[t].credential)
           /\ handler[t].credential \in Credentials
    /\ \A s \in signed : s.credential # NoCredential => <<s.user, s.credential>> \in enroled

\* A ceremony is in one hand at most, and then it has been taken and has led nowhere yet.
CeremoniesAreTakenOnce ==
    /\ \A k \in Ceremonies :
           spent[k] <= 1 /\ (ceremonies[k].status # "taken" => spent[k] = 0)
    /\ \A t \in Handlers : HoldsCeremony(t) =>
           /\ handler[t].ceremony \in Ceremonies
           /\ ceremonies[handler[t].ceremony].status = "taken"
           /\ spent[handler[t].ceremony] = 0
    /\ \A s, t \in Handlers :
           s # t /\ HoldsCeremony(s) /\ HoldsCeremony(t) => handler[s].ceremony # handler[t].ceremony

\* A purge knows its account, and so does whoever drops one.
PurgesAreTyped ==
    \A t \in Handlers : handler[t].phase \in {"purge", "purging", "drop"} => handler[t].user \in Users

\* The inductive invariant.
FactorsInv ==
    /\ SecretsAreTyped /\ PasskeysAreTyped /\ PurgesAreTyped
    /\ SecretsAreRight /\ PasskeysAreRight /\ CeremoniesAreTakenOnce

-----------------------------------------------------------------------------
(* Handlers *)

LEMMA IdleHandlerTyped ==
    Factors!Idle \in Factors!Handler /\ Factors!Idle.phase = "idle"
        /\ Factors!Blank \in Factors!Account /\ Factors!Blank.secret = NoSecret
BY DEF Factors!Idle, Factors!Handler, Factors!Phases, Factors!Routes, Factors!Blank, Factors!Account

\* What a handler's new state must be for the invariant, whoever else is there.
FineHandler(t, r) ==
    /\ r \in Factors!Handler
    /\ r.phase = "put" => r.user \in Users /\ Shown(r.user, r.copy)
    /\ r.phase \in {"purge", "purging", "drop"} => r.user \in Users
    /\ r.phase \in {"attested", "list", "update", "rewrite", "account"} =>
           Enroled(r.user, r.credential) /\ r.credential \in Credentials

\* A handler that holds a ceremony holds the one it has held.
SameCeremony(t, r) ==
    r.phase \in {"attested", "find", "list", "update", "rewrite", "account"} =>
        HoldsCeremony(t) /\ r.ceremony = handler[t].ceremony

\* Everything but the handlers, as the invariant speaks of it.
FactorTablesStay == UNCHANGED <<accounts, passkeys, ceremonies, scanned, enroled, signed, spent>>

\* A handler goes on; the tables stay.
LEMMA HandlerGoes ==
    ASSUME FactorsInv, NEW t \in Handlers, NEW r, FineHandler(t, r), SameCeremony(t, r),
           handler' = [handler EXCEPT ![t] = r], FactorTablesStay
    PROVE FactorsInv'
<1>1. /\ handler' \in [Handlers -> Factors!Handler]
      /\ \A s \in Handlers : handler'[s] = IF s = t THEN r ELSE handler[s]
      BY DEF FactorsInv, SecretsAreTyped, FineHandler
<1>2. SecretsAreTyped' /\ PasskeysAreTyped'
      BY <1>1 DEF FactorsInv, SecretsAreTyped, PasskeysAreTyped, FactorTablesStay
<1>3. PurgesAreTyped' BY <1>1 DEF FactorsInv, PurgesAreTyped, FineHandler
<1>4. SecretsAreRight'
      BY <1>1 DEF FactorsInv, SecretsAreRight, FactorTablesStay, FineHandler, Shown, Factors!At
<1>5. PasskeysAreRight'
      BY <1>1 DEF FactorsInv, PasskeysAreRight, FactorTablesStay, FineHandler, KnowsAccount, Enroled
<1>6. CeremoniesAreTakenOnce'
      BY <1>1 DEF FactorsInv, CeremoniesAreTakenOnce, FactorTablesStay, SameCeremony, HoldsCeremony
<1>7. QED BY <1>2, <1>3, <1>4, <1>5, <1>6 DEF FactorsInv

LEMMA HandlerEndKeeps ==
    ASSUME FactorsInv, NEW t \in Handlers, Factors!Ends(t), FactorTablesStay
    PROVE FactorsInv'
<1>1. FineHandler(t, Factors!Idle) /\ SameCeremony(t, Factors!Idle)
      BY IdleHandlerTyped DEF FineHandler, SameCeremony
<1>2. QED BY <1>1, HandlerGoes DEF Factors!Ends

\* A handler that only changes its phase.
LEMMA HandlerMoved ==
    ASSUME FactorsInv, NEW t \in Handlers, NEW phase \in Factors!Phases
    PROVE LET r == [handler[t] EXCEPT !.phase = phase] IN
          /\ r \in Factors!Handler /\ r.phase = phase /\ r.user = handler[t].user
          /\ r.credential = handler[t].credential /\ r.ceremony = handler[t].ceremony
          /\ r.copy = handler[t].copy
BY DEF FactorsInv, SecretsAreTyped, Factors!Handler

-----------------------------------------------------------------------------
(* Secrets *)

\* The row a handler has made of the one it read: its secret is the old one, or a new one that
\* was proven, or none.
LEMMA WriteBackKeeps ==
    ASSUME FactorsInv, NEW t \in Handlers, NEW route \in Factors!Routes, NEW u \in Users,
           NEW copy \in Factors!Account,
           Factors!WritesBack(t, route, u, copy), Shown(u, copy)',
           UNCHANGED <<accounts, passkeys, ceremonies, enroled, signed, spent>>,
           scanned \subseteq scanned', scanned' \subseteq Users \X Secrets
    PROVE FactorsInv'
<1> DEFINE r == [Factors!Idle EXCEPT !.phase = "put", !.route = route, !.user = u, !.copy = copy]
<1>1. r \in Factors!Handler /\ r.phase = "put" /\ r.user = u /\ r.copy = copy
      BY DEF Factors!Idle, Factors!Handler, Factors!Phases
<1>2. handler' = [handler EXCEPT ![t] = r] BY DEF Factors!WritesBack
<1> HIDE DEF r
<1>3. /\ handler' \in [Handlers -> Factors!Handler]
      /\ \A s \in Handlers : handler'[s] = IF s = t THEN r ELSE handler[s]
      BY <1>1, <1>2 DEF FactorsInv, SecretsAreTyped
<1>4. SecretsAreTyped' /\ PasskeysAreTyped'
      BY <1>3 DEF FactorsInv, SecretsAreTyped, PasskeysAreTyped
<1>5. PurgesAreTyped' BY <1>1, <1>3 DEF FactorsInv, PurgesAreTyped
<1>6. SecretsAreRight'
      BY <1>1, <1>3 DEF FactorsInv, SecretsAreRight, Shown, Factors!At
<1>7. PasskeysAreRight' BY <1>1, <1>3 DEF FactorsInv, PasskeysAreRight, KnowsAccount, Enroled
<1>8. CeremoniesAreTakenOnce' BY <1>1, <1>3 DEF FactorsInv, CeremoniesAreTakenOnce, HoldsCeremony
<1>9. QED BY <1>4, <1>5, <1>6, <1>7, <1>8 DEF FactorsInv

LEMMA SetupKeeps ==
    ASSUME FactorsInv, NEW t \in Handlers, NEW u \in Users, NEW s \in Secrets,
           Factors!TotpSetup(t, u, s) \/ Factors!TotpVerify(t, u, s) \/ Factors!TotpDisable(t, u, s)
    PROVE FactorsInv'
<1>1. accounts[u] \in Factors!Account /\ Shown(u, accounts[u])
      BY DEF FactorsInv, SecretsAreTyped, SecretsAreRight
<1>2. CASE Factors!TotpSetup(t, u, s)
      <2> DEFINE copy == [accounts[u] EXCEPT !.pending = s]
      <2>1. copy \in Factors!Account /\ copy.secret = accounts[u].secret BY <1>1 DEF Factors!Account
      <2>2. scanned' = scanned BY <1>2 DEF Factors!TotpSetup
      <2>3. Shown(u, copy)' BY <1>1, <1>2, <2>1, <2>2 DEF Shown, Factors!TotpSetup
      <2>4. "totpSetup" \in Factors!Routes BY DEF Factors!Routes
      <2>5. QED BY <1>2, <2>1, <2>2, <2>3, <2>4, WriteBackKeeps
                DEF Factors!TotpSetup, FactorsInv, SecretsAreTyped
<1>3. CASE Factors!TotpVerify(t, u, s)
      <2> DEFINE copy == [accounts[u] EXCEPT !.secret = s, !.pending = NoSecret]
      <2>1. copy \in Factors!Account /\ copy.secret = s BY <1>1 DEF Factors!Account
      <2>2. scanned' = scanned \cup {<<u, s>>} BY <1>3 DEF Factors!TotpVerify
      <2>3. Shown(u, copy)' BY <1>3, <2>1, <2>2 DEF Shown, Factors!TotpVerify
      <2>4. "totpVerify" \in Factors!Routes BY DEF Factors!Routes
      <2>5. QED BY <1>3, <2>1, <2>2, <2>3, <2>4, WriteBackKeeps
                DEF Factors!TotpVerify, FactorsInv, SecretsAreTyped
<1>4. CASE Factors!TotpDisable(t, u, s)
      <2> DEFINE copy == [accounts[u] EXCEPT !.secret = NoSecret, !.pending = NoSecret]
      <2>1. copy \in Factors!Account /\ copy.secret = NoSecret BY <1>1 DEF Factors!Account
      <2>2. scanned' = scanned BY <1>4 DEF Factors!TotpDisable
      <2>3. Shown(u, copy)' BY <1>4, <2>1 DEF Shown, Factors!TotpDisable
      <2>4. "totpDisable" \in Factors!Routes BY DEF Factors!Routes
      <2>5. QED BY <1>4, <2>1, <2>2, <2>3, <2>4, WriteBackKeeps
                DEF Factors!TotpDisable, FactorsInv, SecretsAreTyped
<1>5. QED BY <1>2, <1>3, <1>4

LEMMA OtherEditKeeps ==
    ASSUME FactorsInv, NEW t \in Handlers, NEW u \in Users, Factors!OtherEdit(t, u)
    PROVE FactorsInv'
<1>1. accounts[u] \in Factors!Account /\ Shown(u, accounts[u])
      BY DEF FactorsInv, SecretsAreTyped, SecretsAreRight
<1>2. scanned' = scanned /\ accounts' = accounts BY DEF Factors!OtherEdit
<1>3. Shown(u, accounts[u])' BY <1>1, <1>2 DEF Shown
<1>4. "profile" \in Factors!Routes BY DEF Factors!Routes
<1>5. QED BY <1>1, <1>2, <1>3, <1>4, WriteBackKeeps DEF Factors!OtherEdit, FactorsInv, SecretsAreTyped

\* A row is written whose secret was proven, or that has none.
LEMMA AccountWritten ==
    ASSUME FactorsInv, NEW t \in Handlers, NEW u \in Users, NEW row \in Factors!Account,
           Shown(u, row),
           accounts' = [accounts EXCEPT ![u] = row], Factors!Ends(t),
           UNCHANGED <<passkeys, ceremonies, scanned, enroled, signed, spent>>
    PROVE FactorsInv'
<1>1. /\ accounts' \in [Users -> Factors!Account]
      /\ \A v \in Users : accounts'[v] = IF v = u THEN row ELSE accounts[v]
      BY DEF FactorsInv, SecretsAreTyped
<1>2. /\ handler' \in [Handlers -> Factors!Handler]
      /\ \A s \in Handlers : handler'[s] = IF s = t THEN Factors!Idle ELSE handler[s]
      BY IdleHandlerTyped DEF FactorsInv, SecretsAreTyped, Factors!Ends
<1>3. SecretsAreTyped' /\ PasskeysAreTyped'
      BY <1>1, <1>2 DEF FactorsInv, SecretsAreTyped, PasskeysAreTyped
<1>4. PurgesAreTyped' BY <1>2, IdleHandlerTyped DEF FactorsInv, PurgesAreTyped
<1>5. SecretsAreRight'
      BY <1>1, <1>2, IdleHandlerTyped DEF FactorsInv, SecretsAreRight, Shown, Factors!At
<1>6. PasskeysAreRight'
      BY <1>2, IdleHandlerTyped DEF FactorsInv, PasskeysAreRight, KnowsAccount, Enroled
<1>7. CeremoniesAreTakenOnce'
      BY <1>2, IdleHandlerTyped DEF FactorsInv, CeremoniesAreTakenOnce, HoldsCeremony
<1>8. QED BY <1>3, <1>4, <1>5, <1>6, <1>7 DEF FactorsInv

LEMMA PutUserKeeps == ASSUME FactorsInv, NEW t \in Handlers, Factors!PutUser(t) PROVE FactorsInv'
<1>1. /\ handler[t].user \in Users /\ handler[t].copy \in Factors!Account
      /\ Shown(handler[t].user, handler[t].copy)
      BY DEF Factors!PutUser, Factors!At, FactorsInv, SecretsAreTyped, SecretsAreRight,
         Factors!Handler
<1>2. QED BY <1>1, AccountWritten DEF Factors!PutUser

LEMMA DropUserKeeps == ASSUME FactorsInv, NEW t \in Handlers, Factors!DropUser(t) PROVE FactorsInv'
<1>1. handler[t].user \in Users BY DEF Factors!DropUser, Factors!At, FactorsInv, PurgesAreTyped
<1>2. Shown(handler[t].user, Factors!Blank) BY IdleHandlerTyped DEF Shown
<1>3. QED BY <1>1, <1>2, IdleHandlerTyped, AccountWritten DEF Factors!DropUser

LEMMA PasswordLoginKeeps ==
    ASSUME FactorsInv, NEW t \in Handlers, NEW u \in Users,
           NEW code \in Secrets \cup {NoSecret}, Factors!PasswordLogin(t, u, code)
    PROVE FactorsInv'
<1> DEFINE s == [user |-> u, secret |-> accounts[u].secret, credential |-> NoCredential]
<1>1. signed' = signed \cup {s} BY DEF Factors!PasswordLogin
<1>2. s.user = u /\ s.secret = accounts[u].secret /\ s.credential = NoCredential OBVIOUS
<1>3. s.secret # NoSecret => <<s.user, s.secret>> \in scanned
      BY <1>2 DEF FactorsInv, SecretsAreRight, Shown
<1> HIDE DEF s
<1>4. UNCHANGED <<accounts, passkeys, ceremonies, handler, scanned, enroled, spent>>
      BY DEF Factors!PasswordLogin
<1>5. SecretsAreTyped' /\ PasskeysAreTyped' /\ PurgesAreTyped'
      BY <1>4 DEF FactorsInv, SecretsAreTyped, PasskeysAreTyped, PurgesAreTyped
<1>6. SecretsAreRight'
      BY <1>1, <1>3, <1>4 DEF FactorsInv, SecretsAreRight, Shown, Factors!At
<1>7. PasskeysAreRight'
      BY <1>1, <1>2, <1>4 DEF FactorsInv, PasskeysAreRight, KnowsAccount, Enroled
<1>8. CeremoniesAreTakenOnce' BY <1>4 DEF FactorsInv, CeremoniesAreTakenOnce, HoldsCeremony
<1>9. QED BY <1>5, <1>6, <1>7, <1>8 DEF FactorsInv

-----------------------------------------------------------------------------
(* Ceremonies *)

\* Rows that neither accounts nor passkeys are concerned with.
SecretsStay == UNCHANGED <<accounts, scanned>>

\* A handler that is idle takes a ceremony, or finds it gone; whatever it takes nobody else holds,
\* and it led nowhere.
LEMMA TakenByHand ==
    ASSUME FactorsInv, NEW t \in Handlers, Factors!At(t, "idle"), NEW k \in Ceremonies,
           ceremonies[k].status # "unused", Factors!TakeCeremony(k), SecretsStay,
           UNCHANGED <<passkeys, signed, spent>>, enroled \subseteq enroled',
           handler' = handler \/
               (\E r \in Factors!Handler :
                   /\ handler' = [handler EXCEPT ![t] = r]
                   /\ Factors!Taken(k)
                   /\ r.phase \in {"attested", "find", "update"} /\ r.ceremony = k
                   /\ r.phase # "find" =>
                          r.user \in Users /\ <<r.user, r.credential>> \in enroled'
                          /\ r.credential \in Credentials)
    PROVE FactorsInv'
<1>1. /\ ceremonies' \in [Ceremonies -> Factors!Ceremony]
      /\ \A l \in Ceremonies : /\ ceremonies'[l].kind = ceremonies[l].kind
                               /\ ceremonies'[l].user = ceremonies[l].user
                               /\ ceremonies'[l].allowed = ceremonies[l].allowed
                               /\ l # k => ceremonies'[l].status = ceremonies[l].status
      /\ ceremonies'[k].status = "taken"
      BY DEF Factors!TakeCeremony, FactorsInv, PasskeysAreTyped, Factors!Ceremony
<1>2. Factors!Taken(k) => ceremonies[k].status # "taken" BY DEF Factors!Taken
<1>3. CASE handler' = handler
      <2>1. SecretsAreTyped' /\ PasskeysAreTyped' /\ PurgesAreTyped'
            BY <1>1, <1>3 DEF FactorsInv, SecretsAreTyped, PasskeysAreTyped, PurgesAreTyped,
               SecretsStay
      <2>2. SecretsAreRight' BY <1>3 DEF FactorsInv, SecretsAreRight, Shown, Factors!At, SecretsStay
      <2>3. PasskeysAreRight' BY <1>1, <1>3 DEF FactorsInv, PasskeysAreRight, KnowsAccount, Enroled
      <2>4. CeremoniesAreTakenOnce'
            BY <1>1, <1>3 DEF FactorsInv, CeremoniesAreTakenOnce, HoldsCeremony
      <2>5. QED BY <2>1, <2>2, <2>3, <2>4 DEF FactorsInv
<1>4. ASSUME NEW r \in Factors!Handler, handler' = [handler EXCEPT ![t] = r], Factors!Taken(k),
             r.phase \in {"attested", "find", "update"}, r.ceremony = k,
             r.phase # "find" => r.user \in Users /\ <<r.user, r.credential>> \in enroled'
                                 /\ r.credential \in Credentials
      PROVE  FactorsInv'
      <2>1. /\ handler' \in [Handlers -> Factors!Handler]
            /\ \A s \in Handlers : handler'[s] = IF s = t THEN r ELSE handler[s]
            BY <1>4 DEF FactorsInv, SecretsAreTyped
      <2>2. SecretsAreTyped' /\ PasskeysAreTyped'
            BY <1>1, <2>1 DEF FactorsInv, SecretsAreTyped, PasskeysAreTyped, SecretsStay
      <2>3. PurgesAreTyped' BY <1>4, <2>1 DEF FactorsInv, PurgesAreTyped
      <2>4. SecretsAreRight'
            BY <1>4, <2>1 DEF FactorsInv, SecretsAreRight, Shown, Factors!At, SecretsStay
      <2>5. PasskeysAreRight'
            BY <1>1, <1>4, <2>1 DEF FactorsInv, PasskeysAreRight, KnowsAccount, Enroled
      <2>6. spent[k] = 0 BY <1>2, <1>4 DEF FactorsInv, CeremoniesAreTakenOnce
      <2>7. \A s \in Handlers : HoldsCeremony(s) => handler[s].ceremony # k
            BY <1>2, <1>4 DEF FactorsInv, CeremoniesAreTakenOnce
      <2>8. CeremoniesAreTakenOnce'
            BY <1>1, <1>4, <2>1, <2>6, <2>7 DEF FactorsInv, CeremoniesAreTakenOnce, HoldsCeremony
      <2>9. QED BY <2>2, <2>3, <2>4, <2>5, <2>8 DEF FactorsInv
<1>5. QED BY <1>3, <1>4

LEMMA RegisterFinishKeeps ==
    ASSUME FactorsInv, NEW t \in Handlers, NEW u \in Users, NEW k \in Ceremonies,
           NEW c \in Credentials,
           Factors!RegisterFinish(t, u, k, c)
    PROVE FactorsInv'
<1> DEFINE r == [Factors!Idle EXCEPT !.phase = "attested", !.route = "register", !.credential = c,
                             !.user = ceremonies[k].user, !.ceremony = k]
<1>1. /\ Factors!At(t, "idle") /\ ceremonies[k].status # "unused"
      /\ Factors!TakeCeremony(k) /\ SecretsStay
      /\ UNCHANGED <<passkeys, signed, spent>>
      BY DEF Factors!RegisterFinish, Factors!Calls, SecretsStay
<1>2. CASE UNCHANGED <<handler, enroled>> BY <1>1, <1>2, TakenByHand
<1>3. CASE /\ Factors!Taken(k) /\ ceremonies[k].user = u
           /\ handler' = [handler EXCEPT ![t] = r]
           /\ enroled' = enroled \cup {<<u, c>>}
      <2>1. /\ r \in Factors!Handler /\ r.phase = "attested" /\ r.user = u /\ r.credential = c
            /\ r.ceremony = k
            BY <1>3 DEF Factors!Idle, Factors!Handler, Factors!Phases, Factors!Routes,
               Factors!Blank, Factors!Account
      <2> HIDE DEF r
      <2>2. enroled \subseteq enroled' /\ <<r.user, r.credential>> \in enroled'
            BY <1>3, <2>1
      <2>3. QED BY <1>1, <1>3, <2>1, <2>2, TakenByHand
<1>4. QED BY <1>2, <1>3 DEF Factors!RegisterFinish

LEMMA LoginFinishKeeps ==
    ASSUME FactorsInv, NEW t \in Handlers, NEW k \in Ceremonies, NEW c \in Credentials,
           Factors!LoginFinish(t, k, c)
    PROVE FactorsInv'
<1> DEFINE errand == ceremonies[k].kind
           phase == IF errand = "named" THEN "update" ELSE "find"
           r == [Factors!Idle EXCEPT !.phase = phase, !.route = errand, !.user = ceremonies[k].user,
                             !.credential = c, !.ceremony = k]
<1>1. /\ Factors!At(t, "idle") /\ ceremonies[k].status # "unused"
      /\ Factors!TakeCeremony(k) /\ SecretsStay
      /\ UNCHANGED <<passkeys, signed, spent, enroled>>
      BY DEF Factors!LoginFinish, SecretsStay
<1>2. CASE UNCHANGED handler BY <1>1, <1>2, TakenByHand
<1>3. CASE /\ Factors!Taken(k)
           /\ errand = "discoverable" \/ (errand = "named" /\ c \in ceremonies[k].allowed)
           /\ handler' = [handler EXCEPT ![t] = r]
      <2>1. /\ r.phase = phase /\ r.user = ceremonies[k].user
            /\ r.credential = c /\ r.ceremony = k
            BY DEF Factors!Idle
      <2>2. errand \in Factors!Routes /\ ceremonies[k].user \in Users \cup {NoUser}
            BY <1>3 DEF FactorsInv, PasskeysAreTyped, Factors!Ceremony, Factors!Routes
      <2>3. phase \in Factors!Phases BY DEF Factors!Phases
      <2>4. r \in Factors!Handler BY <2>2, <2>3, IdleHandlerTyped DEF Factors!Handler
      <2>5. r.phase # "find" => r.user \in Users /\ <<r.user, r.credential>> \in enroled
            BY <1>3, <2>1 DEF FactorsInv, PasskeysAreRight, Enroled
      <2>6. r.phase \in {"attested", "find", "update"} BY <2>1
      <2> HIDE DEF r
      <2>7. QED BY <1>1, <1>3, <2>1, <2>4, <2>5, <2>6, TakenByHand
<1>4. QED BY <1>2, <1>3 DEF Factors!LoginFinish

\* A ceremony that nobody has taken is started, or expires; what it allows was enroled.
LEMMA CeremonyWritten ==
    ASSUME FactorsInv, NEW k \in Ceremonies, ceremonies[k].status # "taken",
           NEW row \in Factors!Ceremony,
           ceremonies' = [ceremonies EXCEPT ![k] = row],
           row.kind = "named" => \A c \in row.allowed : Enroled(row.user, c),
           UNCHANGED <<accounts, passkeys, handler, scanned, enroled, signed, spent>>
    PROVE FactorsInv'
<1>1. /\ ceremonies' \in [Ceremonies -> Factors!Ceremony]
      /\ \A l \in Ceremonies : ceremonies'[l] = IF l = k THEN row ELSE ceremonies[l]
      BY DEF FactorsInv, PasskeysAreTyped
<1>2. SecretsAreTyped' /\ PasskeysAreTyped' /\ PurgesAreTyped'
      BY <1>1 DEF FactorsInv, SecretsAreTyped, PasskeysAreTyped, PurgesAreTyped
<1>3. SecretsAreRight' BY DEF FactorsInv, SecretsAreRight, Shown, Factors!At
<1>4. PasskeysAreRight' BY <1>1 DEF FactorsInv, PasskeysAreRight, KnowsAccount, Enroled
<1>5. \A t \in Handlers : HoldsCeremony(t) => handler[t].ceremony # k
      BY DEF FactorsInv, CeremoniesAreTakenOnce
<1>6. CeremoniesAreTakenOnce' BY <1>1, <1>5 DEF FactorsInv, CeremoniesAreTakenOnce, HoldsCeremony
<1>7. QED BY <1>2, <1>3, <1>4, <1>6 DEF FactorsInv

LEMMA StartKeeps ==
    ASSUME FactorsInv, NEW k \in Ceremonies,
           \/ Factors!DiscoverableStart(k)
           \/ \E u \in Users : Factors!RegisterStart(k, u) \/ Factors!LoginStart(k, u)
    PROVE FactorsInv'
<1>1. ASSUME NEW errand \in {"register", "named", "discoverable"}, NEW u \in Users \cup {NoUser},
             NEW allowed \in SUBSET Credentials, Factors!StoreCeremony(k, errand, u, allowed),
             errand = "named" => \A c \in allowed : Enroled(u, c)
      PROVE  FactorsInv'
      <2> DEFINE row == [status |-> "open", kind |-> errand, user |-> u, allowed |-> allowed]
      <2>1. row \in Factors!Ceremony BY DEF Factors!Ceremony
      <2>2. row.kind = "named" => \A c \in row.allowed : Enroled(row.user, c) BY <1>1
      <2>3. QED BY <1>1, <2>1, <2>2, CeremonyWritten DEF Factors!StoreCeremony
<1>2. CASE Factors!DiscoverableStart(k) BY <1>1, <1>2 DEF Factors!DiscoverableStart
<1>3. ASSUME NEW u \in Users, Factors!RegisterStart(k, u) PROVE FactorsInv'
      BY <1>1, <1>3 DEF Factors!RegisterStart
<1>4. ASSUME NEW u \in Users, Factors!LoginStart(k, u) PROVE FactorsInv'
      <2>1. passkeys[u] \in SUBSET Credentials /\ \A c \in passkeys[u] : Enroled(u, c)
            BY DEF FactorsInv, PasskeysAreTyped, PasskeysAreRight
      <2>2. QED BY <1>1, <1>4, <2>1 DEF Factors!LoginStart
<1>5. QED BY <1>2, <1>3, <1>4

LEMMA ExpiryKeeps ==
    ASSUME FactorsInv, NEW k \in Ceremonies, Factors!CeremonyExpires(k)
    PROVE FactorsInv'
<1> DEFINE row == [ceremonies[k] EXCEPT !.status = "expired"]
<1>1. /\ row \in Factors!Ceremony /\ row.kind = ceremonies[k].kind
      /\ row.user = ceremonies[k].user /\ row.allowed = ceremonies[k].allowed
      BY DEF FactorsInv, PasskeysAreTyped, Factors!Ceremony
<1>2. row.kind = "named" => \A c \in row.allowed : Enroled(row.user, c)
      BY <1>1 DEF FactorsInv, PasskeysAreRight
<1>3. ceremonies' = [ceremonies EXCEPT ![k] = row] BY DEF Factors!CeremonyExpires
<1> HIDE DEF row
<1>4. QED BY <1>1, <1>2, <1>3, CeremonyWritten DEF Factors!CeremonyExpires

-----------------------------------------------------------------------------
(* Credentials *)

\* The passkeys of one account change, to ones it enroled, while a handler goes on.
LEMMA PasskeysWritten ==
    ASSUME FactorsInv, NEW t \in Handlers, NEW r, FineHandler(t, r), SameCeremony(t, r),
           handler' = [handler EXCEPT ![t] = r],
           NEW u \in Users, NEW S \in SUBSET Credentials, \A c \in S : Enroled(u, c),
           passkeys' = [passkeys EXCEPT ![u] = S],
           UNCHANGED <<accounts, ceremonies, scanned, enroled, signed, spent>>
    PROVE FactorsInv'
<1>1. /\ handler' \in [Handlers -> Factors!Handler]
      /\ \A s \in Handlers : handler'[s] = IF s = t THEN r ELSE handler[s]
      BY DEF FactorsInv, SecretsAreTyped, FineHandler
<1>2. /\ passkeys' \in [Users -> SUBSET Credentials]
      /\ \A v \in Users : passkeys'[v] = IF v = u THEN S ELSE passkeys[v]
      BY DEF FactorsInv, PasskeysAreTyped
<1>3. SecretsAreTyped' /\ PasskeysAreTyped'
      BY <1>1, <1>2 DEF FactorsInv, SecretsAreTyped, PasskeysAreTyped
<1>4. PurgesAreTyped' BY <1>1 DEF FactorsInv, PurgesAreTyped, FineHandler
<1>5. SecretsAreRight' BY <1>1 DEF FactorsInv, SecretsAreRight, FineHandler, Shown, Factors!At
<1>6. PasskeysAreRight'
      BY <1>1, <1>2 DEF FactorsInv, PasskeysAreRight, FineHandler, KnowsAccount, Enroled
<1>7. CeremoniesAreTakenOnce'
      BY <1>1 DEF FactorsInv, CeremoniesAreTakenOnce, SameCeremony, HoldsCeremony
<1>8. QED BY <1>3, <1>4, <1>5, <1>6, <1>7 DEF FactorsInv

\* The ceremony in a handler's hand leads where it leads, and the handler is done.
LEMMA SpentOnce ==
    ASSUME FactorsInv, NEW t \in Handlers, HoldsCeremony(t), Factors!Ends(t),
           spent' = [spent EXCEPT ![handler[t].ceremony] = @ + 1], UNCHANGED ceremonies
    PROVE /\ CeremoniesAreTakenOnce'
          /\ spent' \in [Ceremonies -> Nat]
          /\ handler' \in [Handlers -> Factors!Handler]
          /\ \A s \in Handlers : handler'[s] = IF s = t THEN Factors!Idle ELSE handler[s]
<1> DEFINE k == handler[t].ceremony
<1>1. k \in Ceremonies /\ ceremonies[k].status = "taken" /\ spent[k] = 0
      BY DEF FactorsInv, CeremoniesAreTakenOnce
<1>2. /\ spent' \in [Ceremonies -> Nat]
      /\ \A l \in Ceremonies : spent'[l] = IF l = k THEN 1 ELSE spent[l]
      BY <1>1 DEF FactorsInv, PasskeysAreTyped
<1>3. /\ handler' \in [Handlers -> Factors!Handler]
      /\ \A s \in Handlers : handler'[s] = IF s = t THEN Factors!Idle ELSE handler[s]
      BY IdleHandlerTyped DEF FactorsInv, SecretsAreTyped, Factors!Ends
<1>4. \A s \in Handlers : HoldsCeremony(s) /\ s # t => handler[s].ceremony # k
      BY DEF FactorsInv, CeremoniesAreTakenOnce
<1>5. CeremoniesAreTakenOnce'
      BY <1>1, <1>2, <1>3, <1>4, IdleHandlerTyped
         DEF FactorsInv, CeremoniesAreTakenOnce, HoldsCeremony
<1>6. QED BY <1>2, <1>3, <1>5

LEMMA PutCredentialKeeps ==
    ASSUME FactorsInv, NEW t \in Handlers, Factors!PutCredential(t)
    PROVE FactorsInv'
<1> DEFINE u == handler[t].user
           c == handler[t].credential
<1>1. HoldsCeremony(t) /\ KnowsAccount(t)
      BY DEF Factors!PutCredential, Factors!At, HoldsCeremony, KnowsAccount
<1>2. Enroled(u, c) /\ c \in Credentials BY <1>1 DEF FactorsInv, PasskeysAreRight
<1>3. /\ CeremoniesAreTakenOnce'
      /\ spent' \in [Ceremonies -> Nat]
      /\ handler' \in [Handlers -> Factors!Handler]
      /\ \A s \in Handlers : handler'[s] = IF s = t THEN Factors!Idle ELSE handler[s]
      BY <1>1, SpentOnce DEF Factors!PutCredential
<1>4. /\ passkeys' \in [Users -> SUBSET Credentials]
      /\ \A v \in Users : passkeys'[v] = IF v = u THEN passkeys[v] \cup {c} ELSE passkeys[v]
      BY <1>2 DEF Factors!PutCredential, FactorsInv, PasskeysAreTyped, Enroled
<1>5. UNCHANGED <<accounts, ceremonies, scanned, enroled, signed>> BY DEF Factors!PutCredential
<1>6. SecretsAreTyped' /\ PasskeysAreTyped'
      BY <1>3, <1>4, <1>5 DEF FactorsInv, SecretsAreTyped, PasskeysAreTyped
<1>7. PurgesAreTyped' BY <1>3, IdleHandlerTyped DEF FactorsInv, PurgesAreTyped
<1>8. SecretsAreRight'
      BY <1>3, <1>5, IdleHandlerTyped DEF FactorsInv, SecretsAreRight, Shown, Factors!At
<1>9. PasskeysAreRight'
      BY <1>2, <1>3, <1>4, <1>5, IdleHandlerTyped, ZenonT(60)
         DEF FactorsInv, PasskeysAreRight, KnowsAccount, Enroled
<1>10. QED BY <1>3, <1>6, <1>7, <1>8, <1>9 DEF FactorsInv

LEMMA PasskeySessionKeeps ==
    ASSUME FactorsInv, NEW t \in Handlers, Factors!PasskeySession(t)
    PROVE FactorsInv'
<1> DEFINE u == handler[t].user
           c == handler[t].credential
           s == [user |-> u, secret |-> NoSecret, credential |-> c]
<1>1. HoldsCeremony(t) /\ KnowsAccount(t)
      BY DEF Factors!PasskeySession, Factors!At, HoldsCeremony, KnowsAccount
<1>2. Enroled(u, c) BY <1>1 DEF FactorsInv, PasskeysAreRight
<1>3. Factors!Ends(t) /\ UNCHANGED <<accounts, passkeys, ceremonies, scanned, enroled>>
      BY DEF Factors!PasskeySession
<1>4. CASE UNCHANGED <<signed, spent>> BY <1>3, <1>4, HandlerEndKeeps DEF FactorTablesStay
<1>5. CASE /\ signed' = signed \cup {s}
           /\ spent' = [spent EXCEPT ![handler[t].ceremony] = @ + 1]
      <2>1. /\ CeremoniesAreTakenOnce'
            /\ spent' \in [Ceremonies -> Nat]
            /\ handler' \in [Handlers -> Factors!Handler]
            /\ \A x \in Handlers : handler'[x] = IF x = t THEN Factors!Idle ELSE handler[x]
            BY <1>1, <1>3, <1>5, SpentOnce
      <2>2. s.user = u /\ s.secret = NoSecret /\ s.credential = c OBVIOUS
      <2> HIDE DEF s
      <2>3. SecretsAreTyped' /\ PasskeysAreTyped'
            BY <1>3, <2>1 DEF FactorsInv, SecretsAreTyped, PasskeysAreTyped
      <2>4. PurgesAreTyped' BY <2>1, IdleHandlerTyped DEF FactorsInv, PurgesAreTyped
      <2>5. SecretsAreRight'
            BY <1>3, <1>5, <2>1, <2>2, IdleHandlerTyped
               DEF FactorsInv, SecretsAreRight, Shown, Factors!At
      <2>6. PasskeysAreRight'
            BY <1>2, <1>3, <1>5, <2>1, <2>2, IdleHandlerTyped
               DEF FactorsInv, PasskeysAreRight, KnowsAccount, Enroled
      <2>7. QED BY <2>1, <2>3, <2>4, <2>5, <2>6 DEF FactorsInv
<1>6. QED BY <1>4, <1>5 DEF Factors!PasskeySession

\* A handler whose account is known moves to another await of the same sign-in.
LEMMA HandlerGoesOn ==
    ASSUME FactorsInv, NEW t \in Handlers, NEW phase \in {"update", "rewrite", "account"},
           KnowsAccount(t)
    PROVE /\ FineHandler(t, [handler[t] EXCEPT !.phase = phase])
          /\ SameCeremony(t, [handler[t] EXCEPT !.phase = phase])
<1> DEFINE r == [handler[t] EXCEPT !.phase = phase]
<1>1. phase \in Factors!Phases BY DEF Factors!Phases
<1>2. /\ r \in Factors!Handler /\ r.phase = phase /\ r.user = handler[t].user
      /\ r.credential = handler[t].credential /\ r.ceremony = handler[t].ceremony
      BY <1>1, HandlerMoved
<1>3. HoldsCeremony(t) BY DEF KnowsAccount, HoldsCeremony
<1>4. Enroled(handler[t].user, handler[t].credential) /\ handler[t].credential \in Credentials
      BY DEF FactorsInv, PasskeysAreRight
<1> HIDE DEF r
<1>5. FineHandler(t, r) /\ SameCeremony(t, r) BY <1>2, <1>3, <1>4 DEF FineHandler, SameCeremony
<1>6. QED BY <1>5 DEF r

LEMMA SignInKeeps ==
    ASSUME FactorsInv, NEW t \in Handlers, Factors!ListPasskeys(t) \/ Factors!UpdateCounter(t)
    PROVE FactorsInv'
<1>1. FactorTablesStay /\ KnowsAccount(t)
      BY DEF FactorTablesStay, Factors!ListPasskeys, Factors!UpdateCounter, Factors!At, KnowsAccount
<1>2. CASE Factors!Ends(t) BY <1>1, <1>2, HandlerEndKeeps
<1>3. ASSUME NEW phase \in {"update", "rewrite", "account"}, Factors!To(t, phase) PROVE FactorsInv'
      BY <1>1, <1>3, HandlerGoesOn, HandlerGoes DEF Factors!To
<1>4. QED BY <1>2, <1>3 DEF Factors!ListPasskeys, Factors!UpdateCounter

LEMMA RewriteKeeps ==
    ASSUME FactorsInv, NEW t \in Handlers, Factors!RewriteCredential(t)
    PROVE FactorsInv'
<1> DEFINE u == handler[t].user
           S == passkeys[u] \cup {handler[t].credential}
<1>1. KnowsAccount(t) BY DEF Factors!RewriteCredential, Factors!At, KnowsAccount
<1>2. u \in Users /\ S \in SUBSET Credentials /\ \A c \in S : Enroled(u, c)
      BY <1>1 DEF FactorsInv, PasskeysAreTyped, PasskeysAreRight, Enroled
<1>3. passkeys' = [passkeys EXCEPT ![u] = S] BY DEF Factors!RewriteCredential
<1> HIDE DEF S
<1>4. QED BY <1>1, <1>2, <1>3, HandlerGoesOn, PasskeysWritten
      DEF Factors!RewriteCredential, Factors!To

LEMMA FindKeeps ==
    ASSUME FactorsInv, NEW t \in Handlers, Factors!FindByCredential(t)
    PROVE FactorsInv'
<1>1. FactorTablesStay BY DEF FactorTablesStay, Factors!FindByCredential
<1>2. CASE Factors!Ends(t) BY <1>1, <1>2, HandlerEndKeeps
<1>3. ASSUME NEW u \in Users, handler[t].credential \in passkeys[u], Factors!At(t, "find"),
             handler' = [handler EXCEPT ![t].user = u, ![t].phase = "list"]
      PROVE  FactorsInv'
      <2> DEFINE r == [handler[t] EXCEPT !.user = u, !.phase = "list"]
      <2>0. "list" \in Factors!Phases BY DEF Factors!Phases
      <2>1. /\ r \in Factors!Handler /\ r.phase = "list" /\ r.user = u
            /\ r.credential = handler[t].credential /\ r.ceremony = handler[t].ceremony
            BY <2>0 DEF FactorsInv, SecretsAreTyped, Factors!Handler
      <2>2. handler' = [handler EXCEPT ![t] = r]
            BY <1>3 DEF FactorsInv, SecretsAreTyped, Factors!Handler
      <2>3. Enroled(u, r.credential) /\ r.credential \in Credentials
            BY <1>3, <2>1 DEF FactorsInv, PasskeysAreTyped, PasskeysAreRight
      <2> HIDE DEF r
      <2>4. FineHandler(t, r) /\ SameCeremony(t, r)
            BY <1>3, <2>1, <2>3 DEF FineHandler, SameCeremony, HoldsCeremony, Factors!At
      <2>5. QED BY <1>1, <2>2, <2>4, HandlerGoes
<1>4. QED BY <1>2, <1>3 DEF Factors!FindByCredential

-----------------------------------------------------------------------------
(* Deletion *)

\* The purge of an account moves on.
LEMMA PurgeMoves ==
    ASSUME FactorsInv, NEW t \in Handlers, NEW r \in Factors!Handler, r.phase \in {"purging", "drop"},
           r.user \in Users
    PROVE FineHandler(t, r) /\ SameCeremony(t, r)
BY DEF FineHandler, SameCeremony

LEMMA DeleteUserKeeps ==
    ASSUME FactorsInv, NEW t \in Handlers, NEW u \in Users, Factors!DeleteUser(t, u) PROVE FactorsInv'
<1> DEFINE r == [Factors!Idle EXCEPT !.phase = "purge", !.route = "delete", !.user = u]
<1>1. r \in Factors!Handler /\ r.phase = "purge" /\ r.user = u
      BY DEF Factors!Idle, Factors!Handler, Factors!Phases, Factors!Routes, Factors!Blank,
         Factors!Account
<1>2. handler' = [handler EXCEPT ![t] = r] /\ FactorTablesStay
      BY DEF Factors!DeleteUser, FactorTablesStay
<1> HIDE DEF r
<1>3. FineHandler(t, r) /\ SameCeremony(t, r) BY <1>1 DEF FineHandler, SameCeremony
<1>4. QED BY <1>2, <1>3, HandlerGoes

LEMMA PurgeKeeps ==
    ASSUME FactorsInv, NEW t \in Handlers, Factors!DeleteAllForUser(t) \/ Factors!DeleteListed(t)
    PROVE FactorsInv'
<1> DEFINE u == handler[t].user
           gone == [handler[t] EXCEPT !.phase = "drop"]
<1>1. u \in Users /\ passkeys[u] \in SUBSET Credentials
      BY DEF Factors!DeleteAllForUser, Factors!DeleteListed, Factors!At, FactorsInv,
         PurgesAreTyped, PasskeysAreTyped
<1>2. gone \in Factors!Handler /\ gone.phase = "drop" /\ gone.user = u
      <2>1. "drop" \in Factors!Phases BY DEF Factors!Phases
      <2>2. QED BY <2>1, HandlerMoved
<1>3. FineHandler(t, gone) /\ SameCeremony(t, gone)
      <2> HIDE DEF gone
      <2>1. QED BY <1>1, <1>2, PurgeMoves
<1>4. CASE Factors!To(t, "drop") /\ UNCHANGED passkeys /\ Factors!DeleteListed(t)
      BY <1>3, <1>4, HandlerGoes DEF Factors!To, Factors!DeleteListed, FactorTablesStay
<1>5. CASE /\ Factors!DeleteAllForUser(t) /\ Factors!To(t, "drop")
           /\ passkeys' = [passkeys EXCEPT ![u] = {}]
      <2> DEFINE S == {}
      <2>1. S \in SUBSET Credentials /\ \A c \in S : Enroled(u, c) OBVIOUS
      <2>2. passkeys' = [passkeys EXCEPT ![u] = S] /\ handler' = [handler EXCEPT ![t] = gone]
            BY <1>5 DEF Factors!To
      <2>3. UNCHANGED <<accounts, ceremonies, scanned, enroled, signed, spent>>
            BY <1>5 DEF Factors!DeleteAllForUser
      <2> HIDE DEF S, gone
      <2>4. QED BY <1>1, <1>3, <2>1, <2>2, <2>3, PasskeysWritten
<1>6. CASE /\ Factors!DeleteAllForUser(t) /\ UNCHANGED passkeys
           /\ handler' = [handler EXCEPT ![t].phase = "purging", ![t].left = passkeys[u]]
      <2> DEFINE r == [handler[t] EXCEPT !.phase = "purging", !.left = passkeys[u]]
      <2>0. "purging" \in Factors!Phases BY DEF Factors!Phases
      <2>1. r \in Factors!Handler /\ r.phase = "purging" /\ r.user = u
            BY <1>1, <2>0 DEF FactorsInv, SecretsAreTyped, Factors!Handler
      <2>2. handler' = [handler EXCEPT ![t] = r]
            BY <1>6 DEF FactorsInv, SecretsAreTyped, Factors!Handler
      <2> HIDE DEF r
      <2>3. QED BY <1>1, <1>6, <2>1, <2>2, PurgeMoves, HandlerGoes
            DEF Factors!DeleteAllForUser, FactorTablesStay
<1>7. ASSUME Factors!DeleteListed(t), NEW c \in handler[t].left,
             handler' = [handler EXCEPT ![t].left = @ \ {c}],
             passkeys' = [passkeys EXCEPT ![u] = @ \ {c}]
      PROVE  FactorsInv'
      <2> DEFINE r == [handler[t] EXCEPT !.left = @ \ {c}]
                 S == passkeys[u] \ {c}
      <2>1. r \in Factors!Handler /\ r.phase = "purging" /\ r.user = u
            BY <1>7 DEF FactorsInv, SecretsAreTyped, Factors!Handler, Factors!DeleteListed, Factors!At
      <2>2. handler' = [handler EXCEPT ![t] = r]
            BY <1>7 DEF FactorsInv, SecretsAreTyped, Factors!Handler
      <2>3. S \in SUBSET Credentials /\ \A x \in S : Enroled(u, x)
            BY <1>1 DEF FactorsInv, PasskeysAreRight
      <2>4. passkeys' = [passkeys EXCEPT ![u] = S] BY <1>7
      <2> HIDE DEF r, S
      <2>5. QED BY <1>1, <1>7, <2>1, <2>2, <2>3, <2>4, PurgeMoves, PasskeysWritten
            DEF Factors!DeleteListed
<1>8. QED BY <1>4, <1>5, <1>6, <1>7 DEF Factors!DeleteAllForUser, Factors!DeleteListed

-----------------------------------------------------------------------------

LEMMA FactorsInitHolds == ASSUME Factors!FactorsAssumption, Factors!FactorsInit PROVE FactorsInv
<1>1. [Factors!Blank EXCEPT !.live = TRUE] \in Factors!Account
      /\ [Factors!Blank EXCEPT !.live = TRUE].secret = NoSecret
      BY DEF Factors!Blank, Factors!Account
<1>2. Factors!Unused \in Factors!Ceremony /\ Factors!Unused.kind = "register"
      /\ Factors!Unused.status = "unused"
      BY DEF Factors!Unused, Factors!Ceremony
<1>3. SecretsAreTyped /\ PasskeysAreTyped
      BY <1>1, <1>2, IdleHandlerTyped DEF Factors!FactorsInit, SecretsAreTyped, PasskeysAreTyped
<1>4. PurgesAreTyped BY IdleHandlerTyped DEF Factors!FactorsInit, PurgesAreTyped
<1>5. SecretsAreRight
      BY <1>1, IdleHandlerTyped DEF Factors!FactorsInit, SecretsAreRight, Shown, Factors!At
<1>6. PasskeysAreRight
      BY <1>2, IdleHandlerTyped DEF Factors!FactorsInit, PasskeysAreRight, KnowsAccount
<1>7. CeremoniesAreTakenOnce
      BY <1>2, IdleHandlerTyped DEF Factors!FactorsInit, CeremoniesAreTakenOnce, HoldsCeremony
<1>8. QED BY <1>3, <1>4, <1>5, <1>6, <1>7 DEF FactorsInv

LEMMA FactorsStepKeeps ==
    ASSUME FactorsInv, [Factors!FactorsNext]_(Factors!factorVars)
    PROVE FactorsInv'
<1>1. CASE UNCHANGED Factors!factorVars
      BY <1>1 DEF Factors!factorVars, FactorsInv, SecretsAreTyped, PasskeysAreTyped, PurgesAreTyped,
                  SecretsAreRight, PasskeysAreRight, CeremoniesAreTakenOnce,
                  Shown, Factors!At, Enroled, KnowsAccount, HoldsCeremony
<1>2. ASSUME NEW t \in Handlers, Factors!HandlerStops(t) PROVE FactorsInv'
      BY <1>2, HandlerEndKeeps DEF Factors!HandlerStops, FactorTablesStay
<1>3. ASSUME NEW t \in Handlers, NEW u \in Users,
             \/ Factors!OtherEdit(t, u) \/ Factors!DeleteUser(t, u)
             \/ \E s \in Secrets : \/ Factors!TotpSetup(t, u, s)
                                  \/ Factors!TotpVerify(t, u, s)
                                  \/ Factors!TotpDisable(t, u, s)
             \/ \E code \in Secrets \cup {NoSecret} : Factors!PasswordLogin(t, u, code)
             \/ \E k \in Ceremonies, c \in Credentials : Factors!RegisterFinish(t, u, k, c)
      PROVE  FactorsInv'
      BY <1>3, OtherEditKeeps, DeleteUserKeeps, SetupKeeps, PasswordLoginKeeps, RegisterFinishKeeps
<1>4. ASSUME NEW t \in Handlers,
             \/ \E k \in Ceremonies, c \in Credentials : Factors!LoginFinish(t, k, c)
             \/ Factors!PutUser(t) \/ Factors!PutCredential(t)
             \/ Factors!FindByCredential(t) \/ Factors!ListPasskeys(t)
             \/ Factors!UpdateCounter(t) \/ Factors!RewriteCredential(t) \/ Factors!PasskeySession(t)
             \/ Factors!DeleteAllForUser(t) \/ Factors!DeleteListed(t)
             \/ Factors!DropUser(t) \/ Factors!HandlerStops(t)
      PROVE  FactorsInv'
      BY <1>2, <1>4, LoginFinishKeeps, PutUserKeeps, PutCredentialKeeps, FindKeeps, SignInKeeps,
         RewriteKeeps, PasskeySessionKeeps, PurgeKeeps, DropUserKeeps
<1>5. ASSUME NEW k \in Ceremonies,
             \/ \E u \in Users : Factors!RegisterStart(k, u) \/ Factors!LoginStart(k, u)
             \/ Factors!DiscoverableStart(k) \/ Factors!CeremonyExpires(k)
      PROVE  FactorsInv'
      BY <1>5, StartKeeps, ExpiryKeeps
<1>6. QED BY <1>1, <1>3, <1>4, <1>5 DEF Factors!FactorsNext

(***************************************************************************)
(* For any number of accounts, secrets and handlers: a secret guards an    *)
(* account, and counts in a sign-in, only if its holder has shown a code   *)
(* of it, whichever whole-row writes overlap (totp_setup, totp_verify,     *)
(* put_user).                                                              *)
(***************************************************************************)
THEOREM SecretsAreProven ==
    ASSUME Factors!FactorsAssumption
    PROVE Factors!FactorsSpec => []Factors!SecretsWereProven
<1>1. Factors!FactorsInit => FactorsInv BY FactorsInitHolds
<1>2. FactorsInv /\ [Factors!FactorsNext]_(Factors!factorVars) => FactorsInv' BY FactorsStepKeeps
<1>3. FactorsInv => Factors!SecretsWereProven
      BY DEF FactorsInv, SecretsAreRight, Shown, Factors!SecretsWereProven
<1>4. QED BY <1>1, <1>2, <1>3, PTL DEF Factors!FactorsSpec

(***************************************************************************)
(* For any number of ceremonies, however often and wherever their ids are  *)
(* offered: a passkey signs in the account that enroled it, and a ceremony *)
(* leads to one credential or one sign-in (take_ceremony, register_finish, *)
(* login_finish).                                                          *)
(***************************************************************************)
THEOREM PasskeysAreEnroled ==
    ASSUME Factors!FactorsAssumption
    PROVE Factors!FactorsSpec => []Factors!PasskeysWereEnroled
<1>1. Factors!FactorsInit => FactorsInv BY FactorsInitHolds
<1>2. FactorsInv /\ [Factors!FactorsNext]_(Factors!factorVars) => FactorsInv' BY FactorsStepKeeps
<1>3. FactorsInv => Factors!PasskeysWereEnroled
      BY DEF FactorsInv, PasskeysAreRight, CeremoniesAreTakenOnce, Enroled,
         Factors!PasskeysWereEnroled
<1>4. QED BY <1>1, <1>2, <1>3, PTL DEF Factors!FactorsSpec

\* The invariant reads nothing the other parts share, the backend included.
LEMMA FactorsStand == FactorsInv /\ UNCHANGED factorsOnly => FactorsInv'
<1> SUFFICES ASSUME FactorsInv, UNCHANGED factorsOnly
             PROVE  FactorsInv'
    OBVIOUS
<1> QED
    BY DEF factorsOnly, FactorsInv, SecretsAreTyped,
           PasskeysAreTyped, PurgesAreTyped,
           SecretsAreRight, PasskeysAreRight,
           CeremoniesAreTakenOnce, Shown,
           Enroled, HoldsCeremony, KnowsAccount,
           Factors!At

LEMMA FactorsStepOrStand ==
    [Next]_vars => Factors!FactorsNext \/ UNCHANGED factorsOnly
BY DEF Next, vars, ThrottleMoves, FactorsMove, ConfigurationMoves, TrailMoves, GrantsMove

(***************************************************************************)
(* A second factor of a deployment is its holder's: a secret guards an     *)
(* account only if its holder has shown a code of it, a passkey signs in   *)
(* the account it was enroled for, and a ceremony leads somewhere once     *)
(* (totp_setup, totp_verify, put_user, take_ceremony, register_finish,     *)
(* login_finish), for any number of accounts, secrets and handlers.        *)
(***************************************************************************)
THEOREM FactorsStayTheHolders == Spec => []FactorsAreTheHolders
<1>1. Init => FactorsInv
    BY PlatformAssumption, FactorsInitHolds DEF Init
<1>2. FactorsInv /\ [Next]_vars => FactorsInv'
    BY FactorsStepOrStand, FactorsStand, FactorsStepKeeps
<1>3. FactorsInv => FactorsAreTheHolders
    BY DEF FactorsInv, SecretsAreRight,
           PasskeysAreRight, CeremoniesAreTakenOnce,
           Shown, Enroled,
           FactorsAreTheHolders, Factors!SecretsWereProven, Factors!PasskeysWereEnroled
<1> QED BY <1>1, <1>2, <1>3, PTL DEF Spec

-----------------------------------------------------------------------------
(* Grants *)

\* No condition of a configuration asks for the absence of anything.
OnlyPositive(d) == \A code \in DOMAIN d.codes : Authority!Positive(d.codes[code])

\* Each feature of a set is one the set, in that tenant, could be granted.
Grounded(d, t, features) ==
    \A f \in features : Authority!Assignable(d, f, Authority!EvalFeatureSet(t, features))

FeatureRow == [version: Nat, features: SUBSET Features]

\* A task, and what stands in one that is idle.
AnyGrantTask ==
    [phase: {"idle", "read", "put"}, op: Authority!Ops,
     tenant: Tenants \cup {Authority!NoTask.tenant} \cup {HomeOf[u] : u \in Staff},
     user: Staff \cup {Authority!NoTask.user},
     code: Features \cup Labels \cup {Authority!NoTask.code},
     doc: Documents \cup {Authority!NoTask.doc}, row: FeatureRow]

GrantTaskShape(k) ==
    /\ k \in AnyGrantTask
    /\ k.phase # "idle" /\ k.op \in {"grant", "revoke"} =>
           k.tenant \in Tenants /\ k.code \in Features

GrantsShaped ==
    /\ published \in Documents
    /\ tenants \in [Tenants -> FeatureRow]
    /\ task = [h \in Handlers |-> task[h]]
    /\ \A h \in Handlers : GrantTaskShape(task[h])

Granting(h) == ~Authority!Phase(h, "idle") /\ task[h].op \in {"grant", "revoke"}

\* Whoever works on a configuration that has not changed works on the one in force.
DocsInForce == steady => \A h \in Handlers : Granting(h) => task[h].doc = published

\* What a handler is about to write, as long as the stored row is the one it has read.
GrantFollows(k, row) ==
    /\ k.row.features =
           IF k.op = "grant" THEN row.features \cup {k.code} ELSE row.features \ {k.code}
    /\ OnlyPositive(k.doc) /\ Grounded(k.doc, k.tenant, row.features) =>
           Grounded(k.doc, k.tenant, k.row.features)

WritesFollow ==
    \A h \in Handlers : Granting(h) /\ Authority!Phase(h, "put") =>
        LET k == task[h] row == tenants[task[h].tenant] IN
        /\ k.row.version <= row.version
        /\ k.row.version = row.version => GrantFollows(k, row)

AnswersKept ==
    /\ answered = [t \in Tenants |-> answered[t]]
    /\ \A t \in Tenants : tenants[t].features = answered[t]

AllGrounded ==
    steady /\ OnlyPositive(published) =>
        \A t \in Tenants : Grounded(published, t, tenants[t].features)

\* The inductive invariant.
GrantsInv == GrantsShaped /\ DocsInForce /\ WritesFollow /\ AnswersKept /\ AllGrounded

-----------------------------------------------------------------------------
(* Conditions *)

\* A condition that asks for nothing's absence goes on holding when subjects are added.
LEMMA PositiveGrows ==
    ASSUME NEW condition, NEW S, NEW T, S \subseteq T, Authority!Positive(condition),
           Authority!Holds(condition, S)
    PROVE Authority!Holds(condition, T)
BY DEF Authority!Positive, Authority!Holds

LEMMA AssignableGrows ==
    ASSUME NEW d, NEW f, NEW S, NEW T, S \subseteq T, OnlyPositive(d),
           Authority!Assignable(d, f, S)
    PROVE Authority!Assignable(d, f, T)
BY PositiveGrows DEF Authority!Assignable, OnlyPositive

LEMMA GrantGrounded ==
    ASSUME NEW d, NEW t, NEW F, NEW f, OnlyPositive(d), Grounded(d, t, F),
           Authority!Assignable(d, f, Authority!EvalFeatureSet(t, F))
    PROVE Grounded(d, t, F \cup {f})
<1>1. Authority!EvalFeatureSet(t, F) \subseteq Authority!EvalFeatureSet(t, F \cup {f})
      BY DEF Authority!EvalFeatureSet
<1>2. SUFFICES ASSUME NEW g \in F \cup {f}
               PROVE Authority!Assignable(d, g, Authority!EvalFeatureSet(t, F \cup {f}))
      BY DEF Grounded
<1>3. Authority!Assignable(d, g, Authority!EvalFeatureSet(t, F)) BY DEF Grounded
<1>4. QED BY <1>1, <1>3, AssignableGrows

\* No dependent is left over: what remains stands on what remains.
LEMMA RevokeGrounded ==
    ASSUME NEW d, NEW t, NEW F, NEW f, OnlyPositive(d), Grounded(d, t, F),
           Authority!Dependents(d, F \ {f}) = {}
    PROVE Grounded(d, t, F \ {f})
<1>1. SUFFICES ASSUME NEW g \in F \ {f}
               PROVE Authority!Assignable(d, g, Authority!EvalFeatureSet(t, F \ {f}))
      BY DEF Grounded
<1>2. g \in DOMAIN d.codes BY DEF Grounded, Authority!Assignable
<1>3. Authority!Assignable(d, g, F \ {f}) BY <1>2 DEF Authority!Dependents, Authority!Assignable
<1>4. F \ {f} \subseteq Authority!EvalFeatureSet(t, F \ {f}) BY DEF Authority!EvalFeatureSet
<1>5. QED BY <1>3, <1>4, AssignableGrows

-----------------------------------------------------------------------------
(* Tasks *)

LEMMA NoGrantTaskShaped == GrantTaskShape(Authority!NoTask) /\ Authority!NoTask.phase = "idle"
<1>1. /\ Authority!NoTask.phase = "idle" /\ Authority!NoTask.op = "grant"
      /\ Authority!NoTask.row = [version |-> 1, features |-> {}]
      BY DEF Authority!NoTask
<1>2. Authority!NoTask = [phase |-> Authority!NoTask.phase, op |-> Authority!NoTask.op,
                          tenant |-> Authority!NoTask.tenant, user |-> Authority!NoTask.user,
                          code |-> Authority!NoTask.code, doc |-> Authority!NoTask.doc,
                          row |-> Authority!NoTask.row]
      BY DEF Authority!NoTask
<1> DEFINE r == Authority!NoTask.row
<1>a. r \in FeatureRow BY <1>1 DEF FeatureRow
<1>b. Authority!NoTask.phase \in {"idle", "read", "put"}
      /\ Authority!NoTask.op \in Authority!Ops BY <1>1 DEF Authority!Ops
<1>3. Authority!NoTask \in AnyGrantTask BY <1>2, <1>a, <1>b DEF AnyGrantTask
<1>4. QED BY <1>1, <1>3 DEF GrantTaskShape

\* A handler that ends leaves nothing to promise about.
LEMMA GrantEndKeeps ==
    ASSUME GrantsInv, NEW h \in Handlers, Authority!Ends(h), tenants' = tenants,
           answered' = answered, published' = published, steady' = steady
    PROVE GrantsInv'
<1>1. /\ task' = [g \in Handlers |-> task'[g]]
      /\ \A g \in Handlers : task'[g] = IF g = h THEN Authority!NoTask ELSE task[g]
      BY DEF Authority!Ends, GrantsInv, GrantsShaped
<1>2. GrantsShaped' BY <1>1, NoGrantTaskShaped DEF GrantsInv, GrantsShaped
<1>3. DocsInForce'
      BY <1>1, NoGrantTaskShaped DEF GrantsInv, DocsInForce, Granting, Authority!Phase
<1>4. WritesFollow'
      <2>1. SUFFICES ASSUME NEW g \in Handlers, (Granting(g) /\ Authority!Phase(g, "put"))'
                     PROVE (LET k == task[g] row == tenants[task[g].tenant] IN
                            /\ k.row.version <= row.version
                            /\ k.row.version = row.version => GrantFollows(k, row))'
            BY DEF WritesFollow
      <2>2. task'[g] = task[g] BY <1>1, <2>1, NoGrantTaskShaped DEF Granting, Authority!Phase
      <2>3. Granting(g) /\ Authority!Phase(g, "put") BY <2>1, <2>2 DEF Granting, Authority!Phase
      <2>4. QED BY <2>2, <2>3 DEF GrantsInv, WritesFollow
<1>5. AnswersKept' /\ AllGrounded' BY DEF GrantsInv, AnswersKept, AllGrounded
<1>6. QED BY <1>2, <1>3, <1>4, <1>5 DEF GrantsInv

\* A handler that begins holds the configuration in force.
LEMMA GrantBeginKeeps ==
    ASSUME GrantsInv, NEW h \in Handlers, NEW op, NEW t, NEW u, NEW code,
           Authority!Begin(h, op, t, u, code),
           op \in Authority!Ops, t \in Tenants \cup {HomeOf[v] : v \in Staff},
           u \in Staff \cup {Authority!NoTask.user}, code \in Features \cup Labels,
           op \in {"grant", "revoke"} => t \in Tenants /\ code \in Features
    PROVE GrantsInv'
<1> DEFINE k == [Authority!NoTask EXCEPT !.phase = "read", !.op = op, !.tenant = t, !.user = u,
                               !.code = code, !.doc = published]
<1>0. published \in Documents /\ Authority!NoTask \in AnyGrantTask
      BY NoGrantTaskShaped DEF GrantsInv, GrantsShaped, GrantTaskShape
<1>1. k.phase = "read" /\ k.op = op /\ k.doc = published /\ GrantTaskShape(k)
      BY <1>0 DEF GrantTaskShape, AnyGrantTask
<1>2. /\ task' = [g \in Handlers |-> task'[g]]
      /\ \A g \in Handlers : task'[g] = IF g = h THEN k ELSE task[g]
      BY DEF Authority!Begin, GrantsInv, GrantsShaped
<1> HIDE DEF k
<1>3. UNCHANGED <<published, tenants, steady, answered>> BY DEF Authority!Begin
<1>4. GrantsShaped' BY <1>1, <1>2, <1>3 DEF GrantsInv, GrantsShaped
<1>5. DocsInForce' BY <1>1, <1>2, <1>3 DEF GrantsInv, DocsInForce, Granting, Authority!Phase
<1>6. WritesFollow'
      <2>1. SUFFICES ASSUME NEW g \in Handlers, (Granting(g) /\ Authority!Phase(g, "put"))'
                     PROVE (LET m == task[g] row == tenants[task[g].tenant] IN
                            /\ m.row.version <= row.version
                            /\ m.row.version = row.version => GrantFollows(m, row))'
            BY DEF WritesFollow
      <2>2. task'[g] = task[g] BY <1>1, <1>2, <2>1 DEF Granting, Authority!Phase
      <2>3. Granting(g) /\ Authority!Phase(g, "put") BY <2>1, <2>2 DEF Granting, Authority!Phase
      <2>4. QED BY <1>3, <2>2, <2>3 DEF GrantsInv, WritesFollow
<1>7. AnswersKept' /\ AllGrounded' BY <1>3 DEF GrantsInv, AnswersKept, AllGrounded
<1>8. QED BY <1>4, <1>5, <1>6, <1>7 DEF GrantsInv

\* A handler that has found what it may write has it in its hand.
LEMMA GrantFoundKeeps ==
    ASSUME GrantsInv, NEW h \in Handlers, NEW row, Authority!WritesBack(h, row),
           Authority!Phase(h, "read"), Granting(h),
           row \in FeatureRow, row.version = tenants[task[h].tenant].version,
           GrantFollows([task[h] EXCEPT !.row = row], tenants[task[h].tenant]),
           UNCHANGED <<published, tenants, steady, answered>>
    PROVE GrantsInv'
<1> DEFINE k == [task[h] EXCEPT !.phase = "put", !.row = row]
<1>0. GrantTaskShape(task[h]) BY DEF GrantsInv, GrantsShaped
<1>1. /\ k.phase = "put" /\ k.row = row /\ k.op = task[h].op /\ k.tenant = task[h].tenant
      /\ k.code = task[h].code /\ k.doc = task[h].doc
      /\ GrantTaskShape(k)
      BY <1>0 DEF GrantTaskShape, AnyGrantTask, Granting, Authority!Phase
<1>2. /\ task' = [g \in Handlers |-> task'[g]]
      /\ \A g \in Handlers : task'[g] = IF g = h THEN k ELSE task[g]
      BY DEF Authority!WritesBack, GrantsInv, GrantsShaped
<1>3. GrantFollows(k, tenants[k.tenant])
      <2>1. LET m == [task[h] EXCEPT !.row = row] IN
            /\ m.row = row /\ m.op = task[h].op /\ m.tenant = task[h].tenant
            /\ m.code = task[h].code /\ m.doc = task[h].doc
            BY <1>0 DEF GrantTaskShape
      <2>2. QED BY <1>1, <2>1 DEF GrantFollows
<1>4. tenants[k.tenant] \in FeatureRow
      BY <1>0, <1>1 DEF GrantTaskShape, Granting, Authority!Phase, GrantsInv, GrantsShaped
<1> HIDE DEF k
<1>5. GrantsShaped' BY <1>1, <1>2 DEF GrantsInv, GrantsShaped
<1>6. DocsInForce' BY <1>1, <1>2 DEF GrantsInv, DocsInForce, Granting, Authority!Phase
<1>7. WritesFollow'
      <2>1. SUFFICES ASSUME NEW g \in Handlers, (Granting(g) /\ Authority!Phase(g, "put"))'
                     PROVE (LET m == task[g] was == tenants[task[g].tenant] IN
                            /\ m.row.version <= was.version
                            /\ m.row.version = was.version => GrantFollows(m, was))'
            BY DEF WritesFollow
      <2>2. CASE g = h BY <1>1, <1>2, <1>3, <1>4, <2>2 DEF FeatureRow
      <2>3. CASE g # h
            <3>1. task'[g] = task[g] BY <1>2, <2>3
            <3>2. Granting(g) /\ Authority!Phase(g, "put")
                BY <2>1, <3>1 DEF Granting, Authority!Phase
            <3>3. QED BY <3>1, <3>2 DEF GrantsInv, WritesFollow
      <2>4. QED BY <2>2, <2>3
<1>8. AnswersKept' /\ AllGrounded' BY DEF GrantsInv, AnswersKept, AllGrounded
<1>9. QED BY <1>5, <1>6, <1>7, <1>8 DEF GrantsInv

LEMMA GrantWorkTyped ==
    ASSUME GrantsInv, NEW h \in Handlers, Granting(h)
    PROVE /\ task[h].tenant \in Tenants /\ task[h].code \in Features
          /\ tenants[task[h].tenant] \in FeatureRow
          /\ tenants[task[h].tenant].features \in SUBSET Features
BY DEF GrantsInv, GrantsShaped, GrantTaskShape, Granting, Authority!Phase, FeatureRow

\* The row that is read, with other features.
LEMMA FeatureRowMade ==
    ASSUME NEW row \in FeatureRow, NEW F \in SUBSET Features
    PROVE LET new == [row EXCEPT !.features = F] IN
          new \in FeatureRow /\ new.features = F /\ new.version = row.version
BY DEF FeatureRow

LEMMA CarriesFeatureRow ==
    ASSUME GrantsInv, NEW h \in Handlers, NEW row
    PROVE LET m == [task[h] EXCEPT !.row = row] IN
          /\ m.row = row /\ m.op = task[h].op /\ m.tenant = task[h].tenant
          /\ m.code = task[h].code /\ m.doc = task[h].doc
<1>1. GrantTaskShape(task[h]) BY DEF GrantsInv, GrantsShaped
<1>2. QED BY <1>1 DEF GrantTaskShape, AnyGrantTask

LEMMA GrantKeeps ==
    ASSUME GrantsInv, NEW h \in Handlers, Authority!GrantFeature(h)
    PROVE GrantsInv'
<1> DEFINE k == task[h]
           row == tenants[k.tenant]
           new == [row EXCEPT !.features = @ \cup {k.code}]
<1>1. Authority!Phase(h, "read") /\ k.op = "grant" /\ Granting(h)
      BY DEF Authority!GrantFeature, Granting, Authority!Phase
<1>2. UNCHANGED <<published, tenants, steady, answered>> BY DEF Authority!GrantFeature
<1>3. CASE Authority!Ends(h) BY <1>2, <1>3, GrantEndKeeps
<1>4. CASE /\ Authority!Assignable(k.doc, k.code,
                                    Authority!EvalFeatureSet(k.tenant, row.features))
           /\ Authority!WritesBack(h, new)
      <2>1. row.features \cup {k.code} \in SUBSET Features
            BY <1>1, GrantWorkTyped
      <2>2. new = [row EXCEPT !.features = row.features \cup {k.code}] OBVIOUS
      <2>3. /\ new \in FeatureRow /\ new.version = row.version
            /\ new.features = row.features \cup {k.code}
            BY <1>1, <2>1, <2>2, FeatureRowMade, GrantWorkTyped
      <2>4. ASSUME OnlyPositive(k.doc), Grounded(k.doc, k.tenant, row.features)
            PROVE  Grounded(k.doc, k.tenant, new.features)
            <3>. HIDE DEF new
            <3>1. QED BY <1>4, <2>3, <2>4, GrantGrounded
      <2>5. GrantFollows([k EXCEPT !.row = new], row)
            <3> DEFINE m == [k EXCEPT !.row = new]
            <3>1. /\ m.row = new /\ m.op = k.op /\ m.tenant = k.tenant
                  /\ m.code = k.code /\ m.doc = k.doc
                  BY CarriesFeatureRow
            <3>. HIDE DEF m, new
            <3>2. QED BY <1>1, <2>3, <2>4, <3>1 DEF GrantFollows
      <2>6. QED BY <1>1, <1>2, <1>4, <2>3, <2>5, GrantFoundKeeps
<1>5. QED BY <1>3, <1>4 DEF Authority!GrantFeature

LEMMA RevokeKeeps ==
    ASSUME GrantsInv, NEW h \in Handlers, Authority!RevokeFeature(h)
    PROVE GrantsInv'
<1> DEFINE k == task[h]
           row == tenants[k.tenant]
           remaining == row.features \ {k.code}
           new == [row EXCEPT !.features = remaining]
<1>1. Authority!Phase(h, "read") /\ k.op = "revoke" /\ Granting(h)
      BY DEF Authority!RevokeFeature, Granting, Authority!Phase
<1>2. UNCHANGED <<published, tenants, steady, answered>> BY DEF Authority!RevokeFeature
<1>3. CASE Authority!Ends(h) BY <1>2, <1>3, GrantEndKeeps
<1>4. CASE Authority!Dependents(k.doc, remaining) = {} /\ Authority!WritesBack(h, new)
      <2>1. remaining \in SUBSET Features BY <1>1, GrantWorkTyped
      <2>3. new \in FeatureRow /\ new.version = row.version /\ new.features = remaining
            BY <1>1, <2>1, FeatureRowMade, GrantWorkTyped
      <2>4. ASSUME OnlyPositive(k.doc), Grounded(k.doc, k.tenant, row.features)
            PROVE  Grounded(k.doc, k.tenant, new.features)
            <3>1. Grounded(k.doc, k.tenant, row.features \ {k.code})
                  BY <1>4, <2>4, RevokeGrounded
            <3>. HIDE DEF new
            <3>2. QED BY <2>3, <3>1
      <2>5. GrantFollows([k EXCEPT !.row = new], row)
            <3> DEFINE m == [k EXCEPT !.row = new]
            <3>1. /\ m.row = new /\ m.op = k.op /\ m.tenant = k.tenant
                  /\ m.code = k.code /\ m.doc = k.doc
                  BY CarriesFeatureRow
            <3>. HIDE DEF m, new
            <3>2. QED BY <1>1, <2>3, <2>4, <3>1 DEF GrantFollows
      <2>6. QED BY <1>1, <1>2, <1>4, <2>3, <2>5, GrantFoundKeeps
<1>5. QED BY <1>3, <1>4 DEF Authority!RevokeFeature

\* The write: over the version the row was made from, so what it follows is what is stored.
LEMMA PutFeaturesKeeps ==
    ASSUME GrantsInv, NEW h \in Handlers, Authority!PutTenant(h)
    PROVE GrantsInv'
<1> DEFINE k == task[h]
           was == tenants[k.tenant]
           new == [k.row EXCEPT !.version = @ + 1]
<1>1. Granting(h) /\ Authority!Phase(h, "put") /\ Authority!Ends(h)
      /\ UNCHANGED <<published, steady>>
      BY DEF Authority!PutTenant, Granting, Authority!Phase
<1>2. k.tenant \in Tenants /\ was \in FeatureRow /\ k.row \in FeatureRow
      BY <1>1, GrantWorkTyped DEF GrantsInv, GrantsShaped, GrantTaskShape, AnyGrantTask
<1>3. CASE UNCHANGED <<tenants, answered>> BY <1>1, <1>3, GrantEndKeeps
<1>4. CASE /\ Authority!Unwritten(k.row, was)
           /\ tenants' = [tenants EXCEPT ![k.tenant] = new]
           /\ answered' = [answered EXCEPT ![k.tenant] =
                  IF k.op = "grant" THEN @ \cup {k.code} ELSE @ \ {k.code}]
      <2>1. GrantFollows(k, was)
            BY <1>1, <1>4 DEF GrantsInv, WritesFollow, Authority!Unwritten
      <2>2. new \in FeatureRow /\ new.features = k.row.features /\ new.version = was.version + 1
            BY <1>2, <1>4 DEF FeatureRow, Authority!Unwritten
      <2> HIDE DEF new
      <2>3. /\ tenants' \in [Tenants -> FeatureRow]
            /\ \A t \in Tenants : tenants'[t] = IF t = k.tenant THEN new ELSE tenants[t]
            BY <1>2, <1>4, <2>2 DEF GrantsInv, GrantsShaped
      <2>4. /\ task' = [g \in Handlers |-> task'[g]]
            /\ \A g \in Handlers : task'[g] = IF g = h THEN Authority!NoTask ELSE task[g]
            BY <1>1 DEF Authority!Ends, GrantsInv, GrantsShaped
      <2>5. GrantsShaped' BY <1>1, <2>3, <2>4, NoGrantTaskShaped DEF GrantsInv, GrantsShaped
      <2>6. DocsInForce'
          BY <1>1, <2>4, NoGrantTaskShaped DEF GrantsInv, DocsInForce, Granting, Authority!Phase
      <2>7. WritesFollow'
            <3>1. SUFFICES ASSUME NEW g \in Handlers, (Granting(g) /\ Authority!Phase(g, "put"))'
                           PROVE (LET m == task[g] row == tenants[task[g].tenant] IN
                                  /\ m.row.version <= row.version
                                  /\ m.row.version = row.version => GrantFollows(m, row))'
                  BY DEF WritesFollow
            <3>2. task'[g] = task[g]
                BY <2>4, <3>1, NoGrantTaskShaped DEF Granting, Authority!Phase
            <3>3. Granting(g) /\ Authority!Phase(g, "put")
                BY <3>1, <3>2 DEF Granting, Authority!Phase
            <3>4. /\ task[g].row.version <= tenants[task[g].tenant].version
                  /\ task[g].row.version = tenants[task[g].tenant].version =>
                         GrantFollows(task[g], tenants[task[g].tenant])
                  BY <3>3 DEF GrantsInv, WritesFollow
            <3>5. task[g].tenant \in Tenants BY <3>3, GrantWorkTyped
            <3>6. CASE task[g].tenant = k.tenant
                  <4>1. task[g].row.version \in Nat /\ was.version \in Nat
                        BY <1>2 DEF GrantsInv, GrantsShaped, GrantTaskShape,
                                    AnyGrantTask, FeatureRow
                  <4>2. QED BY <2>2, <2>3, <3>2, <3>4, <3>5, <3>6, <4>1
            <3>7. CASE task[g].tenant # k.tenant BY <2>3, <3>2, <3>4, <3>5, <3>7
            <3>8. QED BY <3>6, <3>7
      <2>8. AnswersKept'
            <3>1. /\ answered' = [t \in Tenants |-> answered'[t]]
                  /\ \A t \in Tenants : answered'[t] =
                         IF t = k.tenant
                         THEN IF k.op = "grant" THEN answered[t] \cup {k.code}
                              ELSE answered[t] \ {k.code}
                         ELSE answered[t]
                  BY <1>2, <1>4 DEF GrantsInv, AnswersKept
            <3>2. QED BY <2>1, <2>2, <2>3, <3>1 DEF GrantFollows, GrantsInv, AnswersKept
      <2>9. AllGrounded'
            <3>1. SUFFICES ASSUME steady, OnlyPositive(published), NEW t \in Tenants
                           PROVE Grounded(published, t, tenants'[t].features)
                  BY <1>1 DEF AllGrounded
            <3>2. Grounded(published, t, tenants[t].features) BY <3>1 DEF GrantsInv, AllGrounded
            <3>3. CASE t = k.tenant
                  <4>1. k.doc = published BY <1>1, <3>1 DEF GrantsInv, DocsInForce
                  <4>2. QED BY <2>1, <2>2, <2>3, <3>1, <3>2, <3>3, <4>1 DEF GrantFollows
            <3>4. CASE t # k.tenant BY <2>3, <3>2, <3>4
            <3>5. QED BY <3>3, <3>4
      <2>10. QED BY <2>5, <2>6, <2>7, <2>8, <2>9 DEF GrantsInv
<1>5. QED BY <1>3, <1>4 DEF Authority!PutTenant

-----------------------------------------------------------------------------

LEMMA GrantsInitHolds == ASSUME Authority!GrantsInit PROVE GrantsInv
<1>1. \A h \in Handlers : task[h] = Authority!NoTask BY DEF Authority!GrantsInit
<1>2. GrantsShaped BY <1>1, NoGrantTaskShaped DEF Authority!GrantsInit, GrantsShaped, FeatureRow
<1>3. DocsInForce /\ WritesFollow
      BY <1>1, NoGrantTaskShaped DEF DocsInForce, WritesFollow, Granting, Authority!Phase
<1>4. \A t \in Tenants : tenants[t].features = {} /\ answered[t] = {}
      BY DEF Authority!GrantsInit
<1>5. AnswersKept BY <1>4 DEF Authority!GrantsInit, AnswersKept
<1>6. AllGrounded BY <1>4 DEF AllGrounded, Grounded
<1>7. QED BY <1>2, <1>3, <1>5, <1>6 DEF GrantsInv

\* A step that leaves tenants, answers and handlers alone.
LEMMA GrantsQuiet ==
    ASSUME GrantsInv, UNCHANGED <<published, tenants, task, steady, answered>>
    PROVE GrantsInv'
BY DEF GrantsInv, GrantsShaped, DocsInForce, WritesFollow, AnswersKept, AllGrounded,
          Granting, Authority!Phase

\* A new configuration: nothing is promised of the grounds any more.
LEMMA PublishRulesKeeps ==
    ASSUME GrantsInv, NEW d \in Documents, Authority!Publish(d)
    PROVE GrantsInv'
BY DEF Authority!Publish, GrantsInv, GrantsShaped, DocsInForce, WritesFollow, AnswersKept,
          AllGrounded, Granting, Authority!Phase

LEMMA GrantsStepKeeps == ASSUME GrantsInv, [Authority!GrantsNext]_grantsOnly PROVE GrantsInv'
<1>1. CASE UNCHANGED grantsOnly BY <1>1, GrantsQuiet DEF grantsOnly
<1>2. ASSUME NEW h \in Handlers, NEW t \in Tenants, NEW f \in Features,
             NEW op \in {"grant", "revoke"}, Authority!Begin(h, op, t, Authority!NoTask.user, f)
      PROVE  GrantsInv'
      BY <1>2, GrantBeginKeeps DEF Authority!Ops
<1>3. ASSUME NEW h \in Handlers, NEW u \in Staff, NEW code \in Labels,
             Authority!Begin(h, "label", HomeOf[u], u, code)
      PROVE  GrantsInv'
      BY <1>3, GrantBeginKeeps DEF Authority!Ops
<1>4. ASSUME NEW h \in Handlers, Authority!AssignLabel(h) \/ Authority!HandlerStops(h)
      PROVE  GrantsInv'
      BY <1>4, GrantEndKeeps DEF Authority!AssignLabel, Authority!HandlerStops
<1>5. ASSUME NEW u \in Staff, (\E code \in Labels : Authority!DropLabel(u, code))
                              \/ (\E t \in Tenants : Authority!Switch(u, t))
      PROVE  GrantsInv'
      BY <1>5, GrantsQuiet DEF Authority!DropLabel, Authority!Switch
<1>6. QED
      BY <1>1, <1>2, <1>3, <1>4, <1>5, GrantKeeps, RevokeKeeps, PutFeaturesKeeps,
             PublishRulesKeeps
      DEF Authority!GrantsNext

LEMMA GrantsInvGivesFeatures == ASSUME GrantsInv PROVE Authority!FeaturesHold
BY DEF GrantsInv, AnswersKept, AllGrounded, Authority!FeaturesHold, Grounded, OnlyPositive

(***************************************************************************)
(* For any number of administrators at work on any number of tenants: a    *)
(* tenant has the features its administrators were told it has, and under  *)
(* one positive configuration each of them is one it could be granted now  *)
(* (grant_feature, revoke_feature, put_tenant).                            *)
(***************************************************************************)
THEOREM FeaturesKeepTheirGround == Authority!GrantsSpec => []Authority!FeaturesHold
<1>1. Authority!GrantsInit => GrantsInv BY GrantsInitHolds
<1>2. GrantsInv /\ [Authority!GrantsNext]_(Authority!grantVars) => GrantsInv'
    BY GrantsStepKeeps DEF grantsOnly, Authority!grantVars
<1>3. GrantsInv => Authority!FeaturesHold BY GrantsInvGivesFeatures
<1>4. QED BY <1>1, <1>2, <1>3, PTL DEF Authority!GrantsSpec

LEMMA GrantsStepOrStand ==
    [Next]_vars => Authority!GrantsNext \/ UNCHANGED grantsOnly
BY DEF Next, vars, ThrottleMoves, FactorsMove, ConfigurationMoves, TrailMoves, GrantsMove

(***************************************************************************)
(* A tenant of a deployment has the features its administrators were told  *)
(* it has, and under one configuration whose conditions ask for features   *)
(* and never against them each keeps the ground it was granted on          *)
(* (grant_feature, revoke_feature, put_tenant), for any rules and any      *)
(* number of tenants and handlers.                                         *)
(***************************************************************************)
THEOREM FeaturesHoldEverywhere == Spec => []FeaturesHold
<1>1. Init => GrantsInv
    BY GrantsInitHolds DEF Init
<1>2. GrantsInv /\ UNCHANGED grantsOnly => GrantsInv'
    BY GrantsQuiet DEF grantsOnly
<1>3. GrantsInv /\ [Next]_vars => GrantsInv'
    BY <1>2, GrantsStepOrStand, GrantsStepKeeps
<1>4. GrantsInv => FeaturesHold
    BY GrantsInvGivesFeatures DEF FeaturesHold
<1> QED BY <1>1, <1>3, <1>4, PTL DEF Spec

-----------------------------------------------------------------------------
(* Switching: two subject sets that differ in features *)

\* Rules that fire alike for two subject sets grant alike.
LEMMA SameRulesFire ==
    ASSUME NEW d, Authority!IsDocument(d), NEW S, NEW T,
           \A i \in DOMAIN d.rules : \A g :
               Authority!Holds(d.rules[i].when, S \cup g) <=> Authority!Holds(d.rules[i].when, T \cup g)
    PROVE  Authority!Granted(d, S) = Authority!Granted(d, T)
<1> DEFINE After(f, n, X) ==
               IF n = 0 THEN {}
               ELSE f[n - 1] \cup
                    IF Authority!Holds(d.rules[n].when, X \cup f[n - 1]) THEN d.rules[n].grant ELSE {}
           Accrues(f, X) == f = [n \in 0..Len(d.rules) |-> After(f, n, X)]
<1>1. Len(d.rules) \in Nat /\ DOMAIN d.rules = 1..Len(d.rules)
    BY DEF Authority!IsDocument
<1>2. ASSUME NEW f PROVE Accrues(f, S) <=> Accrues(f, T)
    <2>1. \A n \in 0..Len(d.rules) : After(f, n, S) = After(f, n, T)
        <3>1. \A n \in 0..Len(d.rules) : n # 0 => n \in DOMAIN d.rules BY <1>1
        <3>2. QED BY <3>1
    <2>2. [n \in 0..Len(d.rules) |-> After(f, n, S)] = [n \in 0..Len(d.rules) |-> After(f, n, T)]
        BY <2>1
    <2>3. QED BY <2>2
<1> HIDE DEF After
<1>3. (CHOOSE f : Accrues(f, S)) = (CHOOSE f : Accrues(f, T))
    <2> HIDE DEF Accrues
    <2>1. QED BY ONLY <1>2, Zenon
<1>4. \A X : Authority!Granted(d, X) = (CHOOSE f : Accrues(f, X))[Len(d.rules)]
    BY DEF Authority!Granted, After
<1> QED BY <1>3, <1>4

\* A condition that names no feature does not see them.
LEMMA FeaturesUnseen ==
    ASSUME NEW condition, Authority!NamesNoFeature(condition), NEW S, NEW F \in SUBSET Features
    PROVE  Authority!Holds(condition, S \cup F) <=> Authority!Holds(condition, S)
<1>1. CASE condition = Always BY <1>1 DEF Authority!Holds
<1>2. CASE \A a \in condition : (a.has \cup a.lacks) \cap Features = {}
    <2>1. ASSUME NEW a \in condition
          PROVE  /\ a.has \subseteq S \cup F <=> a.has \subseteq S
                 /\ a.lacks \cap (S \cup F) = {} <=> a.lacks \cap S = {}
        BY <1>2
    <2>2. QED BY <2>1 DEF Authority!Holds
<1> QED BY <1>1, <1>2 DEF Authority!NamesNoFeature

LEMMA FeaturesMakeNoDifference ==
    ASSUME NEW d, Authority!IsDocument(d), NEW S, NEW F \in SUBSET Features,
           Authority!NamesNoFeature(d.eligibility),
           \A i \in DOMAIN d.rules : Authority!NamesNoFeature(d.rules[i].when)
    PROVE  Authority!Resolve(d, S \cup F) = Authority!Resolve(d, S)
<1>1. \A i \in DOMAIN d.rules : \A g :
          Authority!Holds(d.rules[i].when, (S \cup F) \cup g) <=> Authority!Holds(d.rules[i].when, S \cup g)
    <2>1. \A g : (S \cup F) \cup g = (S \cup g) \cup F OBVIOUS
    <2>2. QED BY <2>1, FeaturesUnseen
<1>2. Authority!Granted(d, S \cup F) = Authority!Granted(d, S) BY <1>1, SameRulesFire
<1>3. PICK granted : granted = Authority!Granted(d, S) OBVIOUS
<1>4. (S \cup F) \cup granted = (S \cup granted) \cup F OBVIOUS
<1>5. Authority!Holds(d.eligibility, (S \cup F) \cup granted)
      <=> Authority!Holds(d.eligibility, S \cup granted)
    BY <1>4, FeaturesUnseen
<1> QED BY <1>2, <1>3, <1>5 DEF Authority!Resolve

LEMMA SwitchRecheckAgrees == ASSUME GrantsInv PROVE SwitchLastsAsLongAsAllowed
<1> SUFFICES ASSUME Authority!NamesNoFeature(published.eligibility),
                    \A i \in DOMAIN published.rules : Authority!NamesNoFeature(published.rules[i].when),
                    NEW u \in Staff
             PROVE  Authority!RefreshTenant(u) =
                        IF Authority!SwitchTenant \in Authority!Resolve(published, Authority!TokenSubjects(u, HomeOf[u]))
                        THEN active[u] ELSE HomeOf[u]
    BY DEF SwitchLastsAsLongAsAllowed, Authority!SwitchLastsAsLongAsAllowed
<1>1. Authority!IsDocument(published) /\ HomeOf[u] \in Tenants
      /\ tenants[HomeOf[u]].features \in SUBSET Features
    BY PlatformAssumption DEF Authority!GrantsAssumption, GrantsInv, GrantsShaped, FeatureRow
<1>2. Authority!TokenSubjects(u, HomeOf[u])
      = Authority!SwitchSubjects(u) \cup tenants[HomeOf[u]].features
    BY DEF Authority!TokenSubjects, Authority!SwitchSubjects
<1>3. Authority!Resolve(published, Authority!TokenSubjects(u, HomeOf[u]))
      = Authority!Resolve(published, Authority!SwitchSubjects(u))
    BY <1>1, <1>2, FeaturesMakeNoDifference
<1> QED BY <1>3 DEF Authority!RefreshTenant, Authority!MaySwitchTenant

(***************************************************************************)
(* For any rules that do not depend on features, and any number of users:  *)
(* a refresh keeps a session where it was switched to exactly as long as a *)
(* token of its bearer would carry the permission to switch                *)
(* (switch_subjects, mint_for_api, refresh).                               *)
(***************************************************************************)
THEOREM SwitchesLast == Spec => []SwitchLastsAsLongAsAllowed
<1>1. Init => GrantsInv BY GrantsInitHolds DEF Init
<1>2. GrantsInv /\ UNCHANGED grantsOnly => GrantsInv' BY GrantsQuiet DEF grantsOnly
<1>3. GrantsInv /\ [Next]_vars => GrantsInv' BY <1>2, GrantsStepOrStand, GrantsStepKeeps
<1>4. GrantsInv => SwitchLastsAsLongAsAllowed BY SwitchRecheckAgrees
<1> QED BY <1>1, <1>3, <1>4, PTL DEF Spec

-----------------------------------------------------------------------------
(* Configuration: the state is typed and handlers stay on their instance *)

\* What the store is told of itself: the constants of the configuration store.
LEMMA ConfigFacts ==
    /\ Ttl \in Nat /\ MaxSeconds \in Nat /\ MaxDelay \in Nat /\ MaxGeneration \in Nat
    /\ Nobody \notin Nodes /\ Nobody \notin Handlers /\ Handlers \cap Readers = {}
    /\ Stores \subseteq {"s3", "postgres"}
BY PlatformAssumption DEF PlatformAssumption, Config!ConfigAssumption

\* The built-in default, and what a stored document is taken for, are documents.
LEMMA DocumentsTyped ==
    ASSUME NEW doc \in Config!Document
    PROVE  /\ Config!ParseOrDefault(doc) \in Config!Document
           /\ Config!ParseOrDefault(doc).generation = doc.generation
           /\ doc.parses => Config!ParseOrDefault(doc) = doc
<1>1. Config!Default(doc.generation) \in Config!Document
  BY ConfigFacts DEF Config!Default, Config!Document, Config!Generations
<1>2. Config!Default(doc.generation).generation = doc.generation
  BY DEF Config!Default
<1> QED
  BY <1>1, <1>2 DEF Config!ParseOrDefault

\* What a handler knows is typed as it goes along.
LEMMA WorkTyped ==
    ASSUME Config!ConfigTypeOK, NEW w \in Config!Workers,
           NEW phase \in Config!Phases, NEW doc \in Config!Document
    PROVE  /\ Config!Step(w, phase, doc) => work' \in [Config!Workers -> Config!Work]
           /\ Config!To(w, phase) => work' \in [Config!Workers -> Config!Work]
           /\ Config!Ends(w) => work' \in [Config!Workers -> Config!Work]
           /\ \A i \in Nodes :
                Config!Begins(w, i, phase, doc) => work' \in [Config!Workers -> Config!Work]
<1>1. /\ work \in [Config!Workers -> Config!Work] /\ work[w] \in Config!Work
      /\ time \in Nat
  BY ConfigFacts DEF Config!ConfigTypeOK
<1>2. ASSUME NEW d \in Config!Document
      PROVE  [work[w] EXCEPT !.phase = phase, !.doc = d, !.at = time] \in Config!Work
  BY <1>1 DEF Config!Work
<1>3. work[w].doc \in Config!Document
  BY <1>1 DEF Config!Work
<1>4. Config!NoWork \in Config!Work
  BY ConfigFacts DEF Config!NoWork, Config!Work, Config!Phases, Config!Default,
     Config!Document, Config!Generations
<1>5. ASSUME NEW i \in Nodes
      PROVE  [phase |-> phase, instance |-> i, doc |-> doc, at |-> time] \in Config!Work
  BY <1>1 DEF Config!Work
<1> QED
  BY <1>1, <1>2, <1>3, <1>4, <1>5 DEF Config!Step, Config!To, Config!Ends, Config!Begins

\* A document that replaces the stored one is typed, and so is the history.
LEMMA ReplaceTyped ==
    ASSUME Config!ConfigTypeOK, NEW doc \in Config!Document, Config!Replace(doc)
    PROVE  /\ stored' = [doc EXCEPT !.generation = stored.generation + 1]
           /\ stored' \in Config!Document
           /\ stored'.generation = stored.generation + 1
           /\ replacedAt' \in [Config!Generations -> Nat]
           /\ stored.generation \in Config!Generations
           /\ stored'.generation \in Config!Generations
<1>1. stored \in Config!Document /\ stored.generation \in 0..MaxGeneration /\ time \in Nat
  BY ConfigFacts DEF Config!ConfigTypeOK, Config!Document, Config!Generations
<1>2. stored.generation + 1 \in 0..MaxGeneration
  BY <1>1, ConfigFacts DEF Config!Replace
<1>3. [doc EXCEPT !.generation = stored.generation + 1] \in Config!Document
  BY <1>2 DEF Config!Document, Config!Generations
<1>4. [doc EXCEPT !.generation = stored.generation + 1].generation = stored.generation + 1
  BY DEF Config!Document
<1> QED
  BY <1>1, <1>2, <1>3, <1>4 DEF Config!Replace, Config!ConfigTypeOK, Config!Generations

\* What an instance serves is a document.
LEMMA ServeTyped ==
    ASSUME Config!ConfigTypeOK, NEW i \in Nodes, NEW doc \in Config!Document,
           Config!Serve(i, doc)
    PROVE  cached' \in [Nodes -> Config!Cache]
<1>1. [doc |-> doc, checked |-> time] \in Config!Cache
  BY ConfigFacts DEF Config!ConfigTypeOK, Config!Cache
<1> QED
  BY <1>1 DEF Config!Serve, Config!ConfigTypeOK

\* What a handler publishes is a document one version on, with its edit in it.
LEMMA EditedTyped ==
    ASSUME Config!ConfigTypeOK, NEW e \in Handlers
    PROVE  /\ Config!Edited(e) \in Config!Document
           /\ Config!Edited(e).edits = work[e].doc.edits \cup {e}
           /\ Config!Edited(e).version = work[e].doc.version + 1
           /\ Config!Edited(e).parses
<1>1. work[e].doc \in Config!Document
  BY DEF Config!ConfigTypeOK, Config!Work, Config!Workers
<1>2. PICK d \in Config!Document : d = work[e].doc
  BY <1>1
<1>3. d.edits \cup {e} \in SUBSET Handlers /\ d.version + 1 \in Nat
  BY DEF Config!Document
<1>4. ASSUME NEW edits \in SUBSET Handlers, NEW version \in Nat
      PROVE  LET made == [d EXCEPT !.edits = edits, !.version = version, !.parses = TRUE]
             IN  /\ made \in Config!Document
                 /\ made.edits = edits /\ made.version = version /\ made.parses
  BY DEF Config!Document
<1> DEFINE made == [d EXCEPT !.edits = d.edits \cup {e}, !.version = d.version + 1,
                             !.parses = TRUE]
<1>5. Config!Edited(e) = made
  BY <1>2 DEF Config!Edited
<1>6. /\ made \in Config!Document /\ made.edits = d.edits \cup {e}
      /\ made.version = d.version + 1 /\ made.parses
  BY <1>3, <1>4
<1> HIDE DEF made
<1> QED
  BY <1>2, <1>5, <1>6

\* A handler in flight runs on an instance.
Placed == \A w \in Config!Workers : ~Config!At(w, "idle") => work[w].instance \in Nodes

\* A handler starts on an instance and stays there.
LEMMA HandlersStayPlaced ==
    ASSUME Config!ConfigTypeOK, Placed, Config!ConfigNext PROVE Placed'
<1> SUFFICES ASSUME NEW w \in Config!Workers
    PROVE ~Config!At(w, "idle")' => work'[w].instance \in Nodes
  BY DEF Placed
<1>1. /\ work \in [Config!Workers -> Config!Work] /\ work[w] \in Config!Work
      /\ Config!At(w, "idle") \/ work[w].instance \in Nodes
  BY DEF Config!ConfigTypeOK, Placed
<1>2. ASSUME NEW v \in Config!Workers, Config!Ends(v)
      PROVE  ~Config!At(w, "idle")' => work'[w].instance \in Nodes
  BY <1>1, <1>2 DEF Config!Ends, Config!At, Config!NoWork
<1>3. ASSUME NEW v \in Config!Workers, ~Config!At(v, "idle"), NEW phase, NEW doc,
             Config!Step(v, phase, doc)
      PROVE  work'[w].instance \in Nodes \/ UNCHANGED work[w]
  BY <1>1, <1>3 DEF Config!Step, Config!At, Config!Work
<1>4. ASSUME NEW v \in Config!Workers, NEW i \in Nodes, NEW phase, NEW doc,
             Config!Begins(v, i, phase, doc)
      PROVE  work'[w].instance \in Nodes \/ UNCHANGED work[w]
  BY <1>1, <1>4 DEF Config!Begins
<1>5. ASSUME NEW r \in Readers PROVE r \in Config!Workers
  BY DEF Config!Workers
<1>6. ASSUME NEW e \in Handlers PROVE e \in Config!Workers
  BY DEF Config!Workers
<1>7. ASSUME NEW r \in Readers, NEW i \in Nodes, Config!Current(r, i)
      PROVE  ~Config!At(w, "idle")' => work'[w].instance \in Nodes
  BY <1>1, <1>4, <1>5, <1>7 DEF Config!Current, Config!At
<1>8. ASSUME NEW e \in Handlers, NEW i \in Nodes,
             Config!Open(e, i) \/ Config!Commit(e, i) \/ Config!Lock(e, i)
      PROVE  ~Config!At(w, "idle")' => work'[w].instance \in Nodes
  BY <1>1, <1>2, <1>4, <1>6, <1>8 DEF Config!Open, Config!Commit, Config!Lock, Config!At
<1>9. ASSUME NEW r \in Readers, Config!Unchanged(r)
      PROVE  ~Config!At(w, "idle")' => work'[w].instance \in Nodes
  BY <1>1, <1>2, <1>3, <1>5, <1>9 DEF Config!Unchanged, Config!At
<1>10. ASSUME NEW e \in Handlers,
              \/ Config!Opened(e) \/ Config!Compare(e) \/ Config!Put(e)
              \/ Config!Reload(e) \/ Config!Acknowledge(e)
       PROVE  ~Config!At(w, "idle")' => work'[w].instance \in Nodes
  BY <1>1, <1>2, <1>3, <1>6, <1>10 DEF Config!Opened, Config!Compare, Config!Put,
     Config!Reload, Config!Acknowledge, Config!To, Config!At
<1>11. ASSUME NEW v \in Config!Workers, Config!Refreshed(v) \/ Config!Dropped(v)
       PROVE  ~Config!At(w, "idle")' => work'[w].instance \in Nodes
  BY <1>1, <1>2, <1>3, <1>11 DEF Config!Refreshed, Config!Dropped, Config!To, Config!At
<1>12. ASSUME UNCHANGED work PROVE ~Config!At(w, "idle")' => work'[w].instance \in Nodes
  BY <1>1, <1>12 DEF Config!At
<1> QED
  BY <1>7, <1>8, <1>9, <1>10, <1>11, <1>12
  DEF Config!ConfigNext, Config!Restart, Config!Corrupted, Config!Passes

\* Every step of a handler, of the world and of the clock keeps the store typed.
LEMMA ConfigStepTyped ==
    ASSUME Config!ConfigTypeOK, Placed, Config!ConfigNext PROVE Config!ConfigTypeOK'
<1>1. /\ kind \in Stores /\ mishap \in Mishaps /\ time \in 0..MaxSeconds
      /\ stored \in Config!Document /\ cached \in [Nodes -> Config!Cache]
      /\ writing \in [Nodes -> Handlers \cup {Nobody}]
      /\ work \in [Config!Workers -> Config!Work]
      /\ acked \subseteq Handlers /\ editedAt \subseteq Nodes
      /\ replacedAt \in [Config!Generations -> Nat]
  BY DEF Config!ConfigTypeOK
<1>2. ASSUME NEW w \in Config!Workers
      PROVE  /\ work[w].doc \in Config!Document /\ work[w].phase \in Config!Phases
             /\ work[w].instance \in Nodes \cup {Nobody}
  BY <1>1 DEF Config!Work
<1>3. Config!ParseOrDefault(stored) \in Config!Document
  BY <1>1, DocumentsTyped
<1>4. ASSUME NEW e \in Handlers PROVE e \in Config!Workers
  BY DEF Config!Workers
<1>5. ASSUME NEW r \in Readers PROVE r \in Config!Workers
  BY DEF Config!Workers
<1>6. ASSUME NEW r \in Readers, NEW i \in Nodes, Config!Current(r, i)
      PROVE  Config!ConfigTypeOK'
  <2>1. work' \in [Config!Workers -> Config!Work]
    BY <1>1, <1>5, <1>6, WorkTyped DEF Config!Current, Config!Phases
  <2> QED
    BY <1>1, <1>6, <2>1 DEF Config!Current, Config!ConfigTypeOK
<1>7. ASSUME NEW r \in Readers, Config!Unchanged(r) PROVE Config!ConfigTypeOK'
  <2> DEFINE i == work[r].instance
  <2>1. CASE cached' = [cached EXCEPT ![i].checked = time] /\ Config!Ends(r)
    <3>1. work' \in [Config!Workers -> Config!Work]
      BY <1>1, <1>2, <1>5, <2>1, WorkTyped
    <3>2. [cached[i] EXCEPT !.checked = time] \in Config!Cache \/ i \notin Nodes
      BY <1>1, ConfigFacts DEF Config!Cache
    <3>3. cached' \in [Nodes -> Config!Cache]
      BY <1>1, <2>1, <3>2
    <3> QED
      BY <1>1, <1>7, <3>1, <3>3 DEF Config!Unchanged, Config!ConfigTypeOK
  <2>2. CASE Config!Step(r, "store", Config!ParseOrDefault(stored)) /\ UNCHANGED cached
    <3>1. work' \in [Config!Workers -> Config!Work]
      BY <1>3, <1>5, <2>2, WorkTyped DEF Config!Phases
    <3> QED
      BY <1>1, <1>7, <2>2, <3>1 DEF Config!Unchanged, Config!ConfigTypeOK
  <2> QED
    BY <1>7, <2>1, <2>2 DEF Config!Unchanged
<1>8. ASSUME NEW w \in Config!Workers, Config!Refreshed(w) PROVE Config!ConfigTypeOK'
  <2>1. work' \in [Config!Workers -> Config!Work]
    BY <1>2, <1>8, WorkTyped DEF Config!Refreshed, Config!Phases
  <2>2. cached' \in [Nodes -> Config!Cache]
    <3>1. CASE work[w].instance \in Nodes
      BY <1>2, <1>8, <3>1, ServeTyped DEF Config!Refreshed
    <3>2. CASE work[w].instance \notin Nodes
      BY <1>1, <1>8, <3>2 DEF Config!Refreshed, Config!Serve
    <3> QED
      BY <3>1, <3>2
  <2> QED
    BY <1>1, <1>8, <2>1, <2>2 DEF Config!Refreshed, Config!ConfigTypeOK
<1>9. ASSUME NEW e \in Handlers, NEW i \in Nodes, Config!Open(e, i)
      PROVE  Config!ConfigTypeOK'
  <2>1. work' \in [Config!Workers -> Config!Work]
    BY <1>3, <1>4, <1>9, WorkTyped DEF Config!Open, Config!Phases
  <2> QED
    BY <1>1, <1>9, <2>1 DEF Config!Open, Config!ConfigTypeOK
<1>10. ASSUME NEW e \in Handlers, Config!Opened(e) PROVE Config!ConfigTypeOK'
  <2>1. work' \in [Config!Workers -> Config!Work]
    BY <1>2, <1>4, <1>10, WorkTyped DEF Config!Opened, Config!Phases
  <2>2. cached' \in [Nodes -> Config!Cache]
    <3>1. CASE work[e].instance \in Nodes
      BY <1>2, <1>4, <1>10, <3>1, ServeTyped DEF Config!Opened
    <3>2. CASE work[e].instance \notin Nodes
      BY <1>1, <1>10, <3>2 DEF Config!Opened, Config!Serve
    <3> QED
      BY <3>1, <3>2
  <2> QED
    BY <1>1, <1>10, <2>1, <2>2 DEF Config!Opened, Config!ConfigTypeOK
<1>11. ASSUME NEW e \in Handlers, NEW i \in Nodes, Config!Commit(e, i)
       PROVE  Config!ConfigTypeOK'
  <2>1. work' \in [Config!Workers -> Config!Work]
    BY <1>2, <1>4, <1>11, WorkTyped DEF Config!Commit, Config!Phases
  <2>2. /\ stored' \in Config!Document
        /\ replacedAt' \in [Config!Generations -> Nat]
        /\ editedAt' \subseteq Nodes
    BY <1>1, <1>11, ReplaceTyped, EditedTyped DEF Config!Commit
  <2> QED
    BY <1>1, <1>11, <2>1, <2>2 DEF Config!Commit, Config!ConfigTypeOK
<1>12. ASSUME NEW e \in Handlers, NEW i \in Nodes, Config!Lock(e, i)
       PROVE  Config!ConfigTypeOK'
  <2>1. work' \in [Config!Workers -> Config!Work]
    BY <1>2, <1>4, <1>12, WorkTyped DEF Config!Lock, Config!Phases
  <2>2. writing' \in [Nodes -> Handlers \cup {Nobody}]
    BY <1>1, <1>12 DEF Config!Lock
  <2> QED
    BY <1>1, <1>12, <2>1, <2>2 DEF Config!Lock, Config!ConfigTypeOK
<1>13. ASSUME NEW e \in Handlers, Config!Compare(e) PROVE Config!ConfigTypeOK'
  <2>1. work' \in [Config!Workers -> Config!Work]
    BY <1>2, <1>4, <1>13, WorkTyped DEF Config!Compare, Config!Phases
  <2>2. cached' \in [Nodes -> Config!Cache]
    <3>1. CASE work[e].instance \in Nodes
      BY <1>3, <1>13, <3>1, ServeTyped DEF Config!Compare
    <3>2. CASE work[e].instance \notin Nodes
      BY <1>1, <1>13, <3>2 DEF Config!Compare, Config!Serve
    <3> QED
      BY <3>1, <3>2
  <2>3. writing' \in [Nodes -> Handlers \cup {Nobody}]
    BY <1>1, <1>13 DEF Config!Compare
  <2> QED
    BY <1>1, <1>13, <2>1, <2>2, <2>3 DEF Config!Compare, Config!ConfigTypeOK
<1>14. ASSUME NEW e \in Handlers, Config!Put(e) PROVE Config!ConfigTypeOK'
  <2>0. work[e].instance \in Nodes
    BY <1>4, <1>14 DEF Placed, Config!Put, Config!At
  <2>1. work' \in [Config!Workers -> Config!Work]
    BY <1>2, <1>4, <1>14, WorkTyped DEF Config!Put, Config!Phases
  <2>2. /\ stored' \in Config!Document
        /\ replacedAt' \in [Config!Generations -> Nat]
        /\ editedAt' \subseteq Nodes
    BY <1>1, <1>14, <2>0, ReplaceTyped, EditedTyped DEF Config!Put
  <2> QED
    BY <1>1, <1>14, <2>1, <2>2 DEF Config!Put, Config!ConfigTypeOK
<1>15. ASSUME NEW e \in Handlers, Config!Reload(e) PROVE Config!ConfigTypeOK'
  <2>1. work' \in [Config!Workers -> Config!Work]
    BY <1>3, <1>4, <1>15, WorkTyped DEF Config!Reload, Config!Phases
  <2> QED
    BY <1>1, <1>15, <2>1 DEF Config!Reload, Config!ConfigTypeOK
<1>16. ASSUME NEW e \in Handlers, Config!Acknowledge(e) PROVE Config!ConfigTypeOK'
  <2>1. work' \in [Config!Workers -> Config!Work]
    BY <1>2, <1>4, <1>16, WorkTyped DEF Config!Acknowledge
  <2>2. writing' \in [Nodes -> Handlers \cup {Nobody}] /\ acked' \subseteq Handlers
    BY <1>1, <1>16 DEF Config!Acknowledge
  <2> QED
    BY <1>1, <1>16, <2>1, <2>2 DEF Config!Acknowledge, Config!ConfigTypeOK
<1>17. ASSUME NEW w \in Config!Workers, Config!Dropped(w) PROVE Config!ConfigTypeOK'
  <2>1. work' \in [Config!Workers -> Config!Work]
    BY <1>2, <1>17, WorkTyped DEF Config!Dropped
  <2>2. writing' \in [Nodes -> Handlers \cup {Nobody}]
    BY <1>1, <1>17 DEF Config!Dropped
  <2> QED
    BY <1>1, <1>17, <2>1, <2>2 DEF Config!Dropped, Config!ConfigTypeOK
<1>18. CASE Config!Corrupted
  <2>1. PICK d \in Config!Document : d = [stored EXCEPT !.parses = FALSE]
    BY <1>1 DEF Config!Document
  <2>2. stored' \in Config!Document /\ replacedAt' \in [Config!Generations -> Nat]
    BY <1>18, <2>1, ReplaceTyped DEF Config!Corrupted
  <2> QED
    BY <1>1, <1>18, <2>2 DEF Config!Corrupted, Config!ConfigTypeOK
<1>19. ASSUME NEW i \in Nodes, Config!Restart(i) PROVE Config!ConfigTypeOK'
  <2>1. CASE UNCHANGED <<stored, replacedAt>> /\ Config!Serve(i, Config!ParseOrDefault(stored))
    BY <1>1, <1>3, <1>19, <2>1, ServeTyped DEF Config!Restart, Config!ConfigTypeOK
  <2>2. CASE /\ Config!Replace(Config!Default(0))
             /\ cached' = [cached EXCEPT ![i] = [doc |-> stored', checked |-> time]]
    <3>1. Config!Default(0) \in Config!Document
      BY ConfigFacts DEF Config!Default, Config!Document, Config!Generations
    <3>2. stored' \in Config!Document /\ replacedAt' \in [Config!Generations -> Nat]
      BY <2>2, <3>1, ReplaceTyped
    <3>3. [doc |-> stored', checked |-> time] \in Config!Cache
      BY <1>1, <3>2, ConfigFacts DEF Config!Cache
    <3>4. cached' \in [Nodes -> Config!Cache]
      BY <1>1, <2>2, <3>3
    <3> QED
      BY <1>1, <1>19, <3>2, <3>4 DEF Config!Restart, Config!ConfigTypeOK
  <2> QED
    BY <1>19, <2>1, <2>2 DEF Config!Restart
<1>20. CASE Config!Passes
  BY <1>1, <1>20, ConfigFacts DEF Config!Passes, Config!ConfigTypeOK
<1> QED
  BY <1>6, <1>7, <1>8, <1>9, <1>10, <1>11, <1>12, <1>13, <1>14, <1>15, <1>16,
     <1>17, <1>18, <1>19, <1>20 DEF Config!ConfigNext

-----------------------------------------------------------------------------
(* Configuration: caches *)

\* The stored generation, and every later one, has yet to be replaced.
Unreplaced ==
    \A g \in Config!Generations :
        g >= stored.generation => replacedAt[g] = MaxSeconds + 1

\* The phases in which a handler is about to serve the document it has loaded.
Loaded == {"opening", "checked", "store"}

\* What a handler has loaded was the stored document when it took its last
\* step, and a handler that waits for nobody takes its next one in time.
WorkTimely ==
    \A w \in Config!Workers :
        /\ work[w].at <= time
        /\ work[w].phase \in Loaded => work[w].at <= replacedAt[work[w].doc.generation]
        /\ work[w].phase \notin {"idle", "open"} => time <= work[w].at + MaxDelay

\* What an instance serves was still the stored document a step before it last looked.
CacheTimely ==
    \A i \in Nodes :
        /\ cached[i].checked <= time
        /\ cached[i].checked <= replacedAt[cached[i].doc.generation] + MaxDelay

\* Only a replacement changes the history, and only the clock changes the time.
LEMMA ConfigHistory ==
    ASSUME Config!ConfigTypeOK, Config!ConfigNext
    PROVE  /\ \/ UNCHANGED <<stored, replacedAt>>
              \/ \E doc \in Config!Document : Config!Replace(doc)
           /\ UNCHANGED time \/ Config!Passes
<1>1. stored \in Config!Document /\ stored.parses \in BOOLEAN
  BY DEF Config!ConfigTypeOK, Config!Document
<1>2. [stored EXCEPT !.parses = FALSE] \in Config!Document
  BY <1>1 DEF Config!Document
<1>3. Config!Default(0) \in Config!Document
  BY ConfigFacts DEF Config!Default, Config!Document, Config!Generations
<1>4. ASSUME NEW e \in Handlers PROVE Config!Edited(e) \in Config!Document
  BY EditedTyped
<1> QED
  BY <1>2, <1>3, <1>4 DEF Config!ConfigNext, Config!Current, Config!Open, Config!Commit,
     Config!Lock, Config!Restart, Config!Unchanged, Config!Opened, Config!Compare,
     Config!Put, Config!Reload, Config!Acknowledge, Config!Refreshed, Config!Dropped,
     Config!Corrupted, Config!Passes

\* A replacement ends the time of the stored generation, now.
LEMMA HistoryGrows ==
    ASSUME Config!ConfigTypeOK, Config!ConfigNext, Unreplaced
    PROVE  /\ \A g \in Config!Generations :
                \/ replacedAt'[g] = replacedAt[g]
                \/ g = stored.generation /\ replacedAt'[g] = time
           /\ stored'.generation \in {stored.generation, stored.generation + 1}
           /\ stored'.generation # stored.generation
                => \E doc \in Config!Document : Config!Replace(doc)
           /\ UNCHANGED <<stored, replacedAt>> \/ UNCHANGED time
<1>1. /\ replacedAt \in [Config!Generations -> Nat]
      /\ stored.generation \in Config!Generations
  BY DEF Config!ConfigTypeOK, Config!Document
<1>2. CASE UNCHANGED <<stored, replacedAt>>
  BY <1>1, <1>2
<1>3. ASSUME NEW doc \in Config!Document, Config!Replace(doc)
      PROVE  /\ \A g \in Config!Generations :
                  \/ replacedAt'[g] = replacedAt[g]
                  \/ g = stored.generation /\ replacedAt'[g] = time
             /\ stored'.generation = stored.generation + 1
  BY <1>1, <1>3, ReplaceTyped DEF Config!Replace
<1>4. UNCHANGED <<stored, replacedAt>> \/ UNCHANGED time
  BY ConfigHistory DEF Config!Passes
<1> QED
  BY <1>2, <1>3, <1>4, ConfigHistory

\* A later generation than the stored one stays unreplaced.
LEMMA UnreplacedStep ==
    ASSUME Config!ConfigTypeOK, Config!ConfigNext, Unreplaced PROVE Unreplaced'
<1>1. stored.generation \in Nat /\ Config!Generations \subseteq Nat
  BY ConfigFacts DEF Config!ConfigTypeOK, Config!Document, Config!Generations
<1>2. CASE UNCHANGED <<stored, replacedAt>>
  BY <1>2 DEF Unreplaced
<1>3. ASSUME NEW doc \in Config!Document, Config!Replace(doc) PROVE Unreplaced'
  <2>1. stored'.generation = stored.generation + 1
    BY <1>3, ReplaceTyped
  <2>2. ASSUME NEW g \in Config!Generations, g >= stored.generation + 1
        PROVE  g # stored.generation /\ g >= stored.generation
    BY <1>1, <2>2
  <2>3. ASSUME NEW g \in Config!Generations, g # stored.generation
        PROVE  replacedAt'[g] = replacedAt[g]
    BY <1>3, <2>3, HistoryGrows
  <2> QED
    BY <2>1, <2>2, <2>3 DEF Unreplaced
<1> QED
  BY <1>2, <1>3, ConfigHistory

\* A moment that lay before the end of a generation still does.
LEMMA MomentsHold ==
    ASSUME Config!ConfigTypeOK, Config!ConfigNext, Unreplaced,
           NEW x \in Nat, NEW g \in Config!Generations, NEW d \in Nat,
           x <= time, x <= replacedAt[g] + d
    PROVE  x <= replacedAt'[g] + d
<1>1. replacedAt \in [Config!Generations -> Nat] /\ time \in Nat
  BY ConfigFacts DEF Config!ConfigTypeOK
<1> QED
  BY <1>1, HistoryGrows

\* The present lies before the end of the stored generation.
LEMMA StoredIsCurrent ==
    ASSUME Config!ConfigTypeOK, Unreplaced
    PROVE  /\ stored.generation \in Config!Generations
           /\ time <= replacedAt[stored.generation]
           /\ Config!ParseOrDefault(stored).generation = stored.generation
<1>1. stored \in Config!Document /\ time \in 0..MaxSeconds
  BY DEF Config!ConfigTypeOK
<1>2. stored.generation \in Config!Generations /\ stored.generation \in Nat
  BY <1>1, ConfigFacts DEF Config!Document, Config!Generations
<1>3. replacedAt[stored.generation] = MaxSeconds + 1
  BY <1>2 DEF Unreplaced
<1> QED
  BY <1>1, <1>2, <1>3, ConfigFacts, DocumentsTyped

\* A step of a handler is stamped, and what it has loaded is the stored document.
LEMMA HandlersAreTimely ==
    ASSUME Config!ConfigTypeOK, Config!ConfigNext, Unreplaced, WorkTimely
    PROVE  WorkTimely'
<1> DEFINE Fine(w) == /\ work'[w].at <= time'
                      /\ work'[w].phase \in Loaded
                           => work'[w].at <= replacedAt'[work'[w].doc.generation]
                      /\ work'[w].phase \notin {"idle", "open"}
                           => time' <= work'[w].at + MaxDelay
<1> SUFFICES ASSUME NEW w \in Config!Workers PROVE Fine(w)
  BY DEF WorkTimely
<1>1. /\ work \in [Config!Workers -> Config!Work] /\ work[w] \in Config!Work
      /\ time \in Nat /\ work[w].at \in Nat
      /\ work[w].doc.generation \in Config!Generations
      /\ replacedAt \in [Config!Generations -> Nat]
  BY ConfigFacts DEF Config!ConfigTypeOK, Config!Work, Config!Document
<1>2. CASE UNCHANGED work[w]
  <2>1. work[w].at <= time'
    BY <1>1, ConfigHistory DEF WorkTimely, Config!Passes
  <2>2. work[w].phase \in Loaded => work[w].at <= replacedAt'[work[w].doc.generation]
    <3>1. work[w].phase \in Loaded => work[w].at <= replacedAt'[work[w].doc.generation] + 0
      BY <1>1, MomentsHold DEF WorkTimely
    <3>2. replacedAt'[work[w].doc.generation] \in Nat
      BY <1>1, HistoryGrows
    <3> QED
      BY <3>1, <3>2
  <2>3. work[w].phase \notin {"idle", "open"} => time' <= work[w].at + MaxDelay
    BY <1>1, ConfigFacts, ConfigHistory DEF WorkTimely, Config!Passes, Config!At
  <2> QED
    BY <1>2, <2>1, <2>2, <2>3
<1>3. ASSUME NEW v \in Config!Workers, Config!Ends(v), UNCHANGED time PROVE Fine(w)
  <2>1. CASE w = v
    BY <1>1, <1>3, <2>1 DEF Config!Ends, Config!NoWork, Loaded
  <2> QED
    BY <1>1, <1>2, <1>3, <2>1 DEF Config!Ends
<1>4. ASSUME NEW v \in Config!Workers, NEW phase, NEW doc,
             phase \in Loaded => doc.generation = stored.generation /\ UNCHANGED replacedAt,
             \/ Config!Step(v, phase, doc)
             \/ \E i \in Nodes : Config!Begins(v, i, phase, doc),
             UNCHANGED time
      PROVE  Fine(w)
  <2>1. CASE w = v
    <3>1. /\ work'[v].phase = phase /\ work'[v].doc = doc /\ work'[v].at = time
      BY <1>1, <1>4, <2>1 DEF Config!Step, Config!Begins, Config!Work
    <3>2. phase \in Loaded => time <= replacedAt'[doc.generation]
      BY <1>4, StoredIsCurrent
    <3> QED
      BY <1>1, <1>4, <2>1, <3>1, <3>2, ConfigFacts
  <2> QED
    BY <1>1, <1>2, <1>4, <2>1 DEF Config!Step, Config!Begins
<1> HIDE DEF Fine
<1>5. ASSUME NEW r \in Readers PROVE r \in Config!Workers
  BY DEF Config!Workers
<1>6. ASSUME NEW e \in Handlers PROVE e \in Config!Workers
  BY DEF Config!Workers
<1>7. Config!ParseOrDefault(stored).generation = stored.generation
  BY StoredIsCurrent
<1>8. ASSUME NEW r \in Readers, NEW i \in Nodes, Config!Current(r, i) PROVE Fine(w)
  BY <1>4, <1>5, <1>8 DEF Config!Current
<1>9. ASSUME NEW e \in Handlers, NEW i \in Nodes,
             Config!Open(e, i) \/ Config!Commit(e, i) \/ Config!Lock(e, i)
      PROVE  Fine(w)
  <2>1. CASE Config!Open(e, i)
    BY <1>4, <1>6, <1>7, <2>1 DEF Config!Open
  <2>2. CASE Config!Commit(e, i)
    BY <1>3, <1>4, <1>6, <2>2 DEF Config!Commit, Loaded
  <2>3. CASE Config!Lock(e, i)
    BY <1>4, <1>6, <2>3 DEF Config!Lock, Loaded
  <2> QED
    BY <1>9, <2>1, <2>2, <2>3
<1>10. ASSUME NEW r \in Readers, Config!Unchanged(r) PROVE Fine(w)
  BY <1>3, <1>4, <1>5, <1>7, <1>10 DEF Config!Unchanged
<1>11. ASSUME NEW e \in Handlers,
              \/ Config!Opened(e) \/ Config!Compare(e) \/ Config!Put(e)
              \/ Config!Reload(e) \/ Config!Acknowledge(e)
       PROVE  Fine(w)
  <2>1. CASE Config!Opened(e) \/ Config!Compare(e) \/ Config!Put(e)
    BY <1>3, <1>4, <1>6, <2>1 DEF Config!Opened, Config!Compare, Config!Put, Config!To, Loaded
  <2>2. CASE Config!Reload(e)
    BY <1>4, <1>6, <1>7, <2>2 DEF Config!Reload
  <2>3. CASE Config!Acknowledge(e)
    BY <1>3, <1>6, <2>3 DEF Config!Acknowledge
  <2> QED
    BY <1>11, <2>1, <2>2, <2>3
<1>12. ASSUME NEW v \in Config!Workers, Config!Refreshed(v) \/ Config!Dropped(v)
       PROVE  Fine(w)
  BY <1>3, <1>4, <1>12 DEF Config!Refreshed, Config!Dropped, Config!To, Loaded
<1>13. UNCHANGED work => Fine(w)
  BY <1>2
<1> QED
  BY <1>8, <1>9, <1>10, <1>11, <1>12, <1>13
  DEF Config!ConfigNext, Config!Restart, Config!Corrupted, Config!Passes

\* Whatever an instance is given to serve was current a step ago.
LEMMA CachesAreTimely ==
    ASSUME Config!ConfigTypeOK, Placed, Config!ConfigNext, Unreplaced, WorkTimely, CacheTimely
    PROVE  CacheTimely'
<1> DEFINE Fine(i) == /\ cached'[i].checked <= time'
                      /\ cached'[i].checked <= replacedAt'[cached'[i].doc.generation] + MaxDelay
<1> SUFFICES ASSUME NEW i \in Nodes PROVE Fine(i)
  BY DEF CacheTimely
<1>1. /\ cached \in [Nodes -> Config!Cache] /\ cached[i] \in Config!Cache
      /\ time \in Nat /\ cached[i].checked \in Nat
      /\ cached[i].doc.generation \in Config!Generations
      /\ replacedAt \in [Config!Generations -> Nat]
  BY ConfigFacts DEF Config!ConfigTypeOK, Config!Cache, Config!Document
<1>2. CASE UNCHANGED cached[i]
  <2>1. cached[i].checked <= time'
    BY <1>1, ConfigHistory DEF CacheTimely, Config!Passes
  <2>2. cached[i].checked <= replacedAt'[cached[i].doc.generation] + MaxDelay
    BY <1>1, ConfigFacts, MomentsHold DEF CacheTimely
  <2> QED
    BY <1>2, <2>1, <2>2
<1>3. ASSUME NEW j, NEW doc, Config!Serve(j, doc), UNCHANGED <<time, replacedAt>>,
             time <= replacedAt[doc.generation] + MaxDelay
      PROVE  Fine(i)
  <2>1. CASE i = j
    BY <1>1, <1>3, <2>1 DEF Config!Serve
  <2> QED
    BY <1>1, <1>2, <1>3, <2>1 DEF Config!Serve
<1>4. ASSUME NEW w \in Config!Workers, work[w].phase \in Loaded
      PROVE  time <= replacedAt[work[w].doc.generation] + MaxDelay
  <2>1. work[w].at \in Nat /\ replacedAt[work[w].doc.generation] \in Nat
    BY <1>1, ConfigFacts DEF Config!ConfigTypeOK, Config!Work, Config!Document
  <2>2. /\ work[w].at <= replacedAt[work[w].doc.generation]
        /\ time <= work[w].at + MaxDelay
    BY <1>4 DEF WorkTimely, Loaded
  <2> QED
    BY <1>1, <2>1, <2>2, ConfigFacts
<1>5. time <= replacedAt[Config!ParseOrDefault(stored).generation] + MaxDelay
  <2>1. replacedAt[stored.generation] \in Nat
    BY <1>1, StoredIsCurrent
  <2> QED
    BY <1>1, <2>1, StoredIsCurrent, ConfigFacts
<1> HIDE DEF Fine
<1>6. ASSUME NEW e \in Handlers,  Config!Opened(e) \/ Config!Compare(e) PROVE Fine(i)
  <2>1. e \in Config!Workers
    BY DEF Config!Workers
  <2>2. CASE Config!Opened(e)
    BY <1>3, <1>4, <2>1, <2>2 DEF Config!Opened, Config!At, Loaded
  <2>3. CASE Config!Compare(e)
    BY <1>3, <1>5, <2>3 DEF Config!Compare
  <2> QED
    BY <1>6, <2>2, <2>3
<1>7. ASSUME NEW w \in Config!Workers, Config!Refreshed(w) PROVE Fine(i)
  BY <1>3, <1>4, <1>7 DEF Config!Refreshed, Config!At, Loaded
<1>8. ASSUME NEW r \in Readers, Config!Unchanged(r) PROVE Fine(i)
  <2>1. r \in Config!Workers
    BY DEF Config!Workers
  <2>2. CASE UNCHANGED cached
    BY <1>2, <2>2
  <2>3. CASE /\ cached' = [cached EXCEPT ![work[r].instance].checked = time]
             /\ work[r].doc.generation = cached[work[r].instance].doc.generation
    <3>1. CASE i = work[r].instance
      <4>1. cached'[i].checked = time /\ cached'[i].doc = cached[i].doc
        BY <1>1, <2>3, <3>1 DEF Config!Cache
      <4>2. time <= replacedAt[cached[i].doc.generation] + MaxDelay
        BY <1>4, <1>8, <2>1, <2>3, <3>1 DEF Config!Unchanged, Config!At, Loaded
      <4> QED
        BY <1>1, <1>8, <4>1, <4>2 DEF Config!Unchanged, Fine
    <3> QED
      BY <1>1, <1>2, <2>3, <3>1
  <2> QED
    BY <1>8, <2>2, <2>3 DEF Config!Unchanged
<1>9. ASSUME NEW j \in Nodes, Config!Restart(j) PROVE Fine(i)
  <2>1. CASE UNCHANGED <<stored, replacedAt>> /\ Config!Serve(j, Config!ParseOrDefault(stored))
    BY <1>3, <1>5, <1>9, <2>1 DEF Config!Restart
  <2>2. CASE cached' = [cached EXCEPT ![j] = [doc |-> stored', checked |-> time]]
    <3>1. CASE i = j
      <4>1. cached'[i].checked = time /\ cached'[i].doc = stored'
        BY <1>1, <2>2, <3>1
      <4>2. /\ Unreplaced' /\ Config!ConfigTypeOK'
        BY UnreplacedStep, ConfigStepTyped
      <4>3. stored'.generation \in Config!Generations /\ stored.generation \in Nat
        BY <4>2, ConfigFacts DEF Config!ConfigTypeOK, Config!Document, Config!Generations
      <4>4. stored'.generation \in Nat /\ time \in 0..MaxSeconds
        BY <4>3, ConfigFacts DEF Config!Generations, Config!ConfigTypeOK
      <4>5. replacedAt'[stored'.generation] = MaxSeconds + 1
        BY <4>2, <4>3, <4>4 DEF Unreplaced
      <4> QED
        BY <1>9, <4>1, <4>4, <4>5, ConfigFacts DEF Config!Restart, Fine
    <3> QED
      BY <1>1, <1>2, <2>2, <3>1
  <2> QED
    BY <1>9, <2>1, <2>2 DEF Config!Restart
<1>10. UNCHANGED cached => Fine(i)
  BY <1>2
<1> QED
  BY <1>6, <1>7, <1>8, <1>9, <1>10
  DEF Config!ConfigNext, Config!Current, Config!Open, Config!Commit, Config!Lock,
      Config!Put, Config!Reload, Config!Acknowledge, Config!Dropped,
      Config!Corrupted, Config!Passes

-----------------------------------------------------------------------------
(* Configuration: publications *)

\* Where publications are promised to build on one another: PostgreSQL, or one
\* publishing instance of S3, with documents that can be read.
Orderly ==
    /\ mishap \cap {"corruption", "readError"} = {}
    /\ kind = "postgres" \/ \E i \in Nodes : editedAt \subseteq {i}

\* The phases in which S3's save holds the mutex of its instance.
Saving == {"locked", "put", "refresh", "store", "answered"}

Locks ==
    \A e \in Handlers :
        /\ work[e].phase \in {"locked", "put"} => kind = "s3"
        /\ kind = "s3" /\ work[e].phase \in Saving => writing[work[e].instance] = e

\* An editor's document is the stored one or an earlier one; the one that is
\* about to be put is the stored one; and an edit that was written stays.
EditorInStep(e) ==
    /\ work[e].phase \in {"opening", "open", "locked", "put"} =>
         /\ work[e].doc.version <= stored.version
         /\ work[e].doc.version = stored.version => work[e].doc.edits = stored.edits
    /\ work[e].phase = "put" /\ editedAt \subseteq {work[e].instance} =>
         work[e].doc.version = stored.version
    /\ work[e].phase \in {"refresh", "store", "answered"} => e \in stored.edits

Ordered ==
    Orderly =>
        /\ stored.parses
        /\ \A e \in Handlers : EditorInStep(e)
        /\ acked \subseteq stored.edits

\* A mutex is held by one save at a time, and by every save in flight.
LEMMA LocksStep ==
    ASSUME Config!ConfigTypeOK, Placed, Config!ConfigNext, Locks PROVE Locks'
<1> DEFINE Fine(e) == /\ work'[e].phase \in {"locked", "put"} => kind' = "s3"
                      /\ kind' = "s3" /\ work'[e].phase \in Saving
                           => writing'[work'[e].instance] = e
<1> SUFFICES ASSUME NEW e \in Handlers PROVE Fine(e)
  BY DEF Locks
<1>0. e \in Config!Workers /\ e \notin Readers
  BY ConfigFacts DEF Config!Workers
<1>1. /\ work \in [Config!Workers -> Config!Work] /\ work[e] \in Config!Work
      /\ writing \in [Nodes -> Handlers \cup {Nobody}]
      /\ UNCHANGED kind
  BY <1>0 DEF Config!ConfigTypeOK, Config!ConfigNext, Config!Current, Config!Open,
     Config!Commit, Config!Lock, Config!Restart, Config!Unchanged, Config!Opened,
     Config!Compare, Config!Put, Config!Reload, Config!Acknowledge, Config!Refreshed,
     Config!Dropped, Config!Corrupted, Config!Passes
<1>2. CASE UNCHANGED <<work[e], writing>>
  BY <1>1, <1>2 DEF Locks
<1>3. ASSUME NEW v \in Config!Workers, NEW phase, NEW doc, v # e,
             \/ Config!Step(v, phase, doc)
             \/ Config!Ends(v)
             \/ \E i \in Nodes : Config!Begins(v, i, phase, doc)
      PROVE  UNCHANGED work[e]
  BY <1>0, <1>1, <1>3 DEF Config!Step, Config!Ends, Config!Begins
<1>4. ASSUME Config!Ends(e) PROVE Fine(e)
  BY <1>0, <1>1, <1>4 DEF Config!Ends, Config!NoWork, Saving
<1>5. ASSUME NEW r \in Readers PROVE r \in Config!Workers /\ r # e
  BY <1>0 DEF Config!Workers
<1>6. ASSUME NEW x \in Handlers PROVE x \in Config!Workers /\ x # Nobody
  BY ConfigFacts DEF Config!Workers
<1>7. CASE UNCHANGED writing /\ \E r \in Readers :
             Config!Unchanged(r) \/ \E i \in Nodes : Config!Current(r, i)
  BY <1>2, <1>3, <1>5, <1>7 DEF Config!Unchanged, Config!Current
<1>8. ASSUME NEW x \in Handlers, x # e,
             \/ \E i \in Nodes : Config!Open(x, i) \/ Config!Commit(x, i)
             \/ Config!Opened(x) \/ Config!Put(x) \/ Config!Reload(x)
      PROVE  Fine(e)
  BY <1>2, <1>3, <1>6, <1>8
  DEF Config!Open, Config!Commit, Config!Opened, Config!Put, Config!Reload, Config!To
<1>9. ASSUME NEW i \in Nodes, Config!Open(e, i) \/ Config!Commit(e, i) PROVE Fine(e)
  BY <1>0, <1>1, <1>4, <1>9 DEF Config!Open, Config!Commit, Config!Begins, Saving
<1>10. ASSUME Config!Opened(e) \/ Config!Put(e) \/ Config!Reload(e) PROVE Fine(e)
  <2>1. /\ UNCHANGED writing /\ work'[e].instance = work[e].instance
        /\ \/ work[e].phase = "opening" /\ work'[e].phase = "open"
           \/ work[e].phase = "put" /\ work'[e].phase = "refresh"
           \/ work[e].phase = "refresh" /\ work'[e].phase = "store"
    BY <1>0, <1>1, <1>10 DEF Config!Opened, Config!Put, Config!Reload, Config!To,
       Config!Step, Config!At, Config!Work
  <2> QED
    BY <1>1, <2>1 DEF Locks, Saving
<1>11. ASSUME NEW x \in Handlers, NEW i \in Nodes, Config!Lock(x, i) PROVE Fine(e)
  <2>1. CASE x = e
    BY <1>0, <1>1, <1>11, <2>1 DEF Config!Lock, Config!Begins, Saving
  <2>2. CASE x # e
    <3>1. UNCHANGED work[e]
      BY <1>3, <1>6, <1>11, <2>2 DEF Config!Lock
    <3>2. ASSUME work[e].instance = i PROVE ~(kind = "s3" /\ work[e].phase \in Saving)
      BY <1>6, <1>11, <3>2 DEF Config!Lock, Locks
    <3> QED
      BY <1>0, <1>1, <1>11, <3>1, <3>2 DEF Config!Lock, Locks, Placed, Config!At, Saving
  <2> QED
    BY <2>1, <2>2
<1>12. ASSUME NEW x \in Handlers, Config!Compare(x) PROVE Fine(e)
  <2>1. CASE x = e
    <3>1. CASE Config!Ends(e)
      BY <1>4, <3>1
    <3>2. CASE Config!To(e, "put") /\ UNCHANGED writing
      <4>1. /\ work'[e].instance = work[e].instance /\ work'[e].phase = "put"
            /\ work[e].phase = "locked"
        BY <1>0, <1>1, <1>12, <2>1, <3>2
        DEF Config!Compare, Config!To, Config!Step, Config!At, Config!Work
      <4> QED
        BY <1>1, <3>2, <4>1 DEF Locks, Saving
    <3> QED
      BY <1>12, <2>1, <3>1, <3>2 DEF Config!Compare
  <2>2. CASE x # e
    <3>1. UNCHANGED work[e]
      BY <1>3, <1>6, <1>12, <2>2 DEF Config!Compare, Config!To
    <3>2. /\ work[x].phase = "locked" /\ kind = "s3" /\ writing[work[x].instance] = x
          /\ work[x].instance \in Nodes
      BY <1>6, <1>12 DEF Config!Compare, Config!At, Locks, Saving, Placed
    <3>3. \/ UNCHANGED writing
          \/ writing' = [writing EXCEPT ![work[x].instance] = Nobody]
      BY <1>12 DEF Config!Compare
    <3> QED
      BY <1>0, <1>1, <2>2, <3>1, <3>2, <3>3 DEF Locks, Placed, Config!At, Saving
  <2> QED
    BY <2>1, <2>2
<1>13. ASSUME NEW x \in Handlers, Config!Acknowledge(x) PROVE Fine(e)
  <2>1. CASE x = e
    BY <1>4, <1>13, <2>1 DEF Config!Acknowledge
  <2>2. CASE x # e
    <3>1. UNCHANGED work[e]
      BY <1>3, <1>6, <1>13, <2>2 DEF Config!Acknowledge
    <3>2. ASSUME NEW i \in Nodes, writing[i] = e PROVE writing'[i] = e
      BY <1>1, <1>13, <2>2, <3>2 DEF Config!Acknowledge
    <3> QED
      BY <1>0, <1>1, <3>1, <3>2 DEF Locks, Placed, Config!At, Saving
  <2> QED
    BY <2>1, <2>2
<1>14. ASSUME NEW w \in Config!Workers, Config!Dropped(w) PROVE Fine(e)
  <2>1. CASE w = e
    BY <1>4, <1>14, <2>1 DEF Config!Dropped
  <2>2. CASE w # e
    <3>1. UNCHANGED work[e]
      BY <1>3, <1>14, <2>2 DEF Config!Dropped
    <3>2. ASSUME NEW i \in Nodes, writing[i] = e PROVE writing'[i] = e
      BY <1>14, <2>2, <3>2 DEF Config!Dropped
    <3> QED
      BY <1>0, <1>1, <3>1, <3>2 DEF Locks, Placed, Config!At, Saving
  <2> QED
    BY <2>1, <2>2
<1>15. ASSUME NEW w \in Config!Workers, Config!Refreshed(w) PROVE Fine(e)
  <2>1. CASE w = e
    <3>1. /\ work'[e].instance = work[e].instance /\ work'[e].phase = "answered"
          /\ work[e].phase = "store" /\ UNCHANGED writing
      BY <1>0, <1>1, <1>15, <2>1
      DEF Config!Refreshed, Config!To, Config!Step, Config!At, Config!Work
    <3> QED
      BY <1>1, <3>1 DEF Locks, Saving
  <2>2. CASE w # e
    BY <1>2, <1>3, <1>15, <2>2 DEF Config!Refreshed, Config!To
  <2> QED
    BY <2>1, <2>2
<1>16. UNCHANGED <<work, writing>> => Fine(e)
  BY <1>2
<1> HIDE DEF Fine
<1>17. ASSUME NEW x \in Handlers,
             \/ \E i \in Nodes : Config!Open(x, i) \/ Config!Commit(x, i)
             \/ Config!Opened(x) \/ Config!Put(x) \/ Config!Reload(x)
      PROVE  Fine(e)
  BY <1>8, <1>9, <1>10, <1>17
<1>18. ASSUME NEW r \in Readers, Config!Unchanged(r) \/ \E i \in Nodes : Config!Current(r, i)
       PROVE  Fine(e)
  BY <1>7, <1>18 DEF Config!Unchanged, Config!Current
<1> QED
  BY <1>11, <1>12, <1>13, <1>14, <1>15, <1>16, <1>17, <1>18
  DEF Config!ConfigNext, Config!Restart, Config!Corrupted, Config!Passes

\* Once publications were not in order they never are again.
LEMMA OrderlyBefore ==
    ASSUME Config!ConfigNext, Orderly' PROVE Orderly /\ UNCHANGED <<kind, mishap>>
<1>1. UNCHANGED <<kind, mishap>> /\ editedAt \subseteq editedAt'
  BY DEF Config!ConfigNext, Config!Current, Config!Open,
     Config!Commit, Config!Lock, Config!Restart, Config!Unchanged, Config!Opened,
     Config!Compare, Config!Put, Config!Reload, Config!Acknowledge, Config!Refreshed,
     Config!Dropped, Config!Corrupted, Config!Passes
<1> QED
  BY <1>1 DEF Orderly

\* While publications are in order, a document that can be read is stored, and
\* each publication is the stored document with one more edit, one version on.
LEMMA PublicationsBuild ==
    ASSUME Config!ConfigTypeOK, Placed, Config!ConfigNext, Locks, Ordered, Orderly'
    PROVE  \/ UNCHANGED stored
           \/ \E e \in Handlers :
                /\ \/ Config!Put(e)
                   \/ kind = "postgres" /\ \E i \in Nodes : Config!Commit(e, i)
                /\ stored'.version = stored.version + 1
                /\ stored'.edits = stored.edits \cup {e}
                /\ stored'.parses
<1>1. /\ Orderly /\ UNCHANGED <<kind, mishap>> /\ stored \in Config!Document
      /\ stored.parses /\ Config!ParseOrDefault(stored) = stored
      /\ \A e \in Handlers : EditorInStep(e)
  BY OrderlyBefore DEF Ordered, Config!ConfigTypeOK, Config!ParseOrDefault
<1>2. ASSUME NEW e \in Handlers, Config!Replace(Config!Edited(e)),
             work[e].doc.version = stored.version, work[e].phase \in {"open", "put"}
      PROVE  /\ stored'.version = stored.version + 1
             /\ stored'.edits = stored.edits \cup {e}
             /\ stored'.parses
  <2>1. PICK made \in Config!Document : made = Config!Edited(e)
    BY EditedTyped
  <2>2. /\ made.version = stored.version + 1 /\ made.edits = stored.edits \cup {e}
        /\ made.parses
    BY <1>1, <1>2, <2>1, EditedTyped DEF EditorInStep
  <2>3. stored' = [made EXCEPT !.generation = stored.generation + 1]
    BY <1>2, <2>1 DEF Config!Replace
  <2> QED
    BY <2>2, <2>3 DEF Config!Document
<1>3. ASSUME NEW e \in Handlers, NEW i \in Nodes, Config!Commit(e, i)
      PROVE  \/ UNCHANGED stored
             \/ /\ stored'.version = stored.version + 1
                /\ stored'.edits = stored.edits \cup {e}
                /\ stored'.parses
  BY <1>1, <1>2, <1>3 DEF Config!Commit, Config!Expected, Config!At
<1>4. ASSUME NEW e \in Handlers, Config!Put(e)
      PROVE  /\ stored'.version = stored.version + 1
             /\ stored'.edits = stored.edits \cup {e}
             /\ stored'.parses
  <2>1. work[e].phase = "put" /\ kind = "s3"
    BY <1>4 DEF Config!Put, Config!At, Locks
  <2>2. editedAt \subseteq {work[e].instance}
    BY <1>1, <1>4, <2>1 DEF Orderly, Config!Put
  <2>3. work[e].doc.version = stored.version
    BY <1>1, <2>1, <2>2 DEF EditorInStep
  <2> QED
    BY <1>2, <1>4, <2>1, <2>3 DEF Config!Put
<1>5. ~Config!Corrupted
  BY <1>1 DEF Config!Corrupted, Orderly
<1>6. ASSUME NEW i \in Nodes, Config!Restart(i) PROVE UNCHANGED stored
  BY <1>1, <1>6 DEF Config!Restart, Orderly
<1> QED
  BY <1>3, <1>4, <1>5, <1>6 DEF Config!ConfigNext, Config!Current, Config!Open,
     Config!Lock, Config!Unchanged, Config!Opened, Config!Commit,
     Config!Compare, Config!Reload, Config!Acknowledge, Config!Refreshed,
     Config!Dropped, Config!Passes

\* An editor whose own handler stands still stays in step with what others publish.
LEMMA EditorsStand ==
    ASSUME Config!ConfigTypeOK, Placed, Config!ConfigNext, Locks, Ordered, Orderly',
           NEW e \in Handlers, UNCHANGED work[e]
    PROVE  EditorInStep(e)'
<1>1. /\ Orderly /\ UNCHANGED <<kind, mishap>> /\ EditorInStep(e)
      /\ work[e].doc.version \in Nat /\ stored.version \in Nat
  <2>1. Orderly /\ UNCHANGED <<kind, mishap>>
    BY OrderlyBefore
  <2>2. e \in Config!Workers
    BY DEF Config!Workers
  <2> QED
    BY <2>1, <2>2 DEF Ordered, Config!ConfigTypeOK, Config!Work, Config!Document
<1>2. CASE UNCHANGED stored
  <2>1. editedAt \subseteq editedAt'
    BY DEF Config!ConfigNext, Config!Current, Config!Open,
       Config!Commit, Config!Lock, Config!Restart, Config!Unchanged, Config!Opened,
       Config!Compare, Config!Put, Config!Reload, Config!Acknowledge, Config!Refreshed,
       Config!Dropped, Config!Corrupted, Config!Passes
  <2> QED
    BY <1>1, <1>2, <2>1 DEF EditorInStep
<1>3. ASSUME NEW x \in Handlers,
             \/ Config!Put(x)
             \/ kind = "postgres" /\ \E i \in Nodes : Config!Commit(x, i),
             stored'.version = stored.version + 1, stored'.edits = stored.edits \cup {x}
      PROVE  EditorInStep(e)'
  <2>1. work[e].phase = "put" => ~(editedAt' \subseteq {work[e].instance})
    <3>1. CASE kind = "postgres"
      BY <3>1 DEF Locks
    <3>2. CASE Config!Put(x)
      <4>1. work[x].phase = "put" /\ work'[x].phase = "refresh" /\ x \in Config!Workers
        BY <3>2 DEF Config!Put, Config!To, Config!Step, Config!At, Config!ConfigTypeOK,
           Config!Workers, Config!Work
      <4>2. x # e
        BY <4>1
      <4>3. work[e].phase = "put" => work[x].instance # work[e].instance
        BY <4>1, <4>2 DEF Locks, Saving
      <4> QED
        BY <3>2, <4>3 DEF Config!Put
    <3> QED
      BY <1>3, <3>1, <3>2
  <2> QED
    BY <1>1, <1>3, <2>1 DEF EditorInStep
<1> QED
  BY <1>2, <1>3, PublicationsBuild

\* Each step of an editor keeps it in step with the stored document.
LEMMA EditorsMove ==
    ASSUME Config!ConfigTypeOK, Placed, Config!ConfigNext, Locks, Ordered, Orderly',
           NEW e \in Handlers
    PROVE  EditorInStep(e)'
<1>0. /\ e \in Config!Workers /\ e \notin Readers
      /\ work \in [Config!Workers -> Config!Work] /\ work[e] \in Config!Work
      /\ stored.version \in Nat
  <2>1. e \in Config!Workers /\ e \notin Readers
    BY ConfigFacts DEF Config!Workers
  <2> QED
    BY <2>1 DEF Config!ConfigTypeOK, Config!Document
<1>1. /\ Orderly /\ stored.parses /\ EditorInStep(e)
      /\ Config!ParseOrDefault(stored) = stored
  BY OrderlyBefore DEF Ordered, Config!ParseOrDefault
<1>2. CASE UNCHANGED work[e]
  BY <1>2, EditorsStand
<1>3. ASSUME NEW v \in Config!Workers, NEW phase, NEW doc, v # e,
             \/ Config!Step(v, phase, doc)
             \/ Config!Ends(v)
             \/ \E i \in Nodes : Config!Begins(v, i, phase, doc)
      PROVE  UNCHANGED work[e]
  BY <1>0, <1>3 DEF Config!Step, Config!Ends, Config!Begins
<1>4. ASSUME Config!Ends(e) PROVE EditorInStep(e)'
  BY <1>0, <1>4 DEF Config!Ends, Config!NoWork, EditorInStep
<1>5. ASSUME NEW i \in Nodes, Config!Open(e, i) PROVE EditorInStep(e)'
  BY <1>0, <1>1, <1>5 DEF Config!Open, Config!Begins, EditorInStep
<1>6. ASSUME NEW i \in Nodes, Config!Commit(e, i) PROVE EditorInStep(e)'
  <2>1. CASE Config!Ends(e)
    BY <1>4, <2>1
  <2>2. CASE Config!Replace(Config!Edited(e)) /\ Config!Begins(e, i, "refresh", work[e].doc)
    <3>1. Config!Edited(e) \in Config!Document /\ e \in Config!Edited(e).edits
      BY EditedTyped
    <3>2. e \in stored'.edits
      BY <2>2, <3>1 DEF Config!Replace, Config!Document
    <3> QED
      BY <1>0, <2>2, <3>2 DEF Config!Begins, EditorInStep
  <2> QED
    BY <1>6, <2>1, <2>2 DEF Config!Commit
<1>7. ASSUME NEW i \in Nodes, Config!Lock(e, i) PROVE EditorInStep(e)'
  BY <1>0, <1>1, <1>7 DEF Config!Lock, Config!Begins, Config!At, EditorInStep
<1>8. ASSUME Config!Put(e) PROVE EditorInStep(e)'
  <2>1. PICK made \in Config!Document : made = Config!Edited(e) /\ e \in made.edits
    BY EditedTyped
  <2>2. e \in stored'.edits
    BY <1>8, <2>1 DEF Config!Put, Config!Replace, Config!Document
  <2>3. work'[e].phase = "refresh"
    BY <1>0, <1>8 DEF Config!Put, Config!To, Config!Step, Config!Work
  <2> QED
    BY <2>2, <2>3 DEF EditorInStep
<1>9. ASSUME Config!Opened(e) \/ Config!Compare(e) \/ Config!Reload(e)
      PROVE  EditorInStep(e)'
  <2>1. UNCHANGED <<stored, editedAt>>
    BY <1>9 DEF Config!Opened, Config!Compare, Config!Reload
  <2>2. CASE Config!Ends(e)
    BY <1>4, <2>2
  <2>3. CASE Config!Opened(e) /\ Config!To(e, "open")
    BY <1>0, <1>1, <2>1, <2>3
    DEF Config!Opened, Config!At, Config!To, Config!Step, Config!Work, EditorInStep
  <2>4. CASE Config!Compare(e) /\ Config!To(e, "put")
    <3>1. ~Config!Ends(e)
      BY <1>0, <2>4 DEF Config!To, Config!Step, Config!Ends, Config!NoWork, Config!Work
    <3>2. work[e].doc.version = stored.version /\ work[e].phase = "locked"
      BY <1>1, <2>4, <3>1 DEF Config!Compare, Config!Expected, Config!At
    <3>3. work'[e].phase = "put" /\ work'[e].doc = work[e].doc
      BY <1>0, <2>4 DEF Config!To, Config!Step, Config!Work
    <3> QED
      BY <1>0, <1>1, <2>1, <3>2, <3>3 DEF EditorInStep
  <2>5. CASE Config!Reload(e)
    BY <1>0, <1>1, <2>1, <2>5
    DEF Config!Reload, Config!At, Config!Step, Config!Work, EditorInStep
  <2> QED
    BY <1>9, <2>2, <2>3, <2>4, <2>5 DEF Config!Opened, Config!Compare
<1>10. ASSUME Config!Refreshed(e) PROVE EditorInStep(e)'
  BY <1>0, <1>1, <1>10
  DEF Config!Refreshed, Config!At, Config!To, Config!Step, Config!Work, EditorInStep
<1>11. ASSUME NEW r \in Readers PROVE r \in Config!Workers /\ r # e
  BY <1>0 DEF Config!Workers
<1>12. ASSUME NEW x \in Handlers PROVE x \in Config!Workers
  BY DEF Config!Workers
<1>13. ASSUME NEW r \in Readers, Config!Unchanged(r) \/ \E i \in Nodes : Config!Current(r, i)
       PROVE  EditorInStep(e)'
  BY <1>2, <1>3, <1>11, <1>13 DEF Config!Unchanged, Config!Current
<1>14. ASSUME NEW x \in Handlers, NEW i \in Nodes,
              Config!Open(x, i) \/ Config!Commit(x, i) \/ Config!Lock(x, i)
       PROVE  EditorInStep(e)'
  BY <1>2, <1>3, <1>5, <1>6, <1>7, <1>12, <1>14
  DEF Config!Open, Config!Commit, Config!Lock
<1>15. ASSUME NEW x \in Handlers,
              \/ Config!Opened(x) \/ Config!Compare(x) \/ Config!Put(x)
              \/ Config!Reload(x) \/ Config!Acknowledge(x)
       PROVE  EditorInStep(e)'
  <2>1. CASE x = e
    BY <1>4, <1>8, <1>9, <1>15, <2>1 DEF Config!Acknowledge
  <2>2. CASE x # e
    BY <1>2, <1>3, <1>12, <1>15, <2>2 DEF Config!Opened, Config!Compare, Config!Put,
       Config!Reload, Config!Acknowledge, Config!To
  <2> QED
    BY <2>1, <2>2
<1>16. ASSUME NEW w \in Config!Workers, Config!Refreshed(w) \/ Config!Dropped(w)
       PROVE  EditorInStep(e)'
  <2>1. CASE w = e
    BY <1>4, <1>10, <1>16, <2>1 DEF Config!Dropped
  <2>2. CASE w # e
    BY <1>2, <1>3, <1>16, <2>2 DEF Config!Refreshed, Config!Dropped, Config!To
  <2> QED
    BY <2>1, <2>2
<1>17. UNCHANGED work => EditorInStep(e)'
  BY <1>2
<1> QED
  BY <1>13, <1>14, <1>15, <1>16, <1>17
  DEF Config!ConfigNext, Config!Restart, Config!Corrupted, Config!Passes

\* Publications that are in order build on one another, step by step.
LEMMA OrderedStep ==
    ASSUME Config!ConfigTypeOK, Placed, Config!ConfigNext, Locks, Ordered PROVE Ordered'
<1> SUFFICES ASSUME Orderly'
             PROVE  /\ stored'.parses
                    /\ \A e \in Handlers : EditorInStep(e)'
                    /\ acked' \subseteq stored'.edits
  BY DEF Ordered
<1>1. Orderly /\ stored.parses /\ acked \subseteq stored.edits
  BY OrderlyBefore DEF Ordered
<1>2. stored'.parses /\ stored.edits \subseteq stored'.edits
  BY <1>1, PublicationsBuild
<1>3. \A e \in Handlers : EditorInStep(e)'
  BY EditorsMove
<1>4. ASSUME NEW e \in Handlers, Config!Acknowledge(e) PROVE e \in stored.edits
  BY <1>1, <1>4 DEF Config!Acknowledge, Config!At, Ordered, EditorInStep
<1>5. \/ UNCHANGED acked
      \/ \E e \in Handlers : Config!Acknowledge(e) /\ acked' = acked \cup {e}
  BY DEF Config!ConfigNext, Config!Current, Config!Open,
     Config!Commit, Config!Lock, Config!Restart, Config!Unchanged, Config!Opened,
     Config!Compare, Config!Put, Config!Reload, Config!Acknowledge, Config!Refreshed,
     Config!Dropped, Config!Corrupted, Config!Passes
<1> QED
  BY <1>1, <1>2, <1>3, <1>4, <1>5

\* What holds of the configuration store at every moment.
ConfigInv ==
    /\ Config!ConfigTypeOK /\ Placed
    /\ Unreplaced /\ WorkTimely /\ CacheTimely
    /\ Locks /\ Ordered

\* A deployment starts with the default stored and served.
LEMMA ConfigInit == Config!ConfigInit => ConfigInv
<1> SUFFICES ASSUME Config!ConfigInit PROVE ConfigInv
  OBVIOUS
<1> USE ConfigFacts
<1>1. /\ Config!Default(0) \in Config!Document
      /\ Config!Default(0).generation = 0 /\ Config!Default(0).version = 0
      /\ Config!Default(0).edits = {} /\ Config!Default(0).parses
      /\ 0 \in Config!Generations /\ Config!Generations \subseteq Nat
  BY DEF Config!Default, Config!Document, Config!Generations
<1>2. /\ Config!NoWork \in Config!Work /\ Config!NoWork.phase = "idle"
      /\ Config!NoWork.at = 0
  BY <1>1 DEF Config!NoWork, Config!Work, Config!Phases
<1>3. [doc |-> Config!Default(0), checked |-> 0] \in Config!Cache
  BY <1>1 DEF Config!Cache
<1>4. Config!ConfigTypeOK
  BY <1>1, <1>2, <1>3 DEF Config!ConfigInit, Config!ConfigTypeOK
<1>5. Placed /\ Locks
  BY <1>2 DEF Config!ConfigInit, Placed, Locks, Saving, Config!At, Config!Workers
<1>6. Unreplaced /\ WorkTimely
  BY <1>1, <1>2 DEF Config!ConfigInit, Unreplaced, WorkTimely, Loaded
<1>7. CacheTimely
  BY <1>1 DEF Config!ConfigInit, CacheTimely
<1>8. Ordered
  BY <1>1, <1>2 DEF Config!ConfigInit, Ordered, EditorInStep, Config!Workers
<1> QED
  BY <1>4, <1>5, <1>6, <1>7, <1>8 DEF ConfigInv

\* Whatever part of the deployment moves keeps it.
LEMMA ConfigStep == ConfigInv /\ [Next]_vars => ConfigInv'
<1> SUFFICES ASSUME ConfigInv, [Next]_vars PROVE ConfigInv'
  OBVIOUS
<1>1. Config!ConfigNext \/ UNCHANGED configOnly
  BY DEF Next, vars, ThrottleMoves, FactorsMove, ConfigurationMoves, TrailMoves, GrantsMove
<1>2. CASE Config!ConfigNext
  BY <1>2, ConfigStepTyped, HandlersStayPlaced, UnreplacedStep, HandlersAreTimely,
     CachesAreTimely, LocksStep, OrderedStep DEF ConfigInv
<1>3. CASE UNCHANGED configOnly
  BY <1>3 DEF configOnly, ConfigInv, Config!ConfigTypeOK, Placed, Config!At, Unreplaced,
     WorkTimely, CacheTimely, Locks, Ordered, Orderly, EditorInStep
<1> QED
  BY <1>1, <1>2, <1>3

(***************************************************************************)
(* A publication that was answered with success is in every later          *)
(* document: on PostgreSQL through whatever instances editors publish, on  *)
(* S3 as long as one instance does, with any number of editors, readers,   *)
(* dropped handlers and restarts (put_config, save).                       *)
(***************************************************************************)
THEOREM PublicationsAreKept == Spec => []NoEditIsLost
<1>1. ConfigInv => NoEditIsLost
  BY DEF ConfigInv, Ordered, Orderly, NoEditIsLost, Config!NoEditIsLost
<1>2. Init => ConfigInv
  BY ConfigInit DEF Init
<1> QED
  BY <1>1, <1>2, ConfigStep, PTL DEF Spec

(***************************************************************************)
(* What an instance answers from its cache was the stored document less    *)
(* than the time to live and one step of a load ago, whichever loads       *)
(* overtake one another on the way into the cache (current, refresh).      *)
(***************************************************************************)
THEOREM CachesAreFresh == Spec => []StaleIsBounded
<1>1. ConfigInv => StaleIsBounded
  <2> SUFFICES ASSUME ConfigInv, NEW i \in Nodes, Config!Fresh(i)
               PROVE  time < replacedAt[cached[i].doc.generation] + Ttl + MaxDelay
    BY DEF StaleIsBounded, Config!StaleIsBounded
  <2>1. /\ time \in Nat /\ cached[i].checked \in Nat
        /\ replacedAt[cached[i].doc.generation] \in Nat
    BY ConfigFacts DEF ConfigInv, Config!ConfigTypeOK, Config!Cache, Config!Document
  <2> QED
    BY <2>1, ConfigFacts DEF ConfigInv, CacheTimely, Config!Fresh
<1>2. Init => ConfigInv
  BY ConfigInit DEF Init
<1> QED
  BY <1>1, <1>2, ConfigStep, PTL DEF Spec

-----------------------------------------------------------------------------
(* The audit trail: newest first *)

LEMMA TrailFacts ==
    /\ Ids \subseteq Nat /\ MaxClock \in Nat /\ MaxListResults \in Nat \ {0}
    /\ \A S : Audit!Cardinality(S) = Cardinality(S)
<1>1. \A S : Audit!Cardinality(S) = Cardinality(S)
    BY ONLY DEF Audit!Cardinality, Cardinality
<1> QED BY <1>1, PlatformAssumption DEF Audit!AuditAssumption

LEMMA NewerOrders ==
    ASSUME NEW a \in Audit!Entry, NEW b \in Audit!Entry, NEW c \in Audit!Entry
    PROVE  /\ Audit!Newer(a, b) /\ Audit!Newer(b, c) => Audit!Newer(a, c)
           /\ a.id # b.id => Audit!Newer(a, b) \/ Audit!Newer(b, a)
           /\ ~(Audit!Newer(a, b) /\ Audit!Newer(b, a))
<1>1. ASSUME NEW e \in Audit!Entry PROVE e.at \in Nat /\ e.id \in Nat
  <2>1. e.at \in 0..MaxClock /\ e.id \in Ids
    BY DEF Audit!Entry
  <2>2. 0..MaxClock \subseteq Nat /\ Ids \subseteq Nat
    BY TrailFacts
  <2> QED BY <2>1, <2>2, Zenon
<1> QED BY <1>1 DEF Audit!Newer

OwnIds(entries) == \A a, b \in entries : a.id = b.id => a = b

\* A non-empty finite set of entries that differ in their ids has an oldest one.
LEMMA OldestExists ==
    ASSUME NEW entries \in SUBSET Audit!Entry, IsFiniteSet(entries), entries # {}, OwnIds(entries)
    PROVE  \E x \in entries : \A y \in entries \ {x} : Audit!Newer(y, x)
<1> DEFINE Oldest(A) == \E x \in A : \A y \in A \ {x} : Audit!Newer(y, x)
           Bad == {A \in SUBSET entries : A # {} /\ ~Oldest(A)}
<1> SUFFICES ASSUME Bad # {} PROVE FALSE
    OBVIOUS
<1>1. IsWellFoundedOn(StrictSubsetOrdering(entries), SUBSET entries)
    BY FS_StrictSubsetOrderingWellFounded, FS_FiniteSubsetsOfFinite, Zenon
<1>2. PICK A \in Bad : \A B \in Bad : <<B, A>> \notin StrictSubsetOrdering(entries)
    BY <1>1, WFMin
<1>3. PICK x \in A : TRUE
    OBVIOUS
<1>4. A \ {x} \notin Bad
    BY <1>2 DEF StrictSubsetOrdering
<1>5. A \ {x} # {}
    BY <1>3
<1>6. PICK y \in A \ {x} : \A z \in (A \ {x}) \ {y} : Audit!Newer(z, y)
    BY <1>4, <1>5
<1>7. x.id # y.id /\ {x, y} \subseteq Audit!Entry /\ A \subseteq Audit!Entry
    BY <1>3, <1>6 DEF OwnIds
<1>8. CASE Audit!Newer(x, y)
    BY <1>3, <1>6, <1>8
<1>9. CASE Audit!Newer(y, x)
  <2>1. \A z \in A \ {x} : Audit!Newer(z, x)
    BY <1>6, <1>7, <1>9, NewerOrders
  <2> QED BY <1>3, <2>1
<1> QED BY <1>7, <1>8, <1>9, NewerOrders

Sorted(s, entries) ==
    /\ s \in [1..Cardinality(entries) -> entries]
    /\ entries = {s[i] : i \in DOMAIN s}
    /\ \A i, j \in DOMAIN s : i < j => Audit!Newer(s[i], s[j])

LEMMA SortedExists ==
    ASSUME NEW entries \in SUBSET Audit!Entry, IsFiniteSet(entries), OwnIds(entries)
    PROVE  \E s : Sorted(s, entries)
<1> DEFINE Bad == {A \in SUBSET entries : ~\E s : Sorted(s, A)}
<1> SUFFICES ASSUME Bad # {} PROVE FALSE
    OBVIOUS
<1>1. IsWellFoundedOn(StrictSubsetOrdering(entries), SUBSET entries)
    BY FS_StrictSubsetOrderingWellFounded, FS_FiniteSubsetsOfFinite, Zenon
<1>2. PICK A \in Bad : \A B \in Bad : <<B, A>> \notin StrictSubsetOrdering(entries)
    BY <1>1, WFMin
<1>3. IsFiniteSet(A) /\ OwnIds(A) /\ A \in SUBSET Audit!Entry
    BY FS_Subset DEF OwnIds
<1>4. A # {}
  <2> SUFFICES ASSUME A = {} PROVE FALSE
    OBVIOUS
  <2>1. Cardinality(A) = 0
    BY FS_EmptySet
  <2>2. PICK s : s = [i \in 1..0 |-> {}]
    OBVIOUS
  <2>3. Sorted(s, A)
    BY <2>1, <2>2 DEF Sorted
  <2> QED BY <2>3
<1>5. PICK x \in A : \A y \in A \ {x} : Audit!Newer(y, x)
    BY <1>3, <1>4, OldestExists
<1>6. PICK B : B = A \ {x}
    OBVIOUS
<1>7. B \notin Bad /\ B \in SUBSET entries
    BY <1>2, <1>5, <1>6 DEF StrictSubsetOrdering
<1>8. PICK s : Sorted(s, B)
    BY <1>7
<1>9. PICK n : n = Cardinality(B)
    OBVIOUS
<1>10. n \in Nat /\ Cardinality(A) = n + 1
  <2>1. IsFiniteSet(B) /\ Cardinality(B) = Cardinality(A) - 1
    BY <1>3, <1>6, FS_RemoveElement
  <2>2. Cardinality(A) \in Nat /\ Cardinality(B) \in Nat
    BY <1>3, <2>1, FS_CardinalityType
  <2> QED BY <1>9, <2>1, <2>2
<1>11. PICK t : t = [i \in 1..(n + 1) |-> IF i = n + 1 THEN x ELSE s[i]]
    OBVIOUS
<1>12. s \in [1..n -> B] /\ B = {s[i] : i \in 1..n}
       /\ \A i, j \in 1..n : i < j => Audit!Newer(s[i], s[j])
    BY <1>8, <1>9 DEF Sorted
<1>13. t \in [1..(n + 1) -> A]
    BY <1>5, <1>6, <1>10, <1>11, <1>12
<1>14. A = {t[i] : i \in 1..(n + 1)}
  <2>1. ASSUME NEW y \in A PROVE \E i \in 1..(n + 1) : y = t[i]
    <3>1. CASE y = x
        BY <1>10, <1>11, <3>1
    <3>2. CASE y # x
      <4>1. PICK i \in 1..n : y = s[i]
        BY <1>6, <1>12, <3>2
      <4> QED BY <1>10, <1>11, <4>1
    <3> QED BY <3>1, <3>2
  <2> QED BY <1>13, <2>1
<1>15. \A i, j \in 1..(n + 1) : i < j => Audit!Newer(t[i], t[j])
  <2> SUFFICES ASSUME NEW i \in 1..(n + 1), NEW j \in 1..(n + 1), i < j
               PROVE  Audit!Newer(t[i], t[j])
    OBVIOUS
  <2>1. i \in 1..n /\ t[i] = s[i] /\ s[i] \in A \ {x}
    BY <1>6, <1>10, <1>11, <1>12
  <2>2. CASE j = n + 1
    BY <1>5, <1>11, <2>1, <2>2
  <2>3. CASE j # n + 1
    <3>1. j \in 1..n /\ t[j] = s[j]
        BY <1>10, <1>11, <2>3
    <3> QED BY <1>12, <2>1, <3>1
  <2> QED BY <2>2, <2>3
<1>16. Sorted(t, A)
    BY <1>10, <1>13, <1>14, <1>15 DEF Sorted
<1> QED BY <1>16

LEMMA NewestFirstSorts ==
    ASSUME NEW entries \in SUBSET Audit!Entry, IsFiniteSet(entries), OwnIds(entries)
    PROVE  Sorted(Audit!NewestFirst(entries), entries)
<1> DEFINE Fits(s) == /\ s \in [1..Cardinality(entries) -> entries]
                      /\ Audit!ToSet(s) = entries
                      /\ \A i, j \in DOMAIN s : i < j => Audit!Newer(s[i], s[j])
<1>1. \E s : Fits(s)
    BY SortedExists DEF Sorted, Audit!ToSet
<1>2. Audit!NewestFirst(entries) = CHOOSE s \in [1..Cardinality(entries) -> entries] :
          /\ Audit!ToSet(s) = entries
          /\ \A i, j \in DOMAIN s : i < j => Audit!Newer(s[i], s[j])
    BY TrailFacts DEF Audit!NewestFirst
<1>3. Fits(Audit!NewestFirst(entries))
    BY <1>1, <1>2
<1> QED BY <1>3 DEF Sorted, Audit!ToSet


-----------------------------------------------------------------------------
(* The audit trail: what a walk has met and what lies ahead *)

\* What a walk was owed it has met or has ahead of it.
WalkFine(v) ==
    /\ \A i, j \in 1..Len(v.seen) : i < j => Audit!Newer(v.seen[i], v.seen[j])
    /\ \A i \in 1..Len(v.seen) : v.seen[i][v.field] = v.key
    /\ \A e \in v.owed :
        /\ e.id \in index
        /\ e \in Audit!Listed(v.field, v.key) =>
               \/ \E i \in 1..Len(v.seen) : v.seen[i] = e
               \/ v.status # "done" /\ (v.seen # <<>> => Audit!Newer(Audit!Last(v.seen), e))

TrailTyped == Audit!AuditTypeOK /\ IsFiniteSet(log) /\ OwnIds(log)

AuditInv == TrailTyped /\ \A w \in Readers : WalkFine(walk[w])

LEMMA MinOfTwo ==
    ASSUME NEW a \in Nat, NEW b \in Nat
    PROVE  Audit!Min({a, b}) \in {a, b} /\ Audit!Min({a, b}) <= a /\ Audit!Min({a, b}) <= b
<1>1. \E x \in {a, b} : \A y \in {a, b} : x <= y
    OBVIOUS
<1> QED BY <1>1 DEF Audit!Min

LEMMA MaxOfTwo ==
    ASSUME NEW a \in Nat, NEW b \in Nat
    PROVE  Audit!Max({a, b}) \in {a, b} /\ a <= Audit!Max({a, b}) /\ b <= Audit!Max({a, b})
<1>1. \E x \in {a, b} : \A y \in {a, b} : x >= y
    OBVIOUS
<1>2. PICK x : x = Audit!Max({a, b})
    OBVIOUS
<1>3. x \in {a, b} /\ \A y \in {a, b} : x >= y
    BY <1>1, <1>2 DEF Audit!Max
<1> QED BY <1>2, <1>3

LEMMA PagesAreClamped == ASSUME NEW limit \in Nat PROVE Audit!Clamped(limit) \in 1..MaxListResults
<1>1. PICK least : least = Audit!Min({limit, MaxListResults})
    OBVIOUS
<1>2. least \in Nat /\ least <= MaxListResults
    BY <1>1, MinOfTwo, TrailFacts
<1>3. Audit!Max({1, least}) \in {1, least} /\ 1 <= Audit!Max({1, least})
    BY <1>2, MaxOfTwo
<1>4. Audit!Clamped(limit) \in {1, least} /\ 1 <= Audit!Clamped(limit)
    BY <1>1, <1>3 DEF Audit!Clamped
<1> QED BY <1>2, <1>4, TrailFacts

\* What an index has caught up with does not come back once it is gone.
LEMMA NothingReappears ==
    ASSUME TrailTyped, TrailTyped', NEW e, e.id \in index, NEW field, NEW key,
           e \in Audit!Listed(field, key)', clock' >= clock, UNCHANGED backend,
           \A f \in log' \ log : f.id \notin index
    PROVE  e \in Audit!Listed(field, key)
<1>1. e \in log /\ e[field] = key
    BY DEF Audit!Listed
<1>2. backend = "postgres" => ~Audit!Expired(e)
  <2> SUFFICES ASSUME backend = "postgres", Audit!Expired(e), ~Audit!Expired(e)' PROVE FALSE
    BY DEF Audit!Listed
  <2>1. /\ e.at \in 0..MaxClock /\ clock \in 0..MaxClock /\ clock' \in 0..MaxClock
    BY <1>1 DEF TrailTyped, Audit!AuditTypeOK, Audit!Entry
  <2>2. MaxClock \in Nat /\ Retention \in Nat
    BY PlatformAssumption DEF Audit!AuditAssumption
  <2> QED BY <2>1, <2>2 DEF Audit!Expired
<1> QED BY <1>1, <1>2 DEF Audit!Listed

LEMMA WalksStand ==
    ASSUME AuditInv, TrailTyped', UNCHANGED <<backend, walk>>, index \subseteq index', clock' >= clock,
           \A f \in log' \ log : f.id \notin index
    PROVE  AuditInv'
<1> SUFFICES ASSUME NEW w \in Readers PROVE WalkFine(walk[w])'
    BY DEF AuditInv
<1>1. PICK v : v = walk[w]
    OBVIOUS
<1>2. WalkFine(v) /\ v = walk'[w]
    BY <1>1 DEF AuditInv
<1>3. \A e \in v.owed :
          /\ e.id \in index'
          /\ e \in Audit!Listed(v.field, v.key)' => e \in Audit!Listed(v.field, v.key)
  <2> SUFFICES ASSUME NEW e \in v.owed
               PROVE  /\ e.id \in index'
                      /\ e \in Audit!Listed(v.field, v.key)' => e \in Audit!Listed(v.field, v.key)
    OBVIOUS
  <2>1. e.id \in index
    BY <1>2 DEF WalkFine
  <2>2. PICK field, key : field = v.field /\ key = v.key
    OBVIOUS
  <2>3. e \in Audit!Listed(field, key)' => e \in Audit!Listed(field, key)
    BY <2>1, NothingReappears DEF AuditInv
  <2> QED BY <2>1, <2>2, <2>3
<1>4. WalkFine(v)'
    BY <1>2, <1>3 DEF WalkFine
<1> QED BY <1>2, <1>4 DEF WalkFine

LEMMA BegunWalk ==
    ASSUME AuditInv, NEW w \in Readers, NEW field \in Audit!Fields, NEW limit \in Limits,
           NEW key \in Audit!Keys(field), Audit!BeginWalk(w, field, key, limit)
    PROVE  AuditInv'
<1>0. UNCHANGED <<backend, clock, log, index, recorder>>
    BY DEF Audit!BeginWalk
<1>1. PICK owed : owed = Audit!Listed(field, key)
    OBVIOUS
<1>2. PICK v : v = [status |-> "open", field |-> field, key |-> key, limit |-> Audit!Clamped(limit),
                    seen |-> <<>>, owed |-> owed]
    OBVIOUS
<1>3. walk' = [walk EXCEPT ![w] = v]
    BY <1>1, <1>2 DEF Audit!BeginWalk
<1>4. owed \in SUBSET log /\ \A e \in owed : e.id \in index
    BY <1>1 DEF Audit!Listed
<1>5. v \in Audit!Walk
  <2>1. Audit!Clamped(limit) \in 1..MaxListResults
    BY PagesAreClamped, PlatformAssumption DEF Audit!AuditAssumption
  <2>2. owed \in SUBSET Audit!Entry
    BY <1>4 DEF AuditInv, TrailTyped, Audit!AuditTypeOK
  <2>3. key \in Audit!Subjects
    BY DEF Audit!Subjects, Audit!Fields
  <2>4. <<>> \in Seq(Audit!Entry)
    OBVIOUS
  <2> QED BY <1>2, <2>1, <2>2, <2>3, <2>4 DEF Audit!Walk
<1>6. TrailTyped'
    BY <1>0, <1>3, <1>5 DEF AuditInv, TrailTyped, Audit!AuditTypeOK, OwnIds
<1>7. WalkFine(v)
    BY <1>2, <1>4 DEF WalkFine
<1>8. \A x \in Readers : walk'[x] = IF x = w THEN v ELSE walk[x]
    BY <1>3 DEF AuditInv, TrailTyped, Audit!AuditTypeOK
<1>9. \A u : WalkFine(u) => WalkFine(u)'
    BY <1>0 DEF WalkFine, Audit!Listed, Audit!Expired
<1> SUFFICES ASSUME NEW x \in Readers PROVE WalkFine(walk[x])'
    BY <1>6 DEF AuditInv
<1>10. PICK u : u = IF x = w THEN v ELSE walk[x]
    OBVIOUS
<1>11. WalkFine(u)' /\ walk'[x] = u
    BY <1>7, <1>8, <1>9, <1>10 DEF AuditInv
<1> QED BY <1>11 DEF WalkFine


\* A page holds the newest of what lies ahead, and what it leaves lies ahead of its last entry.
LEMMA TurnedPage ==
    ASSUME AuditInv, NEW w \in Readers, Audit!NextPage(w)
    PROVE  AuditInv'
<1>0. UNCHANGED <<backend, clock, log, index, recorder>>
    BY DEF Audit!NextPage
<1>1. PICK v : v = walk[w]
    OBVIOUS
<1>2. v \in Audit!Walk /\ WalkFine(v) /\ v.status = "open"
    BY <1>1 DEF AuditInv, TrailTyped, Audit!AuditTypeOK, Audit!NextPage
<1>3. PICK after : after = {e \in Audit!Listed(v.field, v.key) :
                                v.seen = <<>> \/ Audit!Newer(Audit!Last(v.seen), e)}
    OBVIOUS
<1>4. after \in SUBSET log /\ after \in SUBSET Audit!Entry /\ IsFiniteSet(after) /\ OwnIds(after)
  <2>1. after \subseteq log
    BY <1>3 DEF Audit!Listed
  <2>2. log \subseteq Audit!Entry /\ IsFiniteSet(log) /\ OwnIds(log)
    BY DEF AuditInv, TrailTyped, Audit!AuditTypeOK
  <2>3. IsFiniteSet(after)
    BY <2>1, <2>2, FS_Subset
  <2> QED BY <2>1, <2>2, <2>3 DEF OwnIds
<1>5. PICK rest : rest = Audit!NewestFirst(after)
    OBVIOUS
<1>6. PICK m : m = Cardinality(after)
    OBVIOUS
<1>7. /\ m \in Nat /\ rest \in [1..m -> after] /\ after = {rest[i] : i \in 1..m}
      /\ \A i, j \in 1..m : i < j => Audit!Newer(rest[i], rest[j])
  <2>1. Sorted(rest, after)
    BY <1>4, <1>5, NewestFirstSorts
  <2>2. m \in Nat
    BY <1>4, <1>6, FS_CardinalityType
  <2> QED BY <1>6, <2>1, <2>2 DEF Sorted
<1>8. Len(rest) = m
    BY <1>7
<1>9. Audit!Rest(w) = rest
    BY <1>1, <1>3, <1>5 DEF Audit!Rest, Audit!Behind
<1>10. PICK n, status :
          /\ n \in 0..m /\ (n = 0 => m = 0)
          /\ status \in {"open", "done"} /\ (n < m => status = "open")
          /\ walk' = [walk EXCEPT ![w].seen = v.seen \o SubSeq(rest, 1, n), ![w].status = status]
  <2>1. PICK full : full = Audit!Min({v.limit, m})
    OBVIOUS
  <2>2. v.limit \in Nat /\ v.limit >= 1
    <3>1. v.limit \in 1..MaxListResults
        BY <1>2 DEF Audit!Walk
    <3> QED BY <3>1, TrailFacts
  <2>3. full \in Nat /\ full <= m /\ (full = 0 => m = 0)
    <3>1. m \in Nat
        BY <1>7
    <3>2. full \in {v.limit, m} /\ full <= m
        BY <2>1, <2>2, <3>1, MinOfTwo
    <3> QED BY <2>2, <3>1, <3>2
  <2>4. PICK n \in (IF backend = "postgres" \/ full = 0 THEN {full} ELSE 1..full),
            status \in {"open", "done"} :
            /\ status = IF /\ IF backend = "postgres" THEN m > n ELSE m > n \/ n = v.limit
                           /\ n > 0
                        THEN "open" ELSE "done"
            /\ walk' = [walk EXCEPT ![w].seen = @ \o SubSeq(rest, 1, n), ![w].status = status]
    BY <1>1, <1>8, <1>9, <2>1 DEF Audit!NextPage
  <2>5. n \in 0..m /\ (n = 0 => m = 0)
    BY <1>7, <2>3, <2>4
  <2>6. walk' = [walk EXCEPT ![w].seen = v.seen \o SubSeq(rest, 1, n), ![w].status = status]
    BY <1>1, <2>4
  <2>7. status \in {"open", "done"} /\ (n < m => status = "open")
    BY <1>7, <2>4, <2>5
  <2> QED BY <2>5, <2>6, <2>7
<1>11. PICK page : page = SubSeq(rest, 1, n)
    OBVIOUS
<1>12. page \in Seq(Audit!Entry) /\ Len(page) = n /\ \A i \in 1..n : page[i] = rest[i]
  <2>1. \A i \in 1..n : rest[i] \in Audit!Entry
    BY <1>4, <1>7, <1>10
  <2>2. n \in Int /\ 1 \in Int /\ n >= 0
    BY <1>7, <1>10
  <2>3. /\ page \in Seq(Audit!Entry)
        /\ Len(page) = IF 1 <= n THEN n - 1 + 1 ELSE 0
        /\ \A i \in 1..(n - 1 + 1) : page[i] = rest[1 + i - 1]
    BY <1>11, <2>1, <2>2, SubSeqProperties
  <2> QED BY <2>2, <2>3
<1>13. PICK before : before = Len(v.seen)
    OBVIOUS
<1>14. PICK seen : seen = v.seen \o page
    OBVIOUS
<1>15. v.seen \in Seq(Audit!Entry) /\ before \in Nat
    BY <1>2, <1>13 DEF Audit!Walk
<1>15a. n \in Nat /\ n <= m /\ m \in Nat
  <2>1. m \in Nat
    BY <1>7
  <2> QED BY <1>10, <2>1
<1>16. /\ seen \in Seq(Audit!Entry) /\ Len(seen) = before + n
       /\ \A i \in 1..(before + n) : seen[i] = IF i <= before THEN v.seen[i] ELSE rest[i - before]
  <2>1. /\ seen \in Seq(Audit!Entry) /\ Len(seen) = before + n
        /\ \A i \in 1..(before + n) : seen[i] = IF i <= before THEN v.seen[i] ELSE page[i - before]
    <3>1. /\ v.seen \o page \in Seq(Audit!Entry)
          /\ Len(v.seen \o page) = Len(v.seen) + Len(page)
          /\ \A i \in 1..(Len(v.seen) + Len(page)) :
                 (v.seen \o page)[i] = IF i <= Len(v.seen) THEN v.seen[i] ELSE page[i - Len(v.seen)]
        BY <1>12, <1>15, ConcatProperties
    <3> QED BY <1>12, <1>13, <1>14, <3>1
  <2>2. \A i \in 1..(before + n) : ~(i <= before) => i - before \in 1..n
    BY <1>15a, <1>15
  <2> QED BY <1>12, <2>1, <2>2
<1>17. PICK u : u = [v EXCEPT !.seen = seen, !.status = status]
    OBVIOUS
<1>18. /\ u \in Audit!Walk /\ u.seen = seen /\ u.status = status
       /\ u.field = v.field /\ u.key = v.key /\ u.owed = v.owed
    BY <1>2, <1>10, <1>16, <1>17 DEF Audit!Walk
<1>19. walk' = [walk EXCEPT ![w] = u]
    BY <1>1, <1>10, <1>11, <1>14, <1>17
<1>20. \A k \in 1..m : rest[k] \in Audit!Listed(v.field, v.key) /\ rest[k][v.field] = v.key
    BY <1>3, <1>7 DEF Audit!Listed
<1>21. \A k \in 1..m : before > 0 => Audit!Newer(v.seen[before], rest[k])
    BY <1>3, <1>7, <1>13, <1>15 DEF Audit!Last
<1>22. WalkFine(u)
  <2>1. ASSUME NEW i \in 1..(before + n), NEW j \in 1..(before + n), i < j
        PROVE  Audit!Newer(seen[i], seen[j])
    <3>1. i \in Nat /\ j \in Nat /\ i <= before + n /\ j <= before + n /\ i >= 1
        BY <1>15a, <1>15
    <3>2. CASE j <= before
      <4>1. i \in 1..before /\ j \in 1..before
        BY <1>15, <2>1, <3>1, <3>2
      <4>2. Audit!Newer(v.seen[i], v.seen[j])
        BY <1>2, <1>13, <2>1, <4>1 DEF WalkFine
      <4> QED BY <1>16, <2>1, <3>2, <4>1, <4>2
    <3>3. CASE i <= before /\ ~(j <= before)
      <4>1. j - before \in 1..m /\ before > 0 /\ i \in 1..before /\ before \in 1..before
        BY <1>15a, <1>15, <3>1, <3>3
      <4>2. seen[j] = rest[j - before] /\ seen[i] = v.seen[i]
        BY <1>16, <3>3
      <4>3. Audit!Newer(v.seen[before], rest[j - before])
        BY <1>21, <4>1
      <4>4. i = before \/ Audit!Newer(v.seen[i], v.seen[before])
        <5>1. i < before => Audit!Newer(v.seen[i], v.seen[before])
            BY <1>2, <1>13, <4>1 DEF WalkFine
        <5> QED BY <1>15, <3>1, <3>3, <5>1
      <4>5. v.seen[i] \in Audit!Entry /\ v.seen[before] \in Audit!Entry /\ rest[j - before] \in Audit!Entry
        BY <1>4, <1>7, <1>13, <1>15, <4>1
      <4> QED BY <4>2, <4>3, <4>4, <4>5, NewerOrders
    <3>4. CASE ~(i <= before)
      <4>1. i - before \in 1..m /\ j - before \in 1..m /\ i - before < j - before /\ ~(j <= before)
        BY <1>15a, <1>15, <2>1, <3>1, <3>4
      <4> QED BY <1>7, <1>16, <3>4, <4>1
    <3> QED BY <3>2, <3>3, <3>4
  <2>2. ASSUME NEW i \in 1..(before + n) PROVE seen[i][v.field] = v.key
    <3>1. CASE i <= before
      <4>1. i \in 1..before
        BY <1>15, <3>1
      <4> QED BY <1>2, <1>13, <1>16, <3>1, <4>1 DEF WalkFine
    <3>2. CASE ~(i <= before)
      <4>1. i - before \in 1..m
        BY <1>15a, <1>15, <3>2
      <4> QED BY <1>16, <1>20, <3>2, <4>1
    <3> QED BY <3>1, <3>2
  <2>3. ASSUME NEW e \in v.owed
        PROVE  /\ e.id \in index
               /\ e \in Audit!Listed(v.field, v.key) =>
                      \/ \E i \in 1..(before + n) : seen[i] = e
                      \/ status # "done" /\ (seen # <<>> => Audit!Newer(Audit!Last(seen), e))
    <3>1. e.id \in index
        BY <1>2 DEF WalkFine
    <3> SUFFICES ASSUME e \in Audit!Listed(v.field, v.key)
                 PROVE  \/ \E i \in 1..(before + n) : seen[i] = e
                        \/ status # "done" /\ (seen # <<>> => Audit!Newer(Audit!Last(seen), e))
        BY <3>1
    <3>2. n \in Nat /\ n <= m
        BY <1>15a
    <3>3. CASE \E i \in 1..before : v.seen[i] = e
      <4>1. PICK i \in 1..before : v.seen[i] = e
        BY <3>3
      <4>2. i \in 1..(before + n) /\ seen[i] = e
        BY <1>15, <1>16, <3>2, <4>1
      <4> QED BY <4>2
    <3>4. CASE ~\E i \in 1..before : v.seen[i] = e
      <4>1. v.seen # <<>> => Audit!Newer(Audit!Last(v.seen), e)
        BY <1>2, <1>13, <3>4 DEF WalkFine
      <4>2. e \in after
        BY <1>3, <4>1
      <4>3. PICK k \in 1..m : e = rest[k]
        BY <1>7, <4>2
      <4>4. CASE k <= n
        <5>1. before + k \in 1..(before + n) /\ ~(before + k <= before) /\ (before + k) - before = k
            BY <1>15a, <1>15, <4>4
        <5>2. seen[before + k] = e
            BY <1>16, <4>3, <5>1
        <5> QED BY <5>1, <5>2
      <4>5. CASE ~(k <= n)
        <5>1. n < m /\ n < k /\ n \in 1..m
            BY <1>15a, <1>10, <4>3, <4>5
        <5>2. before + n \in 1..(before + n) /\ ~(before + n <= before) /\ (before + n) - before = n
            BY <1>15, <5>1
        <5>3. seen[before + n] = rest[n]
            BY <1>16, <5>2
        <5>4. Audit!Last(seen) = rest[n]
            BY <1>16, <5>3 DEF Audit!Last
        <5>5. Audit!Newer(rest[n], e)
            BY <1>7, <4>3, <5>1
        <5> QED BY <1>10, <5>1, <5>4, <5>5
      <4> QED BY <4>4, <4>5
    <3> QED BY <3>3, <3>4
  <2> QED BY <1>16, <1>18, <2>1, <2>2, <2>3 DEF WalkFine
<1>23. TrailTyped'
    BY <1>0, <1>18, <1>19 DEF AuditInv, TrailTyped, Audit!AuditTypeOK, OwnIds
<1>24. \A x \in Readers : walk'[x] = IF x = w THEN u ELSE walk[x]
    BY <1>19 DEF AuditInv, TrailTyped, Audit!AuditTypeOK
<1>25. \A y : WalkFine(y) => WalkFine(y)'
    BY <1>0 DEF WalkFine, Audit!Listed, Audit!Expired
<1> SUFFICES ASSUME NEW x \in Readers PROVE WalkFine(walk[x])'
    BY <1>23 DEF AuditInv
<1>26. PICK y : y = IF x = w THEN u ELSE walk[x]
    OBVIOUS
<1>27. WalkFine(y)' /\ walk'[x] = y
    BY <1>22, <1>24, <1>25, <1>26 DEF AuditInv
<1> QED BY <1>27 DEF WalkFine


-----------------------------------------------------------------------------
(* The audit trail: what is recorded, what expires, and the deployment *)

LEMMA StampedTrail ==
    ASSUME AuditInv, NEW r \in Readers, NEW o \in Origins, NEW id \in Ids, Audit!Stamp(r, o, id)
    PROVE  AuditInv'
<1>1. UNCHANGED <<backend, clock, log, index, walk>>
    BY DEF Audit!Stamp
<1>2. PICK e : e = [id |-> id, at |-> clock, tenant |-> o[1], user |-> o[2]]
    OBVIOUS
<1>3. recorder' = [recorder EXCEPT ![r] = e]
    BY <1>2 DEF Audit!Stamp
<1>4. /\ o[1] \in Audit!Subjects \cup {Nobody}
      /\ o[2] \in Audit!Subjects \cup {Nobody}
  <2>1. o[1] \in Audit!Keys("tenant") \cup {Nobody} /\ o[2] \in Audit!Keys("user") \cup {Nobody}
    BY DEF Audit!Keys
  <2> QED BY <2>1 DEF Audit!Subjects
<1>5. e \in Audit!Entry
    BY <1>2, <1>4 DEF AuditInv, TrailTyped, Audit!AuditTypeOK, Audit!Entry
<1>6. TrailTyped'
    BY <1>1, <1>3, <1>5 DEF AuditInv, TrailTyped, Audit!AuditTypeOK, OwnIds
<1>7. clock' >= clock /\ index \subseteq index' /\ \A f \in log' \ log : f.id \notin index
    BY <1>1, TrailFacts DEF AuditInv, TrailTyped, Audit!AuditTypeOK
<1> QED BY <1>1, <1>6, <1>7, WalksStand

LEMMA InsertedTrail ==
    ASSUME AuditInv, NEW r \in Readers, Audit!Insert(r) \/ Audit!RecordingFails(r)
    PROVE  AuditInv'
<1>1. /\ UNCHANGED <<backend, clock, walk>>
      /\ recorder[r] # Nobody /\ recorder' = [recorder EXCEPT ![r] = Nobody]
    BY DEF Audit!Insert, Audit!RecordingFails
<1>2. recorder' \in [Readers -> Audit!Entry \cup {Nobody}]
    BY <1>1 DEF AuditInv, TrailTyped, Audit!AuditTypeOK
<1>3. CASE Audit!RecordingFails(r)
  <2>1. log' = log /\ index' = index
    BY <1>3 DEF Audit!RecordingFails
  <2>2. TrailTyped'
    BY <1>1, <1>2, <2>1 DEF AuditInv, TrailTyped, Audit!AuditTypeOK, OwnIds
  <2>3. clock' >= clock
    BY <1>1, TrailFacts DEF AuditInv, TrailTyped, Audit!AuditTypeOK
  <2> QED BY <1>1, <2>1, <2>2, <2>3, WalksStand
<1>4. CASE Audit!Insert(r)
  <2>1. PICK e : e = recorder[r]
    OBVIOUS
  <2>2. e \in Audit!Entry
    BY <1>1, <2>1 DEF AuditInv, TrailTyped, Audit!AuditTypeOK
  <2>3. PICK gone \in SUBSET log, id \in Audit!Drawable :
            /\ log' = (log \ gone) \cup IF id \in Audit!Drawn THEN {} ELSE {[e EXCEPT !.id = id]}
            /\ index' = CASE id \in Audit!Drawn -> index
                          [] backend = "postgres" -> index \cup {id}
                          [] OTHER -> index
    BY <1>4, <2>1 DEF Audit!Insert, Audit!Swept
  <2>4. id \in Ids /\ (id \notin Audit!Drawn => id \notin index)
    BY DEF Audit!Drawable
  <2>5. index' = index \/ index' = index \cup {id}
    BY <2>3
  <2>6. PICK fresh : fresh = IF id \in Audit!Drawn THEN {} ELSE {[e EXCEPT !.id = id]}
    OBVIOUS
  <2>7. log' = (log \ gone) \cup fresh
    BY <2>3, <2>6
  <2>8. fresh \subseteq Audit!Entry /\ IsFiniteSet(fresh)
        /\ \A f \in fresh : f.id = id /\ id \notin Audit!Drawn /\ fresh = {f}
    <3>1. [e EXCEPT !.id = id] \in Audit!Entry /\ [e EXCEPT !.id = id].id = id
        BY <2>2, <2>4 DEF Audit!Entry
    <3>2. IsFiniteSet({}) /\ IsFiniteSet({[e EXCEPT !.id = id]})
        BY FS_EmptySet, FS_Singleton
    <3> QED BY <2>6, <3>1, <3>2
  <2>9. log \subseteq Audit!Entry /\ IsFiniteSet(log) /\ OwnIds(log) /\ index \subseteq Ids
    BY DEF AuditInv, TrailTyped, Audit!AuditTypeOK
  <2>10. IsFiniteSet(log')
    <3>1. IsFiniteSet(log \ gone)
        BY <2>9, FS_Subset
    <3> QED BY <2>7, <2>8, <3>1, FS_Union
  <2>11. OwnIds(log')
    BY <2>7, <2>8, <2>9 DEF OwnIds, Audit!Drawn
  <2>12. Audit!AuditTypeOK'
    BY <1>1, <1>2, <2>4, <2>5, <2>7, <2>8, <2>9 DEF AuditInv, TrailTyped, Audit!AuditTypeOK
  <2>13. TrailTyped'
    BY <2>10, <2>11, <2>12 DEF TrailTyped, OwnIds
  <2>14. \A f \in log' \ log : f.id \notin index
    BY <2>4, <2>7, <2>8
  <2>15. clock' >= clock
    BY <1>1, TrailFacts DEF AuditInv, TrailTyped, Audit!AuditTypeOK
  <2> QED BY <1>1, <2>5, <2>13, <2>14, <2>15, WalksStand
<1> QED BY <1>3, <1>4

LEMMA IndexedTrail ==
    ASSUME AuditInv, NEW e \in log, Audit!IndexCatchesUp(e) \/ Audit!Expires(e)
    PROVE  AuditInv'
<1>1. /\ UNCHANGED <<backend, clock, recorder, walk>>
      /\ index' \in {index, index \cup {e.id}} /\ log' \in {log, log \ {e}}
    BY DEF Audit!IndexCatchesUp, Audit!Expires
<1>2. log \subseteq Audit!Entry /\ IsFiniteSet(log) /\ OwnIds(log) /\ e.id \in Ids
    BY DEF AuditInv, TrailTyped, Audit!AuditTypeOK, Audit!Entry
<1>3. log' \subseteq log /\ index \subseteq index'
    BY <1>1
<1>4. TrailTyped'
  <2>1. IsFiniteSet(log')
    BY <1>2, <1>3, FS_Subset
  <2>2. OwnIds(log')
    BY <1>2, <1>3 DEF OwnIds
  <2>3. Audit!AuditTypeOK'
    BY <1>1, <1>2, <1>3 DEF AuditInv, TrailTyped, Audit!AuditTypeOK
  <2> QED BY <2>1, <2>2, <2>3 DEF TrailTyped, OwnIds
<1>5. clock' >= clock
    BY <1>1, TrailFacts DEF AuditInv, TrailTyped, Audit!AuditTypeOK
<1> QED BY <1>1, <1>3, <1>4, <1>5, WalksStand

LEMMA AgedTrail == ASSUME AuditInv, Audit!Ticks PROVE AuditInv'
<1>1. clock < MaxClock /\ clock' = clock + 1 /\ UNCHANGED <<backend, log, index, recorder, walk>>
    BY DEF Audit!Ticks
<1>2. clock \in 0..MaxClock /\ MaxClock \in Nat
    BY TrailFacts DEF AuditInv, TrailTyped, Audit!AuditTypeOK
<1>3. clock' \in 0..MaxClock /\ clock' >= clock
    BY <1>1, <1>2
<1>4. TrailTyped'
    BY <1>1, <1>3 DEF AuditInv, TrailTyped, Audit!AuditTypeOK, OwnIds
<1> QED BY <1>1, <1>3, <1>4, WalksStand

LEMMA TrailStands == ASSUME AuditInv, UNCHANGED <<auditOnly, backend>> PROVE AuditInv'
<1>1. UNCHANGED <<backend, clock, log, index, recorder, walk>>
    BY DEF auditOnly
<1>2. TrailTyped'
    BY <1>1 DEF AuditInv, TrailTyped, Audit!AuditTypeOK, OwnIds
<1>3. clock' >= clock /\ index \subseteq index' /\ \A f \in log' \ log : f.id \notin index
    BY <1>1, TrailFacts DEF AuditInv, TrailTyped, Audit!AuditTypeOK
<1> QED BY <1>1, <1>2, <1>3, WalksStand

LEMMA LimiterKeepsBackend == Limiter!LimiterNext => backend' = backend
<1> SUFFICES ASSUME Limiter!LimiterNext PROVE backend' = backend
    OBVIOUS
<1>1. ASSUME NEW t \in Handlers, Limiter!LimiterStep(t)
      PROVE  backend' = backend
  <2>1. CASE \/ \E n \in Nodes : Limiter!Arrive(t, n)
             \/ Limiter!CheckIncrement(t) \/ Limiter!Rehydrate(t) \/ Limiter!TripBlock(t)
             \/ Limiter!UnknownAccount(t) \/ Limiter!IsBlocked(t) \/ Limiter!ReadBlock(t)
    BY <2>1 DEF Limiter!Arrive, Limiter!CheckIncrement, Limiter!Rehydrate, Limiter!TripBlock, Limiter!Trip,
                Limiter!UnknownAccount, Limiter!IsBlocked, Limiter!ReadBlock
  <2>2. CASE \/ Limiter!WrongPassword(t) \/ Limiter!CodePending(t) \/ Limiter!RightPassword(t)
             \/ Limiter!RecordFailure(t) \/ Limiter!ClearCounter(t) \/ Limiter!ClearBlock(t)
             \/ Limiter!StoreFails(t)
    BY <2>2 DEF Limiter!WrongPassword, Limiter!CodePending, Limiter!RightPassword,
                Limiter!RecordFailure, Limiter!ClearCounter, Limiter!ClearBlock, Limiter!StoreFails
  <2> QED BY <1>1, <2>1, <2>2 DEF Limiter!LimiterStep
<1>2. CASE Elsewhere
    BY <1>2 DEF Elsewhere, Limiter!Tick, Limiter!SweepCounters, Limiter!SweepBlock, Limiter!PushedOut
<1> QED BY <1>1, <1>2, LimiterNextSplits

LEMMA TrailStepOrStand == AuditInv /\ [Next]_vars => AuditInv'
<1> SUFFICES ASSUME AuditInv, [Next]_vars PROVE AuditInv'
    OBVIOUS
<1>1. CASE TrailMoves
  <2>1. ASSUME NEW r \in Readers,
               \/ \E o \in Origins, id \in Ids : Audit!Stamp(r, o, id)
               \/ Audit!Insert(r) \/ Audit!RecordingFails(r)
        PROVE  AuditInv'
    BY <2>1, StampedTrail, InsertedTrail
  <2>2. ASSUME NEW e \in log, Audit!IndexCatchesUp(e) \/ Audit!Expires(e) PROVE AuditInv'
    BY <2>2, IndexedTrail
  <2>3. ASSUME NEW w \in Readers,
               \/ \E field \in Audit!Fields, limit \in Limits :
                      \E key \in Audit!Keys(field) : Audit!BeginWalk(w, field, key, limit)
               \/ Audit!NextPage(w)
        PROVE  AuditInv'
    BY <2>3, BegunWalk, TurnedPage
  <2> QED BY <1>1, <2>1, <2>2, <2>3, AgedTrail DEF TrailMoves, Audit!AuditNext
<1>2. CASE ~TrailMoves
  <2>1. UNCHANGED auditOnly
    BY <1>2 DEF Next, vars, ThrottleMoves, FactorsMove, ConfigurationMoves, GrantsMove
  <2>2. UNCHANGED backend
    BY <1>2, LimiterKeepsBackend, FactorsKeepBackend
       DEF Next, vars, ThrottleMoves, FactorsMove, ConfigurationMoves, GrantsMove
  <2> QED BY <2>1, <2>2, TrailStands
<1> QED BY <1>1, <1>2

(***************************************************************************)
(* Whoever reads a trail to its end has met every entry that was there     *)
(* when the reading began and still is, each once and newest first, and    *)
(* none of another user or tenant, however many record, whatever expires   *)
(* and whatever the page size (list_page, encode, decode, record).         *)
(***************************************************************************)
THEOREM TrailsAreReadWhole == Spec => []WalksAreComplete
<1>1. AuditInv => WalksAreComplete
  <2> SUFFICES ASSUME AuditInv, NEW w \in Readers, NEW v, v = walk[w]
               PROVE  /\ \A i \in 1..(Len(v.seen) - 1) : Audit!Newer(v.seen[i], v.seen[i + 1])
                      /\ \A i \in DOMAIN v.seen : v.seen[i][v.field] = v.key
                      /\ v.status = "done" =>
                             \A e \in v.owed :
                                 e \in Audit!Listed(v.field, v.key) => e \in Audit!ToSet(v.seen)
    BY DEF WalksAreComplete, Audit!WalksAreComplete
  <2>1. WalkFine(v) /\ v.seen \in Seq(Audit!Entry)
    BY DEF AuditInv, TrailTyped, Audit!AuditTypeOK, Audit!Walk
  <2>2. DOMAIN v.seen = 1..Len(v.seen) /\ Len(v.seen) \in Nat
    BY <2>1
  <2>3. ASSUME NEW i \in 1..(Len(v.seen) - 1) PROVE Audit!Newer(v.seen[i], v.seen[i + 1])
    <3>1. i \in 1..Len(v.seen) /\ i + 1 \in 1..Len(v.seen) /\ i < i + 1
        BY <2>2
    <3> QED BY <2>1, <3>1 DEF WalkFine
  <2>4. \A i \in DOMAIN v.seen : v.seen[i][v.field] = v.key
    BY <2>1, <2>2 DEF WalkFine
  <2>5. v.status = "done" =>
            \A e \in v.owed : e \in Audit!Listed(v.field, v.key) => e \in Audit!ToSet(v.seen)
    BY <2>1, <2>2 DEF WalkFine, Audit!ToSet
  <2> QED BY <2>3, <2>4, <2>5
<1>2. Init => AuditInv
  <2> SUFFICES ASSUME Init PROVE AuditInv
    OBVIOUS
  <2>1. /\ backend \in {"dynamodb", "postgres"} /\ clock = 0 /\ log = {} /\ index = {}
        /\ recorder = [r \in Readers |-> Nobody] /\ walk = [w \in Readers |-> Audit!NoWalk]
    BY DEF Init, Audit!AuditInit
  <2>2. PICK v : v = Audit!NoWalk
    OBVIOUS
  <2>3. /\ v = [status |-> "idle", field |-> "user", key |-> Nobody, limit |-> 1, seen |-> <<>>, owed |-> {}]
        /\ v \in Audit!Walk
    <3>1. 1 \in 1..MaxListResults /\ <<>> \in Seq(Audit!Entry)
        BY TrailFacts
    <3> QED BY <2>2, <3>1 DEF Audit!NoWalk, Audit!Walk, Audit!Fields
  <2>4. WalkFine(v)
    BY <2>3 DEF WalkFine
  <2>5. TrailTyped
    <3>1. IsFiniteSet(log) /\ OwnIds(log)
        BY <2>1, FS_EmptySet DEF OwnIds
    <3>2. 0 \in 0..MaxClock
        BY TrailFacts
    <3> QED BY <2>1, <2>2, <2>3, <3>1, <3>2 DEF TrailTyped, Audit!AuditTypeOK
  <2> QED BY <2>1, <2>2, <2>4, <2>5 DEF AuditInv
<1> QED BY <1>1, <1>2, TrailStepOrStand, PTL DEF Spec
=============================================================================
