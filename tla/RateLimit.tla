----------------------------- MODULE RateLimit -----------------------------
(***************************************************************************)
(* Password logins behind the rate limiter.  One counter per window caps   *)
(* what a client address may ask (the volume path); a rolling counter caps *)
(* the wrong passwords of an account (the brute-force path).  A counter    *)
(* that passes its cap sets a block; a node remembers the blocks it has    *)
(* met and answers from memory while they last.  Counters and blocks are   *)
(* rows of one store shared by the nodes, and a store that does not answer *)
(* lets the request pass.                                                  *)
(*                                                                         *)
(* One client address and one account.  A handler takes the time once, at  *)
(* its start, and works with it to its end.  Every store call is an        *)
(* action.                                                                 *)
(***************************************************************************)
EXTENDS Naturals, FiniteSets

CONSTANTS
    Nodes,          \* instances of the service, each with its cache
    Logins,         \* handlers that can be in flight at once
    NoNode,
    Grace,          \* TTL_GRACE_SECS
    MaxNow,         \* bound: the clock of the model
    MaxDelay,       \* bound: seconds a handler may take
    MaxWins,        \* bound: right passwords given
    MaxCount,       \* bound: a counter at which no more logins arrive
    MaxGuesses,     \* bound: wrong passwords the history counts
    Settings        \* what a behaviour is about: the policies, and what may happen

Policies == {"perIp", "login"}

\* Policy::new keeps the window positive, so that dividing by it is defined.
Policy == [max: Nat, window: Nat \ {0}, block: Nat]

Whiles == {"guess", "know", "outage", "evict", "lag"}

RateLimitAssumption ==
    /\ Settings \subseteq [rules: [Policies -> Policy], traffic: SUBSET Whiles]
    /\ NoNode \notin Nodes
    /\ {Grace, MaxNow, MaxDelay, MaxWins, MaxCount, MaxGuesses} \subseteq Nat
    /\ MaxDelay < Grace /\ 2 * MaxDelay <= Grace
    /\ \A s \in Settings : s.rules["login"].max <= MaxGuesses
    /\ IsFiniteSet(Logins)

VARIABLES
    backend,    \* which backend the deployment runs on
    traffic,    \* what may happen in this behaviour
    rules,      \* the configured policies
    now,        \* the clock
    counters,   \* volume counters, one per window
    failures,   \* the rolling failure counter
    blocks,     \* the block rows
    cache,      \* per node, the blocks it remembers (the LRU)
    login,      \* the handlers in flight
    admitted,   \* history: requests of a window the volume cap let pass
    asked,      \* history: requests of a window that were counted
    guessed,    \* history: wrong passwords the account was tested with
    streak,     \* history: failures counted with no quiet period in between
    wins        \* history: right passwords given

limiterVars ==
    <<backend, traffic, rules, now, counters, failures, blocks, cache, login,
      admitted, asked, guessed, streak, wins>>

history == <<admitted, asked, guessed, streak, wins>>

-----------------------------------------------------------------------------
(* State *)

Disabled(p) == rules[p].max = 0
Bucket(at) == at \div rules.perIp.window
Buckets == 0..MaxNow

\* ttl 0: there is no such row.
Counter == [count: Nat, ttl: Nat]

\* older is what an eventually consistent read may still return.
BlockRow == [until: Nat, older: Nat, ttl: Nat]

NoCounter == [count |-> 0, ttl |-> 0]
NoBlock == [until |-> 0, older |-> 0, ttl |-> 0]

Phases ==
    {"idle", "increment", "rehydrate", "tripIp", "isBlocked", "getBlock", "verify",
     "failure", "tripLogin", "clearCounter", "clearBlock"}

Handler == [phase: Phases, node: Nodes \cup {NoNode}, at: 0..MaxNow]

Idle == [phase |-> "idle", node |-> NoNode, at |-> 0]

LimiterTypeOK ==
    /\ backend \in {"dynamodb", "postgres"} /\ [rules |-> rules, traffic |-> traffic] \in Settings
    /\ now \in 0..MaxNow
    /\ counters \in [Buckets -> Counter]
    /\ failures \in Counter
    /\ blocks \in [Policies -> BlockRow]
    /\ cache \in [Nodes -> [Policies -> Nat]]
    /\ login \in [Logins -> Handler]
    /\ admitted \in [Buckets -> Nat] /\ asked \in [Buckets -> Nat]
    /\ {guessed, streak} \subseteq Nat /\ wins \in 0..MaxWins

LimiterInit ==
    /\ backend \in {"dynamodb", "postgres"}
    /\ \E chosen \in Settings : rules = chosen.rules /\ traffic = chosen.traffic
    /\ now = 0
    /\ counters = [b \in Buckets |-> NoCounter]
    /\ failures = NoCounter
    /\ blocks = [p \in Policies |-> NoBlock]
    /\ cache = [n \in Nodes |-> [p \in Policies |-> 0]]
    /\ login = [t \in Logins |-> Idle]
    /\ admitted = [b \in Buckets |-> 0] /\ asked = [b \in Buckets |-> 0]
    /\ guessed = 0 /\ streak = 0 /\ wins = 0

-----------------------------------------------------------------------------
(* The store's primitives *)

\* Mutant of Increment: the count survives the end of its window.
IncrementForever(row, ttl) == [count |-> row.count + 1, ttl |-> ttl]

\* PostgreSQL takes an expired row for gone; DynamoDB goes on counting until its TTL has deleted it.
Increment(row, ttl) ==
    IF backend = "postgres" /\ row.ttl <= now
    THEN [count |-> 1, ttl |-> ttl]
    ELSE [count |-> row.count + 1, ttl |-> ttl]

\* What a read of the block may answer, 0 for none.
GetBlock(p) ==
    IF backend = "postgres"
    THEN {IF blocks[p].ttl > now THEN blocks[p].until ELSE 0}
    ELSE {blocks[p].until} \cup IF "lag" \in traffic THEN {blocks[p].older} ELSE {}

SetBlock(p, until) ==
    blocks' = [blocks EXCEPT ![p] =
        [until |-> until, older |-> @.until, ttl |-> until + Grace]]

ClearRow(p) ==
    blocks' = [blocks EXCEPT ![p] = [until |-> 0, older |-> @.until, ttl |-> 0]]

-----------------------------------------------------------------------------
(* The limiter *)

\* Histories count no further than the properties look.
UpTo(top, n) == IF n > top THEN top ELSE n

\* cached_block_decision: a block that has ended is dropped from the cache.
Remembered(n, p, at) == at < cache[n][p]

Forget(n, p) == cache' = [cache EXCEPT ![n][p] = 0]
Remember(n, p, until) == cache' = [cache EXCEPT ![n][p] = until]

Is(t, phase) == login[t].phase = phase
To(t, phase) == login' = [login EXCEPT ![t].phase = phase]
Ends(t) == login' = [login EXCEPT ![t] = Idle]

\* A login arrives; a block of its address that the node remembers costs no store call.
Arrive(t, n) ==
    /\ Is(t, "idle")
    /\ counters[Bucket(now)].count < MaxCount /\ failures.count < MaxCount
    /\ IF ~Disabled("perIp") /\ Remembered(n, "perIp", now)
       THEN UNCHANGED <<login, cache>>
       ELSE /\ login' = [login EXCEPT ![t] =
                 [phase |-> IF Disabled("perIp") THEN "isBlocked" ELSE "increment",
                  node |-> n, at |-> now]]
            /\ Forget(n, "perIp")
    /\ UNCHANGED <<backend, traffic, rules, now, counters, failures, blocks, history>>

\* The request is counted in the window of its own start.
CheckIncrement(t) ==
    LET b == Bucket(login[t].at)
        row == Increment(counters[b], (b + 1) * rules.perIp.window + rules.perIp.block + Grace)
        over == row.count > rules.perIp.max
    IN /\ Is(t, "increment")
       /\ counters' = [counters EXCEPT ![b] = row]
       /\ asked' = [asked EXCEPT ![b] = UpTo(rules.perIp.max + 1, @ + 1)]
       /\ To(t, IF row.count = 1 THEN "rehydrate" ELSE IF over THEN "tripIp" ELSE "isBlocked")
       /\ admitted' = [admitted EXCEPT ![b] = IF row.count = 1 \/ over THEN @ ELSE @ + 1]
       /\ UNCHANGED <<backend, traffic, rules, now, failures, blocks, cache, guessed, streak, wins>>

\* rehydrate_block, in a fresh window: a block some other node has set.
Rehydrate(t) ==
    \E until \in GetBlock("perIp") :
        /\ Is(t, "rehydrate")
        /\ IF login[t].at < until
           THEN /\ Remember(login[t].node, "perIp", until)
                /\ Ends(t)
                /\ UNCHANGED admitted
           ELSE /\ To(t, "isBlocked")
                /\ admitted' = [admitted EXCEPT ![Bucket(login[t].at)] = @ + 1]
                /\ UNCHANGED cache
        /\ UNCHANGED <<backend, traffic, rules, now, counters, failures, blocks, asked, guessed,
                       streak, wins>>

\* trip_block: a write that fails is passed over, the node still remembers.
Trip(t, p) ==
    LET until == login[t].at + rules[p].block IN
    /\ \/ SetBlock(p, until)
       \/ "outage" \in traffic /\ UNCHANGED blocks
    /\ Remember(login[t].node, p, until)
    /\ Ends(t)
    /\ UNCHANGED <<backend, traffic, rules, now, counters, failures, history>>

TripBlock(t) ==
    \/ Is(t, "tripIp") /\ Trip(t, "perIp")
    \/ Is(t, "tripLogin") /\ Trip(t, "login")

\* No open account has this name: the volume cap is all there is.
UnknownAccount(t) ==
    /\ Is(t, "isBlocked")
    /\ Ends(t)
    /\ UNCHANGED <<backend, traffic, rules, now, counters, failures, blocks, cache, history>>

\* is_blocked, before the password is looked at: the cache, and on a miss the store.
IsBlocked(t) ==
    LET n == login[t].node IN
    /\ Is(t, "isBlocked")
    /\ IF Disabled("login") THEN To(t, "verify") /\ UNCHANGED cache
       ELSE IF Remembered(n, "login", login[t].at) THEN Ends(t) /\ UNCHANGED cache
       ELSE To(t, "getBlock") /\ Forget(n, "login")
    /\ UNCHANGED <<backend, traffic, rules, now, counters, failures, blocks, history>>

ReadBlock(t) ==
    \E until \in GetBlock("login") :
        /\ Is(t, "getBlock")
        /\ IF login[t].at < until
           THEN Remember(login[t].node, "login", until) /\ Ends(t)
           ELSE To(t, "verify") /\ UNCHANGED cache
        /\ UNCHANGED <<backend, traffic, rules, now, counters, failures, blocks, history>>

\* The password (or the TOTP code behind it) is wrong, and is going to be counted.
WrongPassword(t) ==
    /\ "guess" \in traffic
    /\ Is(t, "verify")
    /\ IF Disabled("login") THEN Ends(t) /\ UNCHANGED guessed
       ELSE To(t, "failure") /\ guessed' = UpTo(MaxGuesses, guessed + 1)
    /\ UNCHANGED <<backend, traffic, rules, now, counters, failures, blocks, cache, admitted, asked,
                   streak, wins>>

\* The password is right, the second factor is asked for: neither a failure nor a success.
CodePending(t) ==
    /\ "know" \in traffic
    /\ Is(t, "verify")
    /\ Ends(t)
    /\ UNCHANGED <<backend, traffic, rules, now, counters, failures, blocks, cache, history>>

RightPassword(t) ==
    /\ "know" \in traffic
    /\ wins < MaxWins
    /\ Is(t, "verify")
    /\ wins' = wins + 1
    /\ IF Disabled("login") THEN Ends(t) ELSE To(t, "clearCounter")
    /\ UNCHANGED <<backend, traffic, rules, now, counters, failures, blocks, cache, admitted, asked,
                   guessed, streak>>

\* record_failure: every failure renews the row's TTL, so that a quiet period resets the count.
RecordFailure(t) ==
    LET row == Increment(failures, login[t].at + rules.login.window + Grace) IN
    /\ Is(t, "failure")
    /\ failures' = row
    /\ streak' = IF failures.ttl <= now THEN 1 ELSE UpTo(rules.login.max, streak + 1)
    /\ IF row.count >= rules.login.max THEN To(t, "tripLogin") ELSE Ends(t)
    /\ UNCHANGED <<backend, traffic, rules, now, counters, blocks, cache, admitted, asked, guessed,
                   wins>>

\* record_success: the counter, then the block, then the block this node remembers.
ClearCounter(t) ==
    /\ Is(t, "clearCounter")
    /\ \/ failures' = NoCounter /\ streak' = 0
       \/ "outage" \in traffic /\ UNCHANGED <<failures, streak>>
    /\ To(t, "clearBlock")
    /\ UNCHANGED <<backend, traffic, rules, now, counters, blocks, cache, admitted, asked, guessed,
                   wins>>

ClearBlock(t) ==
    /\ Is(t, "clearBlock")
    /\ \/ ClearRow("login")
       \/ "outage" \in traffic /\ UNCHANGED blocks
    /\ Forget(login[t].node, "login")
    /\ Ends(t)
    /\ UNCHANGED <<backend, traffic, rules, now, counters, failures, history>>

\* A store call of the limiter that fails lets the request pass, or leaves a failure uncounted.
StoreFails(t) ==
    /\ "outage" \in traffic
    /\ CASE Is(t, "increment") -> To(t, "isBlocked")
         [] Is(t, "rehydrate") -> To(t, "isBlocked")
         [] Is(t, "getBlock") -> To(t, "verify")
         [] Is(t, "failure") -> Ends(t)
         [] OTHER -> FALSE
    /\ UNCHANGED <<backend, traffic, rules, now, counters, failures, blocks, cache, history>>

-----------------------------------------------------------------------------
(* Time *)

Tick ==
    /\ now < MaxNow
    /\ \A t \in Logins : ~Is(t, "idle") => now < login[t].at + MaxDelay
    /\ now' = now + 1
    /\ UNCHANGED <<backend, traffic, rules, counters, failures, blocks, cache, login, history>>

Expired(row) == row.ttl # 0 /\ row.ttl <= now

\* The sweep, or DynamoDB's TTL, deletes an expired row, at some time.
SweepCounters ==
    /\ \/ \E b \in Buckets :
            Expired(counters[b]) /\ counters' = [counters EXCEPT ![b] = NoCounter]
               /\ UNCHANGED failures
       \/ Expired(failures) /\ failures' = NoCounter /\ UNCHANGED counters
    /\ UNCHANGED <<backend, traffic, rules, now, blocks, cache, login, history>>

SweepBlock(p) ==
    /\ Expired(blocks[p])
    /\ blocks' = [blocks EXCEPT ![p] = NoBlock]
    /\ UNCHANGED <<backend, traffic, rules, now, counters, failures, cache, login, history>>

\* The cache is bounded: the blocks of other subjects push this one out.
PushedOut(n, p) ==
    /\ "evict" \in traffic
    /\ cache[n][p] # 0
    /\ Forget(n, p)
    /\ UNCHANGED <<backend, traffic, rules, now, counters, failures, blocks, login, history>>

LimiterStep(t) ==
    \/ \E n \in Nodes : Arrive(t, n)
    \/ CheckIncrement(t) \/ Rehydrate(t) \/ TripBlock(t)
    \/ UnknownAccount(t) \/ IsBlocked(t) \/ ReadBlock(t)
    \/ WrongPassword(t) \/ CodePending(t) \/ RightPassword(t)
    \/ RecordFailure(t) \/ ClearCounter(t) \/ ClearBlock(t) \/ StoreFails(t)

LimiterNext ==
    \/ \E t \in Logins : LimiterStep(t)
    \/ Tick \/ SweepCounters
    \/ \E p \in Policies : SweepBlock(p) \/ \E n \in Nodes : PushedOut(n, p)

LimiterSpec == LimiterInit /\ [][LimiterNext]_limiterVars

-----------------------------------------------------------------------------
(* Properties *)

(***************************************************************************)
(* The nodes together let no more requests of one window pass than the cap *)
(* allows, whichever node counts, forgets or is asked late (a store that   *)
(* does not answer lets requests pass uncounted; they are not in the sum). *)
(***************************************************************************)
VolumeCapped ==
    ~Disabled("perIp") => \A b \in Buckets : admitted[b] <= rules.perIp.max

(***************************************************************************)
(* While the store answers and nobody gives the right password, the nodes  *)
(* together test an account with no more wrong passwords than one run may  *)
(* collect without reaching the cap, for every quiet period, and the       *)
(* handlers that were past the check when a block was set, for every       *)
(* block that has run out (a period or a block that a slow handler begins  *)
(* ends MaxDelay early).                                                   *)
(***************************************************************************)
GuessesAllowed ==
    LET runs == 1 + now \div (rules.login.window + Grace - MaxDelay)
        blocked == 1 + now \div (rules.login.block - MaxDelay)
    IN runs * (rules.login.max - 1) + blocked * Cardinality(Logins)

GuessesBounded ==
    /\ backend = "postgres"
    /\ traffic \cap {"know", "outage"} = {}
    /\ ~Disabled("login") /\ rules.login.block > MaxDelay
    => guessed <= GuessesAllowed

(***************************************************************************)
(* Nobody is refused for less than the policy says: behind every block,    *)
(* stored or remembered, stands a window with more requests than the cap,  *)
(* or a run of as many failures as the cap; and none outlasts the policy's *)
(* time.                                                                   *)
(***************************************************************************)
BlockedForCause ==
    \A p \in Policies :
        LET known == {blocks[p].until} \cup {cache[n][p] : n \in Nodes} IN
        \A until \in known \ {0} :
            /\ until <= now + rules[p].block
            /\ p = "perIp" => \E b \in Buckets : asked[b] > rules.perIp.max
            /\ p = "login" => guessed >= rules.login.max

\* A quiet period resets the count: on PostgreSQL an account is blocked for failures that followed
\* one another within the window, never for one that an earlier, forgotten run is added to.
QuietPeriodResets ==
    backend = "postgres" =>
        \A t \in Logins : Is(t, "tripLogin") => streak >= rules.login.max \/ wins > 0
=============================================================================
