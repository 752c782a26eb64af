--------------------------- MODULE AccessProofs ---------------------------
(***************************************************************************)
(* Rights lapse. Whatever changes what a token rests on is marked with the *)
(* time it happens (Marked). A trade in flight has either read nothing     *)
(* that has changed since, and then is about to give what its credential   *)
(* is entitled to, or is marked at or after its beginning; and it mints    *)
(* within MaxDelay of that.                                                *)
(*                                                                         *)
(* And rights stay at home. What no label of the system tenant and no      *)
(* permission beyond a tenant is among grants no such permission (Tame),   *)
(* however the rules build on one another; and nobody outside the system   *)
(* tenant comes by such a label (Held).                                    *)
(***************************************************************************)
EXTENDS Access, WellFoundedInduction, TLAPS

Things == Users \cup Keys \cup Tenants

UsedKey(key) ==
    /\ key.owner \in Users \cup {NoUser} /\ key.tenant \in Tenants
    /\ key.ttl \in Nat

RowsTyped ==
    /\ clock \in Nat
    /\ people \in [Users -> Person]
    /\ sessions \in [Users -> Session]
    /\ DOMAIN keyRing = Keys /\ \A k \in Keys : InUse(k) => UsedKey(keyRing[k])
    /\ licences \in [Tenants -> SUBSET Features]
    /\ changedAt \in [Things -> Nat] /\ \A x \in Things : changedAt[x] <= clock

\* Whoever bears a token, or is about to: a user by a session of its own, or a key for its owner or itself.
Bearer(token) ==
    /\ token.via \in Users \cup Keys /\ token.user \in Users \cup {NoUser}
    /\ token.tenant \in Tenants
    /\ token.via \in Users => token.user = token.via

TokenTyped(token) ==
    /\ Bearer(token)
    /\ token.ttl \in Nat /\ token.exp \in Nat /\ token.exp <= clock + token.ttl

Sound(token) ==
    \/ token.granted \subseteq Entitlement(token)
    \/ \E x \in Touched(token) : token.exp <= changedAt[x] + MaxDelay + token.ttl

TokensLapse == \A token \in tokens : TokenTyped(token) /\ Sound(token)

TradeTyped ==
    trade.phase # "idle" =>
        /\ trade.phase \in {"key", "account", "tenant"}
        /\ Bearer(trade) /\ trade.ttl \in Nat
        /\ trade.since \in Nat /\ trade.since <= clock /\ clock <= trade.since + MaxDelay
        /\ trade.opens => trade.via \in Users

\* The token the trade is about to be given, but for its permissions.
Prospect ==
    [via |-> trade.via, user |-> trade.user, tenant |-> trade.tenant, proof |-> trade.proof,
     switched |-> trade.phase = "tenant"]

\* A login has no session before it is through.
Qualified ==
    /\ trade.via \in Keys => InUse(trade.via)
    /\ trade.via \in Users => sessions[trade.via].live \/ trade.opens
    /\ trade.user # NoUser => ~people[trade.user].locked /\ MayAct(Prospect)
    /\ trade.user = NoUser =>
           \/ trade.tenant = keyRing[trade.via].tenant
           \/ ExchangesAnywhere(keyRing[trade.via])

\* What has been read is what the rows still say.
Current ==
    IF trade.phase = "key"
    THEN InUse(trade.via) /\ keyRing[trade.via] = trade.key
    ELSE /\ Qualified
         /\ trade.subjects \cup Markers(trade.tenant, trade.home)
            = Carried(Prospect) \cup IF trade.phase = "tenant" THEN licences[trade.tenant] ELSE {}

TradeFollows ==
    trade.phase # "idle" =>
        /\ trade.phase = "key" =>
               trade.via \in Keys /\ trade.user = NoUser /\ UsedKey(trade.key)
        /\ Current \/ \E x \in Touched(trade) : trade.since <= changedAt[x]

Inv == RowsTyped /\ TokensLapse /\ TradeTyped /\ TradeFollows

-----------------------------------------------------------------------------
(* What a step may change without a mark *)

Marked ==
    /\ document' = document
    /\ \A u \in Users : people'[u] = people[u] \/ changedAt'[u] = clock
    /\ \A u \in Users : (sessions[u].live => sessions'[u].live) \/ changedAt'[u] = clock
    /\ \A k \in Keys : keyRing'[k] = keyRing[k] \/ changedAt'[k] = clock
    /\ \A t \in Tenants : licences'[t] = licences[t] \/ changedAt'[t] = clock
    /\ \A x \in Things : changedAt[x] <= changedAt'[x]

LEMMA TouchedAreThings ==
    ASSUME AccessAssumption, NEW token, Bearer(token)
    PROVE  Touched(token) \subseteq Things
BY DEF AccessAssumption, Bearer, Touched, Things

LEMMA LastChangeIsLast ==
    ASSUME AccessAssumption, RowsTyped, NEW token, Bearer(token), NEW x \in Touched(token)
    PROVE  changedAt[x] \in Nat /\ LastChange(token) \in Nat /\ changedAt[x] <= LastChange(token)
<1> DEFINE Latest(at) == \A y \in Touched(token) : changedAt[y] <= at
<1>1. Touched(token) \subseteq Things
    BY TouchedAreThings
<1>2. \A y \in Touched(token) : changedAt[y] \in Nat
    BY <1>1 DEF RowsTyped
<1>3. \E at \in {changedAt[y] : y \in Touched(token)} : Latest(at)
  <2>1. PICK a, b, c, d : Touched(token) = {a, b, c, d}
    <3>1. CASE token.user = NoUser
      <4>1. Touched(token) = {token.via, token.tenant, token.via, token.tenant}
        BY <3>1 DEF Touched
      <4> QED BY <4>1
    <3>2. CASE token.user # NoUser
      <4>1. Touched(token) = {token.via, token.tenant, token.user, HomeOf[token.user]}
        BY <3>2 DEF Touched
      <4> QED BY <4>1
    <3> QED BY <3>1, <3>2
  <2>2. {changedAt[a], changedAt[b], changedAt[c], changedAt[d]} \subseteq Nat
    BY <1>2, <2>1
  <2>3. \E y \in {a, b, c, d} : /\ changedAt[a] <= changedAt[y] /\ changedAt[b] <= changedAt[y]
                               /\ changedAt[c] <= changedAt[y] /\ changedAt[d] <= changedAt[y]
    BY <2>2
  <2> QED BY <2>1, <2>3
<1>4. LastChange(token) \in {changedAt[y] : y \in Touched(token)} /\ Latest(LastChange(token))
    BY <1>3 DEF LastChange
<1> QED BY <1>2, <1>4

LEMMA InvLapses == ASSUME AccessAssumption, Inv PROVE RightsLapse
<1> SUFFICES ASSUME NEW token \in tokens,
                    NEW x \in Touched(token), token.exp <= changedAt[x] + MaxDelay + token.ttl
             PROVE  token.exp <= LastChange(token) + MaxDelay + token.ttl
    BY DEF RightsLapse, Inv, TokensLapse, Sound
<1>1. TokenTyped(token) /\ RowsTyped
    BY DEF Inv, TokensLapse
<1>2. changedAt[x] \in Nat /\ LastChange(token) \in Nat /\ changedAt[x] <= LastChange(token)
    BY <1>1, LastChangeIsLast DEF TokenTyped
<1> QED BY <1>1, <1>2 DEF TokenTyped, AccessAssumption

-----------------------------------------------------------------------------
(* A bearer whose rows stand keeps what it is entitled to *)

Stands(token) ==
    /\ document' = document
    /\ token.user # NoUser => /\ people'[token.user] = people[token.user]
                              /\ licences'[HomeOf[token.user]] = licences[HomeOf[token.user]]
    /\ token.via \in Users => (sessions[token.via].live => sessions'[token.via].live)
    /\ token.via \in Keys => keyRing'[token.via] = keyRing[token.via]
    /\ licences'[token.tenant] = licences[token.tenant]

LEMMA StandsOrMarked ==
    ASSUME AccessAssumption, Marked, NEW token, Bearer(token)
    PROVE  Stands(token) \/ \E x \in Touched(token) : changedAt'[x] = clock
BY DEF AccessAssumption, Marked, Bearer, Touched, Stands

LEMMA LabelsStand ==
    ASSUME AccessAssumption, NEW token, Bearer(token), Stands(token), token.user # NoUser
    PROVE  OwnLabels(token)' = OwnLabels(token)
BY DEF OwnLabels, Restricted, Stands

LEMMA CarriedStands ==
    ASSUME AccessAssumption, NEW token, Bearer(token), Stands(token)
    PROVE  Carried(token)' = Carried(token)
<1>1. token.via \in Keys \/ token.user # NoUser
    BY DEF Bearer, AccessAssumption
<1>2. CASE token.user = NoUser
    BY <1>1, <1>2 DEF Carried, Stands, Markers
<1>3. CASE token.user # NoUser
    BY <1>3, LabelsStand DEF Carried, Markers, TakenHome
<1> QED BY <1>2, <1>3

LEMMA MayActStands ==
    ASSUME AccessAssumption, NEW token, Bearer(token), Stands(token), token.user # NoUser
    PROVE  MayAct(token)' <=> MayAct(token)
<1>1. OwnLabels(token)' = OwnLabels(token)
    BY LabelsStand
<1>2. CASE token.switched
    BY <1>2 DEF MayAct
<1>3. CASE ~token.switched
  <2>1. TakenHome(token) = HomeOf[token.user] /\ TakenHome(token)' = TakenHome(token)
    BY <1>3 DEF TakenHome
  <2>2. licences'[TakenHome(token)] = licences[TakenHome(token)]
    BY <2>1 DEF Stands
  <2>3. MayStay(token.user, TwoFactor \in token.proof)' <=> MayStay(token.user,
        TwoFactor \in token.proof)
    BY DEF MayStay, Markers, Proven, Stands
  <2>4. UmamiGrants(OwnLabels(token) \cup licences[TakenHome(token)] \cup token.proof, SwitchTenant)'
        <=> UmamiGrants(OwnLabels(token) \cup licences[TakenHome(token)] \cup token.proof,
            SwitchTenant)
    BY <1>1, <2>1, <2>2 DEF UmamiGrants, Stands
  <2> QED BY <2>1, <2>3, <2>4 DEF MayAct
<1> QED BY <1>2, <1>3

LEMMA EntitlementStands ==
    ASSUME AccessAssumption, NEW token, Bearer(token), Stands(token)
    PROVE  Entitlement(token) \subseteq Entitlement(token)'
<1>1. Carried(token)' = Carried(token)
    BY CarriedStands
<1>2. token.user = NoUser => token.via \in Keys
    BY DEF Bearer, AccessAssumption
<1>3. Standing(token) => Standing(token)'
  <2> SUFFICES ASSUME Standing(token) PROVE Standing(token)'
    OBVIOUS
  <2>1. token.via \in Keys => InUse(token.via)'
    BY DEF Standing, InUse, Stands
  <2>2. token.via \in Users => sessions'[token.via].live
    BY DEF Standing, Stands
  <2>3. token.user # NoUser => ~people'[token.user].locked /\ MayAct(token)'
    BY MayActStands DEF Standing, Stands
  <2>4. token.user = NoUser =>
            token.tenant = keyRing'[token.via].tenant \/ ExchangesAnywhere(keyRing[token.via])'
    BY <1>2 DEF Standing, Stands, ExchangesAnywhere, UmamiGrants
  <2> QED BY <2>1, <2>2, <2>3, <2>4 DEF Standing
<1> QED BY <1>1, <1>3 DEF Entitlement, Stands

LEMMA TokenStaysSound ==
    ASSUME AccessAssumption, RowsTyped, Marked, RowsTyped',
           NEW token, TokenTyped(token), Sound(token)
    PROVE  Sound(token)'
<1>1. Bearer(token) /\ Touched(token) \subseteq Things /\ Touched(token)' = Touched(token)
    BY TouchedAreThings DEF TokenTyped, Touched
<1>2. \A x \in Touched(token) : changedAt[x] \in Nat /\ changedAt'[x] \in Nat
      /\ changedAt[x] <= changedAt'[x]
    BY <1>1 DEF RowsTyped, Marked
<1>3. CASE \E x \in Touched(token) : changedAt'[x] = clock
  <2>1. PICK x \in Touched(token) : changedAt'[x] = clock
    BY <1>3
  <2>2. token.exp <= changedAt'[x] + MaxDelay + token.ttl
    BY <2>1 DEF TokenTyped, AccessAssumption, RowsTyped
  <2> QED BY <1>1, <2>2 DEF Sound
<1>4. CASE Stands(token)
  <2>1. CASE token.granted \subseteq Entitlement(token)
    BY <1>1, <1>4, <2>1, EntitlementStands DEF Sound
  <2>2. CASE \E x \in Touched(token) : token.exp <= changedAt[x] + MaxDelay + token.ttl
    <3>1. PICK x \in Touched(token) : token.exp <= changedAt[x] + MaxDelay + token.ttl
        BY <2>2
    <3>2. token.exp <= changedAt'[x] + MaxDelay + token.ttl
        BY <1>2, <3>1 DEF TokenTyped, AccessAssumption
    <3> QED BY <1>1, <3>2 DEF Sound
  <2> QED BY <2>1, <2>2 DEF Sound
<1> QED BY <1>1, <1>3, <1>4, StandsOrMarked

LEMMA TradeStaysSound ==
    ASSUME AccessAssumption, RowsTyped, Marked, RowsTyped', trade' = trade,
           TradeTyped, TradeFollows
    PROVE  TradeFollows'
<1> SUFFICES ASSUME trade.phase # "idle"
             PROVE  Current' \/ \E x \in Touched(trade) : trade.since <= changedAt'[x]
    BY DEF TradeFollows, UsedKey, Touched
<1>1. Bearer(trade) /\ Touched(trade) \subseteq Things /\ trade.since \in Nat /\ trade.since <= clock
    BY TouchedAreThings DEF TradeTyped
<1>2. CASE \E x \in Touched(trade) : changedAt'[x] = clock
    BY <1>1, <1>2
<1>3. CASE \E x \in Touched(trade) : trade.since <= changedAt[x]
    BY <1>1, <1>3 DEF RowsTyped, Marked
<1>4. CASE Stands(trade) /\ Current
  <2>1. CASE trade.phase = "key"
    BY <1>4, <2>1 DEF Current, Stands, InUse, TradeFollows
  <2>2. CASE trade.phase # "key"
    <3>1. PICK p : p = Prospect
        OBVIOUS
    <3>2. Bearer(p) /\ Stands(p) /\ p.via = trade.via /\ p.user = trade.user
          /\ p.tenant = trade.tenant
        BY <1>1, <1>4, <3>1 DEF Prospect, Bearer, Stands
    <3>3. Prospect' = p
        BY <3>1 DEF Prospect
    <3>4. Carried(p)' = Carried(p) /\ (p.user # NoUser => (MayAct(p)' <=> MayAct(p)))
        BY <3>2, CarriedStands, MayActStands
    <3>5. Qualified'
      <4>0. Qualified /\ (trade.user = NoUser => trade.via \in Keys)
        BY <1>1, <1>4, <2>2 DEF Current, Bearer, AccessAssumption
      <4>1. trade.via \in Keys => InUse(trade.via)'
        BY <1>4, <4>0 DEF Qualified, Stands, InUse
      <4>2. trade.via \in Users => sessions'[trade.via].live \/ trade.opens
        BY <1>4, <4>0 DEF Qualified, Stands
      <4>3. trade.user # NoUser => ~people'[trade.user].locked
        BY <1>4, <4>0 DEF Qualified, Stands
      <4>4. trade.user # NoUser => MayAct(Prospect)'
        <5>1. trade.user # NoUser => MayAct(p)
            BY <3>1, <4>0 DEF Qualified
        <5> QED BY <3>2, <3>3, <3>4, <5>1 DEF MayAct, TakenHome, OwnLabels
      <4>5. trade.user = NoUser =>
                trade.tenant = keyRing'[trade.via].tenant \/ ExchangesAnywhere(keyRing[trade.via])'
        BY <1>4, <4>0 DEF Qualified, Stands, ExchangesAnywhere, UmamiGrants
      <4> QED BY <4>1, <4>2, <4>3, <4>4, <4>5 DEF Qualified
    <3>6. Carried(Prospect)' = Carried(Prospect)
        BY <3>1, <3>3, <3>4 DEF Carried, OwnLabels, TakenHome
    <3>7. licences'[trade.tenant] = licences[trade.tenant]
        BY <1>4 DEF Stands
    <3> QED BY <1>4, <2>2, <3>5, <3>6, <3>7 DEF Current, Markers
  <2> QED BY <2>1, <2>2
<1> QED BY <1>1, <1>2, <1>3, <1>4, StandsOrMarked DEF TradeFollows

LEMMA BecomesCurrent ==
    ASSUME AccessAssumption, trade'.phase \in {"account", "tenant"},
           NEW p, p = Prospect', Bearer(p), Stands(p),
           p.via \in Keys => InUse(p.via),
           p.via \in Users => sessions[p.via].live \/ trade'.opens,
           p.user # NoUser => ~people[p.user].locked /\ MayAct(p),
           p.user = NoUser =>
               p.tenant = keyRing[p.via].tenant \/ ExchangesAnywhere(keyRing[p.via]),
           trade'.subjects \cup Markers(trade'.tenant, trade'.home)
               = Carried(p) \cup IF trade'.phase = "tenant" THEN licences[p.tenant] ELSE {}
    PROVE  Current'
<1>1. p.via = trade'.via /\ p.user = trade'.user /\ p.tenant = trade'.tenant
    BY DEF Prospect
<1>2. Carried(p)' = Carried(p) /\ (p.user # NoUser => MayAct(p)')
    BY CarriedStands, MayActStands
<1>3. p.user = NoUser => p.via \in Keys
    BY DEF Bearer, AccessAssumption
<1>4. Qualified'
  <2>1. trade'.via \in Keys => InUse(trade.via)'
    BY <1>1 DEF Stands, InUse
  <2>2. trade'.via \in Users => sessions'[trade'.via].live \/ trade'.opens
    BY <1>1 DEF Stands
  <2>3. trade'.user # NoUser => ~people'[trade'.user].locked
    BY <1>1 DEF Stands
  <2>4. trade'.user # NoUser => MayAct(Prospect)'
    BY <1>1, <1>2 DEF MayAct, TakenHome, OwnLabels
  <2>5. trade'.user = NoUser =>
            trade'.tenant = keyRing'[trade'.via].tenant \/ ExchangesAnywhere(keyRing[trade.via])'
    BY <1>1, <1>3 DEF Stands, ExchangesAnywhere, UmamiGrants
  <2> QED BY <2>1, <2>2, <2>3, <2>4, <2>5 DEF Qualified
<1>5. Carried(Prospect)' = Carried(p)
    BY <1>2 DEF Carried, OwnLabels, TakenHome
<1>6. licences'[trade'.tenant] = licences[p.tenant]
    BY <1>1 DEF Stands
<1> QED BY <1>4, <1>5, <1>6 DEF Current, Markers

-----------------------------------------------------------------------------
(* The rows: every change is marked *)

LEMMA RowsStand ==
    ASSUME RowsTyped, UNCHANGED <<document, clock, people, sessions, keyRing, licences, changedAt>>
    PROVE  Marked /\ RowsTyped'
BY DEF RowsTyped, Marked, InUse, UsedKey

LEMMA PersonChanges ==
    ASSUME AccessAssumption, RowsTyped, NEW u \in Users, NEW person \in Person,
           people' = [people EXCEPT ![u] = person], Changed(u),
           UNCHANGED <<document, clock, sessions, keyRing, licences>>
    PROVE  Marked /\ RowsTyped'
<1>1. u \in Things /\ clock \in Nat
    BY DEF Things, RowsTyped
<1>2. changedAt' = [changedAt EXCEPT ![u] = clock]
    BY DEF Changed
<1> QED BY <1>1, <1>2 DEF RowsTyped, Marked, InUse, UsedKey

LEMMA SessionChanges ==
    ASSUME AccessAssumption, RowsTyped, NEW u \in Users, NEW session \in Session,
           sessions' = [sessions EXCEPT ![u] = session],
           Changed(u) \/ (UNCHANGED changedAt /\ (sessions[u].live => session.live)),
           UNCHANGED <<document, clock, people, keyRing, licences>>
    PROVE  Marked /\ RowsTyped'
<1>1. u \in Things /\ clock \in Nat
    BY DEF Things, RowsTyped
<1>2. \/ changedAt' = [changedAt EXCEPT ![u] = clock]
      \/ UNCHANGED changedAt /\ (sessions[u].live => session.live)
    BY DEF Changed
<1> QED BY <1>1, <1>2 DEF RowsTyped, Marked, InUse, UsedKey

LEMMA KeyChanges ==
    ASSUME AccessAssumption, RowsTyped, NEW k \in Keys, NEW row,
           row \in {Unused, Gone} \/ UsedKey(row),
           Issued(k, row),
           UNCHANGED <<document, clock, people, sessions, licences>>
    PROVE  Marked /\ RowsTyped'
<1>1. k \in Things /\ clock \in Nat
    BY DEF Things, RowsTyped
<1>2. changedAt' = [changedAt EXCEPT ![k] = clock] /\ keyRing' = [keyRing EXCEPT ![k] = row]
    BY DEF Changed, Issued
<1>3. \A j \in Keys : keyRing'[j] = IF j = k THEN row ELSE keyRing[j]
    BY <1>2 DEF RowsTyped
<1>4. DOMAIN keyRing' = Keys /\ \A j \in Keys : InUse(j)' => UsedKey(keyRing'[j])
    BY <1>2, <1>3 DEF RowsTyped, InUse, UsedKey
<1>5. changedAt' \in [Things -> Nat] /\ \A x \in Things : changedAt'[x] <= clock
    BY <1>1, <1>2 DEF RowsTyped
<1> QED BY <1>1, <1>2, <1>3, <1>4, <1>5 DEF RowsTyped, Marked, UsedKey

LEMMA LicenceChanges ==
    ASSUME AccessAssumption, RowsTyped, NEW t \in Tenants, NEW features \in SUBSET Features,
           licences' = [licences EXCEPT ![t] = features], Changed(t),
           UNCHANGED <<document, clock, people, sessions, keyRing>>
    PROVE  Marked /\ RowsTyped'
<1>1. t \in Things /\ clock \in Nat
    BY DEF Things, RowsTyped
<1>2. changedAt' = [changedAt EXCEPT ![t] = clock]
    BY DEF Changed
<1> QED BY <1>1, <1>2 DEF RowsTyped, Marked, InUse, UsedKey

LEMMA TimePasses ==
    ASSUME RowsTyped, ClockTicks
    PROVE  Marked /\ RowsTyped'
BY DEF RowsTyped, ClockTicks, Marked, InUse, UsedKey

-----------------------------------------------------------------------------
(* The trades *)

\* What stands still when a trade begins or goes on.
Quiet == UNCHANGED <<document, clock, people, keyRing, licences, changedAt, tokens>>

LEMMA TradeStarts ==
    ASSUME AccessAssumption, Inv, NEW u \in Users, NEW t \in Tenants, NEW strong \in BOOLEAN,
           NEW opens \in BOOLEAN, Starts(u, t, strong, opens), Quiet, UNCHANGED sessions,
           ~people[u].locked, opens \/ sessions[u].live,
           t = HomeOf[u] \/ MayStay(u, strong)
    PROVE  TradeTyped' /\ TradeFollows'
<1>1. /\ trade'.phase = "account" /\ trade'.via = u /\ trade'.user = u /\ trade'.tenant = t
      /\ trade'.home = HomeOf[u] /\ trade'.subjects = people[u].roles \cup Proven(strong)
      /\ trade'.proof = Proven(strong) /\ trade'.opens = opens /\ trade'.since = clock
      /\ trade'.ttl = AccessTtl
    BY DEF Starts, NoTrade
<1>2. PICK p : p = Prospect'
    OBVIOUS
<1>3. /\ p.via = u /\ p.user = u /\ p.tenant = t /\ p.proof = Proven(strong) /\ ~p.switched
    BY <1>1, <1>2 DEF Prospect
<1>4. u # NoUser /\ u \notin Keys
    BY DEF AccessAssumption
<1>5. Bearer(p) /\ Stands(p)
    BY <1>3, <1>4 DEF Bearer, Stands, Quiet
<1>6. MayAct(p)
  <2>1. (TwoFactor \in p.proof) = strong
    BY <1>3 DEF Proven
  <2> QED BY <1>3, <2>1 DEF MayAct, TakenHome
<1>7. Carried(p) = people[u].roles \cup Proven(strong) \cup Markers(t, HomeOf[u])
    BY <1>3, <1>4 DEF Carried, OwnLabels, TakenHome
<1>8. Current'
    BY <1>1, <1>2, <1>3, <1>4, <1>5, <1>6, <1>7, BecomesCurrent
<1>9. TradeTyped'
    BY <1>1, <1>4 DEF TradeTyped, Bearer, Inv, RowsTyped, Quiet, AccessAssumption
<1> QED BY <1>1, <1>8, <1>9 DEF TradeFollows

LEMMA SwitchTrades ==
    ASSUME AccessAssumption, Inv, NEW token \in tokens, NEW t \in Tenants, SwitchTo(token, t)
    PROVE  TradeTyped' /\ TradeFollows'
<1> DEFINE u == token.user
<1> DEFINE factors == token.proof \cap {TwoFactor}
<1>1. u \in Users /\ u # NoUser /\ u \notin Keys
    BY DEF SwitchTo, Inv, TokensLapse, TokenTyped, Bearer, AccessAssumption
<1>2. /\ trade'.phase = "tenant" /\ trade'.via = u /\ trade'.user = u /\ trade'.tenant = t
      /\ trade'.home = System /\ trade'.subjects = people[u].roles \cup licences[t] \cup factors
      /\ trade'.proof = factors /\ trade'.opens = FALSE /\ trade'.since = clock
      /\ trade'.ttl = AccessTtl
    BY DEF SwitchTo, NoTrade
<1> HIDE DEF u, factors
<1>3. PICK p : p = Prospect'
    OBVIOUS
<1>4. /\ p.via = u /\ p.user = u /\ p.tenant = t /\ p.proof = factors /\ p.switched
    BY <1>2, <1>3 DEF Prospect
<1>5. /\ ~people[u].locked /\ sessions[u].live
      /\ sessions' = [sessions EXCEPT ![u].tenant = t]
      /\ UNCHANGED <<document, clock, people, keyRing, licences, tokens, changedAt>>
    BY DEF SwitchTo, u
<1>6. sessions'[u].live
    BY <1>1, <1>5 DEF Inv, RowsTyped, Session
<1>7. Bearer(p) /\ Stands(p)
    BY <1>1, <1>4, <1>5, <1>6 DEF Bearer, Stands
<1>8. MayAct(p)
    BY <1>4 DEF MayAct
<1>9. Carried(p) = people[u].roles \cup factors \cup Markers(t, System)
    BY <1>1, <1>4 DEF Carried, OwnLabels, TakenHome
<1>10. Current'
  <2>1. trade'.subjects \cup Markers(trade'.tenant, trade'.home) = Carried(p) \cup licences[p.tenant]
    BY <1>2, <1>4, <1>9
  <2> QED BY <1>1, <1>2, <1>3, <1>4, <1>5, <1>7, <1>8, <2>1, BecomesCurrent
<1>11. TradeTyped'
    BY <1>1, <1>2, <1>5 DEF TradeTyped, Bearer, Inv, RowsTyped, AccessAssumption
<1> QED BY <1>2, <1>10, <1>11 DEF TradeFollows

LEMMA KeyIsRead ==
    ASSUME AccessAssumption, Inv, NEW k \in Keys, NEW t \in Tenants, ReadKey(k, t)
    PROVE  TradeTyped' /\ TradeFollows'
<1>1. /\ trade'.phase = "key" /\ trade'.via = k /\ trade'.user = NoUser /\ trade'.tenant = t
      /\ trade'.key = keyRing[k] /\ trade'.ttl = keyRing[k].ttl /\ trade'.opens = FALSE
      /\ trade'.since = clock
    BY DEF ReadKey, NoTrade
<1>2. InUse(k) /\ UsedKey(keyRing[k]) /\ UNCHANGED <<keyRing, clock>>
    BY DEF ReadKey, Inv, RowsTyped
<1>3. k \notin Users
    BY DEF AccessAssumption
<1>4. TradeTyped'
    BY <1>1, <1>2, <1>3 DEF TradeTyped, Bearer, UsedKey, Inv, RowsTyped, AccessAssumption
<1>5. Current'
    BY <1>1, <1>2 DEF Current, InUse
<1> QED BY <1>1, <1>2, <1>4, <1>5 DEF TradeFollows, UsedKey

\* A trade that goes on is not about anything else, and what was marked stays so.
LEMMA OwnerLoads ==
    ASSUME AccessAssumption, Inv, NEW proof \in {{Pat}, {Pat, HmacPat}}, LoadOwner(proof)
    PROVE  TradeTyped' /\ TradeFollows'
<1>1. CASE trade' = NoTrade
    BY <1>1 DEF NoTrade, TradeTyped, TradeFollows
<1>2. CASE trade' # NoTrade
  <2> DEFINE u == trade.key.owner
  <2> DEFINE k == trade.via
  <2> DEFINE subjects == Restricted(people[u].roles, trade.key.labels)
  <2> DEFINE barred == \/ people[u].locked
                       \/ /\ trade.tenant # HomeOf[u]
                          /\ ~(/\ HomeOf[u] = System
                               /\ UmamiGrants(subjects \cup licences[HomeOf[u]] \cup proof,
                                  SwitchTenant))
  <2>a. OwnerSubjects(proof) /\ trade.phase = "key" /\ u # NoUser
        /\ UNCHANGED <<document, clock, people, sessions, keyRing, licences, changedAt>>
    BY DEF LoadOwner
  <2> DEFINE next == [trade EXCEPT !.phase = "account", !.user = u, !.origin = HomeOf[u],
                                   !.home = HomeOf[u], !.key = Unused,
                                   !.subjects = subjects \cup proof, !.proof = proof]
  <2>b. IF barred THEN trade' = NoTrade ELSE trade' = next
    BY ONLY <2>a DEF OwnerSubjects, Ends
  <2>c. ~barred /\ trade' = next
    <3> HIDE DEF barred, next
    <3> QED BY ONLY <1>2, <2>b
  <2>0. /\ UNCHANGED <<document, clock, people, sessions, keyRing, licences, changedAt>>
        /\ trade.phase = "key" /\ u # NoUser /\ ~people[u].locked
        /\ \/ trade.tenant = HomeOf[u]
           \/ /\ HomeOf[u] = System
              /\ UmamiGrants(subjects \cup licences[HomeOf[u]] \cup proof, SwitchTenant)
        /\ trade' = next
    BY <2>a, <2>c
  <2>1. u \in Users /\ k \in Keys /\ k \notin Users
    BY <2>0 DEF Inv, TradeFollows, UsedKey, AccessAssumption
  <2>2. /\ trade'.phase = "account" /\ trade'.via = k /\ trade'.user = u
        /\ trade'.tenant = trade.tenant /\ trade'.home = HomeOf[u]
        /\ trade'.subjects = subjects \cup proof /\ trade'.proof = proof
        /\ trade'.opens = trade.opens /\ trade'.since = trade.since /\ trade'.ttl = trade.ttl
    BY <2>0
  <2> HIDE DEF u, k
  <2>3. TradeTyped'
    BY <2>0, <2>1, <2>2 DEF TradeTyped, Bearer, Inv, k
  <2>4. CASE \E x \in Touched(trade) : trade.since <= changedAt[x]
    <3>1. Touched(trade) \subseteq Touched(trade)'
        BY <2>0, <2>1, <2>2 DEF Touched, k, Inv, TradeFollows
    <3> QED BY <2>0, <2>2, <2>3, <2>4, <3>1 DEF TradeFollows
  <2>5. CASE Current
    <3>1. InUse(k) /\ keyRing[k] = trade.key
        BY <2>0, <2>5 DEF Current, k
    <3>2. PICK p : p = Prospect'
        OBVIOUS
    <3>3. /\ p.via = k /\ p.user = u /\ p.tenant = trade.tenant /\ p.proof = proof /\ ~p.switched
        BY <2>2, <3>2 DEF Prospect
    <3>4. Bearer(p) /\ Stands(p)
        BY <2>0, <2>1, <3>3 DEF Bearer, Stands, Inv, TradeTyped
    <3>5. OwnLabels(p) = subjects
        BY <2>1, <3>1, <3>3 DEF OwnLabels
    <3>6. MayAct(p)
        BY <2>0, <2>1, <3>3, <3>5 DEF MayAct, TakenHome
    <3>7. Carried(p) = subjects \cup proof \cup Markers(p.tenant, HomeOf[u])
        BY <2>0, <3>3, <3>5 DEF Carried, TakenHome
    <3>8. Current'
        BY <2>0, <2>1, <2>2, <3>1, <3>2, <3>3, <3>4, <3>6, <3>7, BecomesCurrent
    <3> QED BY <2>2, <2>3, <3>8 DEF TradeFollows
  <2> QED BY <2>0, <2>4, <2>5 DEF Inv, TradeFollows
<1> QED BY <1>1, <1>2

LEMMA KeyStandsAlone ==
    ASSUME AccessAssumption, Inv, KeySubjects
    PROVE  TradeTyped' /\ TradeFollows'
<1>1. CASE trade' = NoTrade
    BY <1>1 DEF NoTrade, TradeTyped, TradeFollows
<1>2. CASE trade' # NoTrade
  <2> DEFINE k == trade.via
  <2> DEFINE key == trade.key
  <2>0. /\ UNCHANGED <<document, clock, people, sessions, keyRing, licences, changedAt>>
        /\ trade.phase = "key" /\ key.owner = NoUser
        /\ trade.tenant = key.tenant \/ ExchangesAnywhere(key)
        /\ trade' = [trade EXCEPT !.phase = "account", !.origin = key.madeIn,
                                  !.home = key.tenant, !.key = Unused, !.subjects = key.labels]
    BY <1>2 DEF KeySubjects, Ends
  <2>1. k \in Keys /\ k \notin Users /\ trade.user = NoUser
    BY <2>0 DEF Inv, TradeFollows, AccessAssumption
  <2>2. /\ trade'.phase = "account" /\ trade'.via = k /\ trade'.user = NoUser
        /\ trade'.tenant = trade.tenant /\ trade'.home = key.tenant
        /\ trade'.subjects = key.labels
        /\ trade'.opens = trade.opens /\ trade'.since = trade.since /\ trade'.ttl = trade.ttl
    BY <2>0, <2>1
  <2>3. TradeTyped'
    BY <2>0, <2>1, <2>2 DEF TradeTyped, Bearer, Inv
  <2> HIDE DEF k, key
  <2>4. CASE \E x \in Touched(trade) : trade.since <= changedAt[x]
    <3>1. Touched(trade) = Touched(trade)'
        BY <2>0, <2>1, <2>2 DEF Touched, k
    <3> QED BY <2>0, <2>2, <2>3, <2>4, <3>1 DEF TradeFollows
  <2>5. CASE Current
    <3>1. InUse(k) /\ keyRing[k] = key
        BY <2>0, <2>5 DEF Current, k, key
    <3>2. PICK p : p = Prospect'
        OBVIOUS
    <3>3. p.via = k /\ p.user = NoUser /\ p.tenant = trade.tenant
        BY <2>2, <3>2 DEF Prospect
    <3>4. Bearer(p) /\ Stands(p)
        BY <2>0, <2>1, <3>3 DEF Bearer, Stands, Inv, TradeTyped
    <3>5. Carried(p) = key.labels \cup Markers(p.tenant, key.tenant)
        BY <3>1, <3>3 DEF Carried
    <3>6. Current'
        BY <2>0, <2>1, <2>2, <3>1, <3>2, <3>3, <3>4, <3>5, BecomesCurrent
    <3> QED BY <2>2, <2>3, <3>6 DEF TradeFollows
  <2> QED BY <2>0, <2>4, <2>5 DEF Inv, TradeFollows
<1> QED BY <1>1, <1>2

-----------------------------------------------------------------------------
(* The tokens *)

LEMMA TokensStay ==
    ASSUME AccessAssumption, Inv, Marked, RowsTyped', clock' \in Nat, clock <= clock',
           tokens' \subseteq tokens
    PROVE  TokensLapse'
<1> SUFFICES ASSUME NEW token \in tokens PROVE TokenTyped(token)' /\ Sound(token)'
    BY DEF TokensLapse
<1>1. TokenTyped(token) /\ Sound(token) /\ RowsTyped
    BY DEF Inv, TokensLapse
<1>2. TokenTyped(token)'
    BY <1>1 DEF TokenTyped, Bearer, RowsTyped
<1> QED BY <1>1, <1>2, TokenStaysSound

LEMMA MintMarks ==
    ASSUME AccessAssumption, Inv, Mint
    PROVE  Marked /\ RowsTyped'
<1>1. /\ trade.phase \in {"account", "tenant"}
      /\ UNCHANGED <<document, clock, people, keyRing, licences, changedAt>>
    BY DEF Mint
<1>2. CASE sessions' = sessions
    BY <1>1, <1>2, RowsStand DEF Inv
<1>3. CASE sessions' # sessions
  <2>1. /\ trade.opens
        /\ sessions' = [sessions EXCEPT ![trade.user] =
                [live |-> TRUE, tenant |-> trade.tenant, strong |-> TwoFactor \in trade.proof]]
    BY <1>3 DEF Mint
  <2>2. trade.user \in Users /\ trade.tenant \in Tenants
    BY <1>1, <2>1 DEF Inv, TradeTyped, Bearer
  <2>3. PICK s : s = [live |-> TRUE, tenant |-> trade.tenant, strong |-> TwoFactor \in trade.proof]
    OBVIOUS
  <2>4. s \in Session /\ s.live
    BY <2>2, <2>3 DEF Session
  <2>5. PICK u \in Users : u = trade.user
    BY <2>2
  <2> QED BY <1>1, <2>1, <2>3, <2>4, <2>5, SessionChanges DEF Inv
<1> QED BY <1>2, <1>3

LEMMA MintedIsSound ==
    ASSUME AccessAssumption, Inv, Mint, NEW token \in tokens', token \notin tokens
    PROVE  TokenTyped(token)' /\ Sound(token)'
<1> DEFINE features == IF trade.phase = "tenant" THEN {} ELSE licences[trade.tenant]
<1> DEFINE granted ==
        Resolve(document, trade.subjects \cup features \cup Markers(trade.tenant, trade.home))
<1>1. /\ trade.phase \in {"account", "tenant"}
      /\ UNCHANGED <<document, clock, people, keyRing, licences, changedAt>>
    BY DEF Mint
<1>2. /\ granted # {} /\ token.granted = granted
      /\ token.via = trade.via /\ token.user = trade.user /\ token.tenant = trade.tenant
      /\ token.proof = trade.proof /\ token.switched = (trade.phase = "tenant")
      /\ token.ttl = trade.ttl /\ token.exp = clock + trade.ttl
  <2> DEFINE fresh ==
          [via |-> trade.via, user |-> trade.user, origin |-> trade.origin,
           tenant |-> trade.tenant, granted |-> granted, proof |-> trade.proof,
           switched |-> trade.phase = "tenant", ttl |-> trade.ttl, exp |-> clock + trade.ttl]
  <2>1. tokens' = (IF granted = {} THEN {} ELSE {fresh}) \cup tokens
    BY Zenon DEF Mint
  <2>2. granted # {} /\ token = fresh
    <3> HIDE DEF granted, fresh
    <3> QED BY <2>1
  <2> HIDE DEF granted
  <2> QED BY <2>2
<1>3. trade.opens => sessions'[trade.user].live
  <2> SUFFICES ASSUME trade.opens PROVE sessions'[trade.user].live
    OBVIOUS
  <2>1. trade.user \in Users
    BY <1>1 DEF Inv, TradeTyped, Bearer
  <2>2. sessions' = [sessions EXCEPT ![trade.user] =
            [live |-> TRUE, tenant |-> trade.tenant, strong |-> TwoFactor \in trade.proof]]
    BY <1>2 DEF Mint
  <2> QED BY <2>1, <2>2 DEF Inv, RowsTyped
<1> HIDE DEF granted, features
<1>4. Bearer(token) /\ trade.ttl \in Nat /\ clock \in Nat
    BY <1>1, <1>2 DEF Inv, RowsTyped, TradeTyped, Bearer
<1>5. TokenTyped(token)'
    BY <1>1, <1>2, <1>4 DEF TokenTyped, Bearer
<1>6. CASE \E x \in Touched(trade) : trade.since <= changedAt[x]
  <2>1. PICK x \in Touched(trade) : trade.since <= changedAt[x]
    BY <1>6
  <2>2. x \in Touched(token)' /\ changedAt'[x] = changedAt[x]
    BY <1>1, <1>2, <2>1 DEF Touched
  <2>3. /\ trade.since \in Nat /\ clock <= trade.since + MaxDelay /\ MaxDelay \in Nat
        /\ changedAt[x] \in Nat
    BY <1>1, <2>1, TouchedAreThings DEF Inv, RowsTyped, TradeTyped, AccessAssumption
  <2>4. clock + trade.ttl <= changedAt[x] + MaxDelay + trade.ttl
    BY <1>4, <2>1, <2>3
  <2>5. token.exp <= changedAt'[x] + MaxDelay + token.ttl
    <3>1. token.ttl = trade.ttl /\ token.exp = clock + trade.ttl
        BY <1>2
    <3> QED BY <2>2, <2>4, <3>1
  <2> QED BY <1>5, <2>2, <2>5 DEF Sound
<1>7. CASE Current
  <2>1. /\ Qualified
        /\ trade.subjects \cup Markers(trade.tenant, trade.home)
            = Carried(Prospect) \cup IF trade.phase = "tenant" THEN licences[trade.tenant] ELSE {}
    BY <1>1, <1>7 DEF Current
  <2>2. Carried(Prospect) = Carried(token) /\ (MayAct(Prospect) <=> MayAct(token))
    <3>1. /\ token.via = Prospect.via /\ token.user = Prospect.user /\ token.tenant = Prospect.tenant
          /\ token.proof = Prospect.proof /\ token.switched = Prospect.switched
        BY <1>2 DEF Prospect
    <3>2. OwnLabels(token) = OwnLabels(Prospect) /\ TakenHome(token) = TakenHome(Prospect)
        BY <3>1 DEF OwnLabels, TakenHome
    <3> QED BY <3>1, <3>2 DEF Carried, MayAct
  <2>3. granted = Resolve(document, Carried(token) \cup licences[token.tenant])
    <3>1. trade.subjects \cup features \cup Markers(trade.tenant, trade.home)
          = Carried(token) \cup licences[token.tenant]
        BY <1>1, <1>2, <2>1, <2>2 DEF features
    <3> QED BY <3>1 DEF granted
  <2>4. token.via \in Users => sessions'[token.via].live
    <3> SUFFICES ASSUME token.via \in Users PROVE sessions'[token.via].live
        OBVIOUS
    <3>1. trade.via = trade.user /\ trade.user \in Users
        BY <1>1, <1>2 DEF Inv, TradeTyped, Bearer
    <3>2. CASE trade.opens
        BY <1>2, <1>3, <3>1, <3>2
    <3>3. CASE ~trade.opens
        BY <1>2, <2>1, <3>3 DEF Mint, Qualified
    <3> QED BY <3>2, <3>3
  <2>5. Stands(token)
    BY <1>1, <2>4 DEF Stands
  <2>6. Carried(token)' = Carried(token) /\ (token.user # NoUser
        => (MayAct(token)' <=> MayAct(token)))
    BY <1>4, <2>5, CarriedStands, MayActStands
  <2>7. Standing(token)'
    <3>1. token.via \in Keys => InUse(token.via)'
        BY <1>1, <1>2, <2>1 DEF Qualified, InUse
    <3>2. token.user # NoUser => ~people'[token.user].locked /\ MayAct(token)'
        BY <1>1, <1>2, <2>1, <2>2, <2>6 DEF Qualified
    <3>3. token.user = NoUser =>
              token.tenant = keyRing'[token.via].tenant \/ ExchangesAnywhere(keyRing[token.via])'
        BY <1>1, <1>2, <2>1 DEF Qualified, ExchangesAnywhere, UmamiGrants
    <3> QED BY <2>4, <3>1, <3>2, <3>3 DEF Standing
  <2>8. Entitlement(token)' = granted
    BY <1>1, <2>3, <2>6, <2>7 DEF Entitlement
  <2>9. token.granted = granted
    BY <1>2
  <2> QED BY <1>5, <2>8, <2>9 DEF Sound
<1> QED BY <1>1, <1>5, <1>6, <1>7 DEF Inv, TradeFollows

-----------------------------------------------------------------------------
(* Every step *)

\* A step that leaves the trade alone.
LEMMA TradeRests ==
    ASSUME AccessAssumption, Inv, Marked, RowsTyped', UNCHANGED <<trade, clock>>
    PROVE  TradeTyped' /\ TradeFollows'
BY TradeStaysSound DEF Inv, TradeTyped, Bearer

LEMMA TradeIsOver == ASSUME trade' = NoTrade PROVE TradeTyped' /\ TradeFollows'
BY DEF NoTrade, TradeTyped, TradeFollows

LEMMA PersonalStep ==
    ASSUME AccessAssumption, Inv, NEW u \in Users,
           (\E strong \in BOOLEAN : SignIn(u, strong)) \/ Logout(u) \/ Refresh(u)
    PROVE  Inv'
<1>0. RowsTyped /\ clock \in Nat
    BY DEF Inv, RowsTyped
<1>1. CASE \E strong \in BOOLEAN : SignIn(u, strong)
  <2>1. PICK strong \in BOOLEAN : SignIn(u, strong)
    BY <1>1
  <2>2. Marked /\ RowsTyped'
    BY <1>0, <2>1, RowsStand DEF SignIn
  <2>3. HomeOf[u] \in Tenants
    BY DEF AccessAssumption
  <2>4. TradeTyped' /\ TradeFollows'
    BY <2>1, <2>3, TradeStarts DEF SignIn, Quiet
  <2>5. TokensLapse'
    BY <1>0, <2>1, <2>2, TokensStay DEF SignIn
  <2> QED BY <2>2, <2>4, <2>5 DEF Inv
<1>2. CASE Logout(u)
  <2>1. PICK s : s = [sessions[u] EXCEPT !.live = FALSE]
    OBVIOUS
  <2>2. s \in Session /\ sessions' = [sessions EXCEPT ![u] = s]
    BY <1>0, <1>2, <2>1 DEF RowsTyped, Session, Logout
  <2>3. Marked /\ RowsTyped'
    BY <1>0, <1>2, <2>2, SessionChanges DEF Logout
  <2>4. TokensLapse'
    BY <1>0, <1>2, <2>3, TokensStay DEF Logout
  <2> QED BY <1>2, <2>3, <2>4, TradeRests DEF Inv, Logout
<1>3. CASE Refresh(u)
  <2>1. CASE people[u].locked
    <3>1. PICK s : s = [sessions[u] EXCEPT !.live = FALSE]
        OBVIOUS
    <3>2. /\ s \in Session /\ sessions' = [sessions EXCEPT ![u] = s]
          /\ Changed(u) /\ UNCHANGED <<document, clock, people, keyRing, licences, trade, tokens>>
      <4>1. /\ sessions' = [sessions EXCEPT ![u].live = FALSE]
            /\ Changed(u) /\ UNCHANGED <<document, clock, people, keyRing, licences, trade, tokens>>
        BY Zenon, <1>3, <2>1 DEF Refresh
      <4>2. sessions \in [Users -> Session]
        BY <1>0 DEF RowsTyped
      <4>3. s \in Session /\ sessions' = [sessions EXCEPT ![u] = s]
        BY <3>1, <4>1, <4>2 DEF Session
      <4> QED BY <4>1, <4>3
    <3>3. Marked /\ RowsTyped'
        BY <1>0, <3>2, SessionChanges
    <3>4. TokensLapse'
        BY <1>0, <3>2, <3>3, TokensStay
    <3> QED BY <3>2, <3>3, <3>4, TradeRests DEF Inv
  <2>2. CASE ~people[u].locked
    <3> DEFINE t == IF sessions[u].tenant # HomeOf[u] /\ ~MayStay(u, sessions[u].strong)
                    THEN HomeOf[u] ELSE sessions[u].tenant
    <3>1. Starts(u, t, sessions[u].strong, FALSE) /\ sessions[u].live /\ Quiet /\ UNCHANGED sessions
      <4>1. Starts(u, t, sessions[u].strong, FALSE)
        BY Zenon, <1>3, <2>2 DEF Refresh
      <4> QED BY <1>3, <2>2, <4>1 DEF Refresh, Quiet
    <3>2. t \in Tenants /\ sessions[u].strong \in BOOLEAN /\ (t = HomeOf[u] \/ MayStay(u,
          sessions[u].strong))
        BY <1>0 DEF RowsTyped, Session, AccessAssumption
    <3> HIDE DEF t
    <3>3. Marked /\ RowsTyped'
        BY <1>0, <3>1, RowsStand DEF Quiet
    <3>4. TradeTyped' /\ TradeFollows'
        BY <2>2, <3>1, <3>2, TradeStarts
    <3>5. TokensLapse'
        BY <1>0, <3>1, <3>3, TokensStay DEF Quiet
    <3> QED BY <3>3, <3>4, <3>5 DEF Inv
  <2> QED BY <2>1, <2>2
<1> QED BY <1>1, <1>2, <1>3

LEMMA TradingStep ==
    ASSUME AccessAssumption, Inv,
           \/ \E k \in Keys, t \in Tenants : ReadKey(k, t)
           \/ \E proof \in {{Pat}, {Pat, HmacPat}} : LoadOwner(proof)
           \/ KeySubjects \/ TradeFails
    PROVE  Inv'
<1>1. UNCHANGED <<document, clock, people, sessions, keyRing, licences, changedAt, tokens>>
    BY DEF ReadKey, LoadOwner, KeySubjects, TradeFails
<1>2. Marked /\ RowsTyped' /\ clock \in Nat
    BY <1>1, RowsStand DEF Inv, RowsTyped
<1>3. TokensLapse'
    BY <1>1, <1>2, TokensStay
<1>4. TradeTyped' /\ TradeFollows'
    BY KeyIsRead, OwnerLoads, KeyStandsAlone, TradeIsOver DEF TradeFails, Ends
<1> QED BY <1>2, <1>3, <1>4 DEF Inv

LEMMA MintingStep == ASSUME AccessAssumption, Inv, Mint PROVE Inv'
<1>1. Marked /\ RowsTyped'
    BY MintMarks
<1>2. TokensLapse'
  <2> SUFFICES ASSUME NEW token \in tokens' PROVE TokenTyped(token)' /\ Sound(token)'
    BY DEF TokensLapse
  <2>1. CASE token \in tokens
    <3>1. TokenTyped(token) /\ Sound(token) /\ RowsTyped
        BY <2>1 DEF Inv, TokensLapse
    <3>2. TokenTyped(token)'
        BY <3>1 DEF TokenTyped, Bearer, Mint
    <3> QED BY <1>1, <3>1, <3>2, TokenStaysSound
  <2>2. CASE token \notin tokens
    BY <2>2, MintedIsSound
  <2> QED BY <2>1, <2>2
<1>3. TradeTyped' /\ TradeFollows'
    BY TradeIsOver DEF Mint, Ends
<1> QED BY <1>1, <1>2, <1>3 DEF Inv

LEMMA AdministratorsStep ==
    ASSUME AccessAssumption, Inv, NEW token \in tokens,
           \/ \E u \in Users : SetLocked(token, u) \/ \E roles \in SUBSET Roles : SetRoles(token,
              u, roles)
           \/ \E k \in Keys :
                  \/ \E t \in Tenants, scopes \in SUBSET Scopes, ttl \in KeyTtls :
                         CreateApiKey(token, k, t, scopes, ttl)
                  \/ \E roles \in SUBSET Roles : CreateMyPat(token, k, roles)
                  \/ DeleteKey(token, k)
           \/ \E t \in Tenants, f \in Features : GrantLicence(token, t, f) \/ RevokeLicence(token,
              t, f)
    PROVE  Inv'
<1>0. RowsTyped /\ clock \in Nat /\ Bearer(token)
    BY DEF Inv, RowsTyped, TokensLapse, TokenTyped
<1>1. UNCHANGED <<clock, trade, tokens>>
    BY DEF SetLocked, SetRoles, CreateApiKey, CreateMyPat, DeleteKey, GrantLicence, RevokeLicence
<1>2. Marked /\ RowsTyped'
  <2>1. ASSUME NEW u \in Users, SetLocked(token, u)
        PROVE  Marked /\ RowsTyped'
    <3>1. PICK person : person = [people[u] EXCEPT !.locked = ~@]
        OBVIOUS
    <3>2. person \in Person /\ people' = [people EXCEPT ![u] = person]
      <4>1. people \in [Users -> Person]
        BY <1>0 DEF RowsTyped
      <4> QED BY <2>1, <3>1, <4>1 DEF Person, SetLocked
    <3> QED BY <1>0, <2>1, <3>2, PersonChanges DEF SetLocked
  <2>2. ASSUME NEW u \in Users, NEW roles \in SUBSET Roles, SetRoles(token, u, roles)
        PROVE  Marked /\ RowsTyped'
    <3>1. PICK person : person = [people[u] EXCEPT !.roles = roles]
        OBVIOUS
    <3>2. person \in Person /\ people' = [people EXCEPT ![u] = person]
      <4>1. people \in [Users -> Person]
        BY <1>0 DEF RowsTyped
      <4> QED BY <2>2, <3>1, <4>1 DEF Person, SetRoles
    <3> QED BY <1>0, <2>2, <3>2, PersonChanges DEF SetRoles
  <2>3. ASSUME NEW k \in Keys, NEW t \in Tenants, NEW scopes \in SUBSET Scopes, NEW ttl \in KeyTtls,
               CreateApiKey(token, k, t, scopes, ttl)
        PROVE  Marked /\ RowsTyped'
    <3>1. PICK row : row = [owner |-> NoUser, tenant |-> t, labels |-> scopes, ttl |-> ttl,
                            madeIn |-> IF token.origin = System THEN t ELSE token.origin]
        OBVIOUS
    <3>2. UsedKey(row)
        BY <3>1 DEF UsedKey, AccessAssumption
    <3> QED BY <1>0, <2>3, <3>1, <3>2, KeyChanges DEF CreateApiKey
  <2>4. ASSUME NEW k \in Keys, NEW roles \in SUBSET Roles, CreateMyPat(token, k, roles)
        PROVE  Marked /\ RowsTyped'
    <3>1. PICK row : row = [owner |-> token.user, tenant |-> token.tenant, labels |-> roles,
                            ttl |-> AccessTtl, madeIn |-> HomeOf[token.user]]
        OBVIOUS
    <3>2. UsedKey(row)
        BY <1>0, <3>1 DEF UsedKey, AccessAssumption, Bearer
    <3> QED BY <1>0, <2>4, <3>1, <3>2, KeyChanges DEF CreateMyPat
  <2>5. ASSUME NEW k \in Keys, DeleteKey(token, k)
        PROVE  Marked /\ RowsTyped'
    BY <1>0, <2>5, KeyChanges DEF DeleteKey
  <2>6. ASSUME NEW t \in Tenants, NEW f \in Features,
               GrantLicence(token, t, f) \/ RevokeLicence(token, t, f)
        PROVE  Marked /\ RowsTyped'
    <3>1. PICK features \in SUBSET Features : licences' = [licences EXCEPT ![t] = features]
      <4>1. licences[t] \cup {f} \in SUBSET Features /\ licences[t] \ {f} \in SUBSET Features
        BY <1>0 DEF RowsTyped
      <4> QED BY <2>6, <4>1 DEF GrantLicence, RevokeLicence
    <3> QED BY <1>0, <2>6, <3>1, LicenceChanges DEF GrantLicence, RevokeLicence
  <2> QED BY <2>1, <2>2, <2>3, <2>4, <2>5, <2>6
<1>3. TokensLapse'
    BY <1>0, <1>1, <1>2, TokensStay
<1> QED BY <1>1, <1>2, <1>3, TradeRests DEF Inv

LEMMA SwitchingStep ==
    ASSUME AccessAssumption, Inv, NEW token \in tokens, NEW t \in Tenants, SwitchTo(token, t)
    PROVE  Inv'
<1>0. RowsTyped /\ clock \in Nat
    BY DEF Inv, RowsTyped
<1>1. PICK u : u = token.user
    OBVIOUS
<1>2. u \in Users
    BY <1>1 DEF SwitchTo, Inv, TokensLapse, TokenTyped, Bearer
<1>3. PICK s : s = [sessions[u] EXCEPT !.tenant = t]
    OBVIOUS
<1>4. /\ s \in Session /\ s.live = sessions[u].live
      /\ sessions' = [sessions EXCEPT ![u] = s]
    BY <1>0, <1>1, <1>2, <1>3 DEF RowsTyped, Session, SwitchTo
<1>5. Marked /\ RowsTyped'
    BY <1>0, <1>2, <1>4, SessionChanges DEF SwitchTo
<1>6. TokensLapse'
    BY <1>0, <1>5, TokensStay DEF SwitchTo
<1> QED BY <1>5, <1>6, SwitchTrades DEF Inv

LEMMA TickingStep == ASSUME AccessAssumption, Inv, ClockTicks PROVE Inv'
<1>0. RowsTyped /\ clock \in Nat
    BY DEF Inv, RowsTyped
<1>1. Marked /\ RowsTyped'
    BY <1>0, TimePasses
<1>2. TokensLapse'
    BY <1>0, <1>1, TokensStay DEF ClockTicks
<1>3. TradeTyped'
    BY <1>0 DEF ClockTicks, Inv, TradeTyped, Bearer, Idle, AccessAssumption
<1>4. TradeFollows'
    BY <1>1, TradeStaysSound DEF Inv, ClockTicks
<1> QED BY <1>1, <1>2, <1>3, <1>4 DEF Inv

LEMMA InvIsInductive == ASSUME AccessAssumption, Inv, [AccessNext]_accessVars PROVE Inv'
<1>1. CASE AccessNext
    BY <1>1, PersonalStep, TradingStep, MintingStep, AdministratorsStep, SwitchingStep, TickingStep
       DEF AccessNext
<1>2. CASE UNCHANGED accessVars
  <2>1. RowsTyped /\ clock \in Nat
    BY DEF Inv, RowsTyped
  <2>2. Marked /\ RowsTyped'
    BY <1>2, <2>1, RowsStand DEF accessVars
  <2>3. TokensLapse'
    BY <1>2, <2>1, <2>2, TokensStay DEF accessVars
  <2> QED BY <1>2, <2>2, <2>3, TradeRests DEF Inv, accessVars
<1> QED BY <1>1, <1>2

LEMMA InvStarts == ASSUME AccessAssumption, AccessInit PROVE Inv
<1>1. people \in [Users -> Person]
    BY DEF AccessInit, Person, OwnerRoles, AccessAssumption
<1>2. sessions \in [Users -> Session]
    BY DEF AccessInit, Session, AccessAssumption
<1>3. RowsTyped
    BY <1>1, <1>2 DEF AccessInit, RowsTyped, InUse, Things, Changed
<1>4. TradeTyped /\ TradeFollows /\ TokensLapse
    BY DEF AccessInit, NoTrade, TradeTyped, TradeFollows, TokensLapse
<1> QED BY <1>3, <1>4 DEF Inv

(***************************************************************************)
(* Whatever is taken away is gone with the tokens that carry it (exchange, *)
(* refresh, switch_tenant, mint_for_api): for all configurations, users,   *)
(* keys, tenants and lifetimes.                                            *)
(***************************************************************************)
THEOREM LostRightsLapse == AccessSpec => []RightsLapse
<1>1. AccessInit => Inv
    BY InvStarts, AccessAssumption
<1>2. Inv /\ [AccessNext]_accessVars => Inv'
    BY InvIsInductive, AccessAssumption
<1>3. Inv => RightsLapse
    BY InvLapses, AccessAssumption
<1> QED BY <1>1, <1>2, <1>3, PTL DEF AccessSpec

-----------------------------------------------------------------------------
(* What ordered rules grant *)

LEMMA LessIsWellFounded ==
    \E R : IsWellFoundedOn(R, Nat) /\ \A a, b \in Nat : a < b => <<a, b>> \in R
<1>1. \A a, b \in Nat : a < b => <<a, b>> \in OpToRel(<, Nat)
    BY DEF OpToRel
<1> QED BY <1>1, NatLessThanWellFounded, Zenon

LEMMA NaturalsAreReached ==
    ASSUME NEW T \in SUBSET Nat, 0 \in T, \A n \in T : n + 1 \in T
    PROVE  T = Nat
<1> SUFFICES ASSUME Nat \ T # {} PROVE FALSE
    OBVIOUS
<1>0. PICK R : IsWellFoundedOn(R, Nat) /\ \A a, b \in Nat : a < b => <<a, b>> \in R
    BY LessIsWellFounded
<1>1. PICK least \in Nat \ T : \A n \in Nat \ T : <<n, least>> \notin R
    BY <1>0, WFMin
<1>2. least # 0 /\ least - 1 \in Nat /\ least - 1 < least
    BY <1>1
<1>3. <<least - 1, least>> \in R
    BY <1>0, <1>1, <1>2
<1>4. least - 1 \in T
    BY <1>1, <1>2, <1>3
<1>5. least \in T
  <2>1. (least - 1) + 1 = least
    BY <1>1
  <2> QED BY <1>4, <2>1
<1> QED BY <1>1, <1>5

\* What rule n adds to what the rules before it have granted.
Adds(d, S, f, n) ==
    IF n = 0 THEN {}
    ELSE f[n - 1] \cup IF Holds(d.rules[n].when, S \cup f[n - 1]) THEN d.rules[n].grant ELSE {}

Accrues(d, S, m, f) == f = [n \in 0..m |-> Adds(d, S, f, n)]

LEMMA GrantsAccrue ==
    ASSUME NEW d, NEW S, NEW m \in Nat
    PROVE  \E f : Accrues(d, S, m, f)
<1> DEFINE T == {k \in Nat : \E f : Accrues(d, S, k, f)}
<1>1. 0 \in T
  <2>1. PICK f : f = [n \in 0..0 |-> {}]
    OBVIOUS
  <2>2. f = [n \in 0..0 |-> Adds(d, S, f, n)]
    BY <2>1 DEF Adds
  <2> QED BY <2>2 DEF Accrues
<1>2. ASSUME NEW k \in T PROVE k + 1 \in T
  <2>1. PICK f : Accrues(d, S, k, f)
    OBVIOUS
  <2>2. PICK g : g = [n \in 0..(k + 1) |-> IF n = k + 1 THEN Adds(d, S, f, n) ELSE f[n]]
    OBVIOUS
  <2>3. \A n \in 0..k : f[n] = Adds(d, S, f, n) /\ g[n] = f[n]
    BY <2>1, <2>2 DEF Accrues
  <2>4. ASSUME NEW n \in 0..(k + 1) PROVE Adds(d, S, g, n) = Adds(d, S, f, n)
    <3>1. n # 0 => n - 1 \in 0..k
        OBVIOUS
    <3>2. n # 0 => g[n - 1] = f[n - 1]
        BY <2>3, <3>1
    <3> QED BY <3>2 DEF Adds
  <2>5. \A n \in 0..(k + 1) : g[n] = Adds(d, S, g, n)
    BY <2>2, <2>3, <2>4
  <2>6. Accrues(d, S, k + 1, g)
    BY <2>2, <2>5 DEF Accrues
  <2> QED BY <2>6
<1> HIDE DEF T
<1>3. T = Nat
    BY <1>1, <1>2, NaturalsAreReached DEF T
<1> QED BY <1>3 DEF T

LEMMA GrantedSteps ==
    ASSUME NEW d, IsDocument(d), NEW S
    PROVE  \E f : Accrues(d, S, Len(d.rules), f) /\ Granted(d, S) = f[Len(d.rules)]
<1>1. Len(d.rules) \in Nat
    BY DEF IsDocument
<1>2. Granted(d, S) = (CHOOSE f : Accrues(d, S, Len(d.rules), f))[Len(d.rules)]
    BY DEF Granted, Accrues, Adds
<1>3. Accrues(d, S, Len(d.rules), CHOOSE f : Accrues(d, S, Len(d.rules), f))
    BY <1>1, GrantsAccrue, Zenon
<1> QED BY <1>2, <1>3

Far == {SystemTenant, Member} \cup CrossTenant

\* Nothing among the subjects belongs to the system tenant alone, or leads beyond a tenant.
Plain(labels) == \A label \in labels \cap Labels : ~OfTheSystem(document, label)
Tame(subjects) == Plain(subjects) /\ subjects \cap Far = {}

LEMMA ElementsOfSequence ==
    ASSUME NEW S, NEW s \in Seq(S), NEW n \in 1..Len(s)
    PROVE  s[n] \in S
OBVIOUS

\* Guarded rules grant nothing far to the tame: to the first that did, something far was granted.
LEMMA TameIsGrantedTame ==
    ASSUME NamesApart, IsDocument(document), Guarded(document), NEW S, Tame(S)
    PROVE  Granted(document, S) \cap CrossTenant = {}
<1> DEFINE last == Len(document.rules)
<1>1. /\ last \in Nat
      /\ \A n \in 1..last : n \in DOMAIN document.rules /\ document.rules[n].grant \in SUBSET Permissions
  <2>1. document.rules \in Seq([when: Condition, grant: SUBSET Permissions])
    BY DEF IsDocument
  <2>2. \A n \in 1..last : document.rules[n] \in [when: Condition, grant: SUBSET Permissions]
    BY <2>1, ElementsOfSequence
  <2> QED BY <2>1, <2>2
<1>2. PICK f : Accrues(document, S, last, f) /\ Granted(document, S) = f[last]
    BY GrantedSteps
<1> HIDE DEF last
<1> DEFINE Near(n) == f[n] \in SUBSET Permissions /\ f[n] \cap CrossTenant = {}
           T == {n \in Nat : n <= last => Near(n)}
<1>3. \A n \in 0..last : f[n] = Adds(document, S, f, n)
    BY <1>2 DEF Accrues
<1>4. 0 \in T
  <2>1. f[0] = {}
    <3>1. f[0] = Adds(document, S, f, 0)
        BY <1>1, <1>3
    <3> QED BY <3>1 DEF Adds
  <2> QED BY <2>1
<1>5. ASSUME NEW n \in T PROVE n + 1 \in T
  <2> SUFFICES ASSUME n + 1 <= last PROVE Near(n + 1)
    OBVIOUS
  <2>1. n + 1 \in 1..last /\ n + 1 # 0 /\ (n + 1) - 1 = n /\ Near(n)
    BY <1>1
  <2>2. PICK rule : rule = document.rules[n + 1]
    OBVIOUS
  <2>3. f[n + 1] = f[n] \cup IF Holds(rule.when, S \cup f[n]) THEN rule.grant ELSE {}
    <3>1. f[n + 1] = Adds(document, S, f, n + 1)
        BY <1>1, <1>3, <2>1
    <3> QED BY <2>1, <2>2, <3>1 DEF Adds
  <2>4. CASE Holds(rule.when, S \cup f[n]) /\ rule.grant \cap CrossTenant # {}
    <3>1. /\ rule.when # Always
          /\ \A a \in rule.when :
                 \/ a.has \cap Far # {}
                 \/ \E label \in a.has \cap Labels : OfTheSystem(document, label)
        BY <1>1, <2>1, <2>2, <2>4 DEF Guarded, Far
    <3>2. PICK a \in rule.when : a.has \subseteq S \cup f[n]
        BY <2>4, <3>1 DEF Holds
    <3>3. f[n] \cap Far = {} /\ f[n] \cap Labels = {}
        BY <2>1 DEF NamesApart, Far, Synthetic
    <3>4. (S \cup f[n]) \cap Far = {}
        BY <3>3 DEF Tame
    <3>5. \A label \in (S \cup f[n]) \cap Labels : ~OfTheSystem(document, label)
        BY <3>3 DEF Tame, Plain
    <3> QED BY <3>1, <3>2, <3>4, <3>5
  <2>5. CASE ~(Holds(rule.when, S \cup f[n]) /\ rule.grant \cap CrossTenant # {})
    BY <1>1, <2>1, <2>2, <2>3, <2>5
  <2> QED BY <2>4, <2>5
<1> HIDE DEF T
<1>6. T = Nat
    BY <1>4, <1>5, NaturalsAreReached DEF T
<1>7. last \in T
    BY <1>1, <1>6
<1> QED BY <1>1, <1>2, <1>7 DEF T

LEMMA TameResolvesTame ==
    ASSUME NamesApart, IsDocument(document), Guarded(document), NEW S, Tame(S)
    PROVE  Resolve(document, S) \cap CrossTenant = {}
BY TameIsGrantedTame DEF Resolve

\* Who has no marker of the system tenant is assigned nothing of the system.
LEMMA AssignedIsPlain ==
    ASSUME NEW code, NEW S, Assignable(document, code, S), SystemTenant \notin S
    PROVE  ~OfTheSystem(document, code)
BY DEF Assignable, Holds, OfTheSystem

-----------------------------------------------------------------------------
(* The matrix of routes *)

\* The routes that ask for a token and nothing in it.
OpenRoutes == {"my_rate_limit", "me", "custom_fields", "catalogue", "my_audit", "home"}

NeedsAsked(needs) ==
    \A r \in DOMAIN needs :
        /\ needs[r] = {} => r \in OpenRoutes
        /\ r = "switch_tenant" => needs[r] = {"switch:tenant"}

OpenIsSelf(rows) ==
    \A r \in DOMAIN rows :
        /\ rows[r] \in {Self, Acting, Reading, Anywhere, Deployment}
        /\ r \in OpenRoutes => rows[r] = Self

LEMMA JoinedIsOfOnePart ==
    ASSUME NEW parts, NEW r \in DOMAIN Joined(parts)
    PROVE  \E p \in parts : r \in DOMAIN p /\ Joined(parts)[r] = p[r]
<1>1. \E p \in parts : r \in DOMAIN p
    BY DEF Joined
<1>2. PICK p : p = CHOOSE q \in parts : r \in DOMAIN q
    OBVIOUS
<1>3. p \in parts /\ r \in DOMAIN p
    BY <1>1, <1>2, Zenon
<1>4. Joined(parts)[r] = p[r]
    BY <1>2 DEF Joined
<1> QED BY <1>3, <1>4

LEMMA NeedsJoin ==
    ASSUME NEW parts, \A p \in parts : NeedsAsked(p) PROVE NeedsAsked(Joined(parts))
BY JoinedIsOfOnePart DEF NeedsAsked

LEMMA RowsJoin ==
    ASSUME NEW parts, \A p \in parts : OpenIsSelf(p) PROVE OpenIsSelf(Joined(parts))
BY JoinedIsOfOnePart DEF OpenIsSelf

LEMMA NeedsOfEach ==
    ASSUME NEW routes, NEW needs,
           needs # {} \/ routes \subseteq OpenRoutes,
           "switch_tenant" \notin routes \/ needs = {"switch:tenant"}
    PROVE  NeedsAsked(Each(routes, needs))
BY DEF NeedsAsked, Each

LEMMA RowsOfEach ==
    ASSUME NEW routes, NEW rows,
           rows \in {Self, Acting, Reading, Anywhere, Deployment},
           rows = Self \/ routes \cap OpenRoutes = {}
    PROVE  OpenIsSelf(Each(routes, rows))
BY DEF OpenIsSelf, Each

LEMMA EveryNeedIsAsked == NeedsAsked(Needs)
<1>1. /\ NeedsAsked(LimitSettingsNeeds) /\ NeedsAsked(LimitBookingNeeds)
      /\ NeedsAsked(LimitLedgerNeeds) /\ NeedsAsked(LimitBillingNeeds)
    BY NeedsOfEach, NeedsJoin
       DEF LimitSettingsNeeds, LimitBookingNeeds, LimitLedgerNeeds, LimitBillingNeeds, OpenRoutes
<1>2. NeedsAsked(UserNeeds) /\ NeedsAsked(UserDetailNeeds) /\ NeedsAsked(TenantNeeds)
    BY NeedsOfEach, NeedsJoin DEF UserNeeds, UserDetailNeeds, TenantNeeds, OpenRoutes
<1>3. NeedsAsked(AssignmentNeeds)
    BY NeedsOfEach, NeedsJoin DEF AssignmentNeeds, OpenRoutes
<1>4. NeedsAsked(KeyNeeds)
    BY NeedsOfEach, NeedsJoin DEF KeyNeeds, OpenRoutes
<1>5. NeedsAsked(RateLimitNeeds)
    BY NeedsOfEach, NeedsJoin DEF RateLimitNeeds, OpenRoutes
<1>6. NeedsAsked(MeNeeds) /\ NeedsAsked(ProfileNeeds) /\ NeedsAsked(SessionNeeds) /\ NeedsAsked(FactorNeeds)
    BY NeedsOfEach, NeedsJoin DEF MeNeeds, ProfileNeeds, SessionNeeds, FactorNeeds, OpenRoutes
<1>7. NeedsAsked(ContactNeeds)
    BY NeedsOfEach, NeedsJoin DEF ContactNeeds, OpenRoutes
<1>8. NeedsAsked(MessagingNeeds)
    BY NeedsOfEach, NeedsJoin DEF MessagingNeeds, OpenRoutes
<1>9. NeedsAsked(NotifyNeeds)
    BY NeedsOfEach, NeedsJoin DEF NotifyNeeds, OpenRoutes
<1>10. NeedsAsked(RecipientNeeds) /\ NeedsAsked(ConfigNeeds)
    BY NeedsOfEach, NeedsJoin DEF RecipientNeeds, ConfigNeeds, OpenRoutes
<1>11. NeedsAsked(AuditNeeds) /\ NeedsAsked(HomeNeeds) /\ NeedsAsked(SwitchNeeds)
    BY NeedsOfEach, NeedsJoin DEF AuditNeeds, HomeNeeds, SwitchNeeds, OpenRoutes
<1> QED BY <1>1, <1>2, <1>3, <1>4, <1>5, <1>6, <1>7, <1>8, <1>9, <1>10, <1>11, NeedsJoin, Zenon
       DEF Needs

LEMMA EveryOpenRouteIsSelf == OpenIsSelf(Rows)
<1>1. OpenIsSelf(LimitReads) /\ OpenIsSelf(LimitBookings)
    BY RowsOfEach DEF LimitReads, LimitBookings, OpenRoutes
<1>2. OpenIsSelf(UserRows) /\ OpenIsSelf(TenantRows)
    BY RowsOfEach DEF UserRows, TenantRows, OpenRoutes
<1>3. OpenIsSelf(AssignmentRows)
    BY RowsOfEach, RowsJoin DEF AssignmentRows, OpenRoutes
<1>4. OpenIsSelf(ServiceKeyRows) /\ OpenIsSelf(UserPatRows) /\ OpenIsSelf(MyPatRows)
    BY RowsOfEach DEF ServiceKeyRows, UserPatRows, MyPatRows, OpenRoutes
<1>5. OpenIsSelf(RateLimitRows)
    BY RowsOfEach, RowsJoin DEF RateLimitRows, OpenRoutes
<1>6. OpenIsSelf(MyRows) /\ OpenIsSelf(FactorRows)
    BY RowsOfEach DEF MyRows, FactorRows, OpenRoutes
<1>7. OpenIsSelf(ContactRows)
    BY RowsOfEach, RowsJoin DEF ContactRows, OpenRoutes
<1>8. OpenIsSelf(MessagingRows)
    BY RowsOfEach, RowsJoin DEF MessagingRows, OpenRoutes
<1>9. OpenIsSelf(NotifyRows)
    BY RowsOfEach, RowsJoin DEF NotifyRows, OpenRoutes
<1>10. OpenIsSelf(RecipientRows) /\ OpenIsSelf(ConfigRows)
    BY RowsOfEach, RowsJoin DEF RecipientRows, ConfigRows, OpenRoutes
<1>11. OpenIsSelf(AuditRows) /\ OpenIsSelf(HomeRows) /\ OpenIsSelf(SwitchRows)
    BY RowsOfEach, RowsJoin DEF AuditRows, HomeRows, SwitchRows, OpenRoutes
<1> QED BY <1>1, <1>2, <1>3, <1>4, <1>5, <1>6, <1>7, <1>8, <1>9, <1>10, <1>11, RowsJoin, Zenon
       DEF Rows

\* Who holds no permission that leads beyond a tenant gets nowhere but to its own.
LEMMA TameStaysAtHome ==
    ASSUME NEW token, token.granted \cap CrossTenant = {}, NEW route \in AllRoutes
    PROVE  Opens(token, route) \subseteq {token.tenant} \/ ~Presents(token, route)
<1>1. /\ route \in DOMAIN Rows
      /\ Rows[route] \in {Self, Acting, Reading, Anywhere, Deployment}
      /\ Rows[route] \in {Anywhere, Deployment} => Needs[route] # {}
  <2>1. route \in DOMAIN Rows /\ route \in DOMAIN Needs
    BY RoutesAssumption DEF AllRoutes
  <2>2. Anywhere # Self /\ Deployment # Self
    BY DEF Anywhere, Self, Deployment
  <2> QED BY <2>1, <2>2, EveryNeedIsAsked, EveryOpenRouteIsSelf DEF NeedsAsked, OpenIsSelf
<1>2. CASE Rows[route] \in {Self, Acting}
  <2>1. CASE Rows[route] = Self
    <3>1. Opens(token, route) = {}
        BY <2>1 DEF Opens, Self, Acting, Reading
    <3> QED BY <3>1
  <2>2. CASE Rows[route] = Acting
    <3>1. Opens(token, route) = {token.tenant}
        BY <2>2 DEF Opens, Self, Acting, Reading
    <3> QED BY <3>1
  <2> QED BY <1>2, <2>1, <2>2
<1>3. CASE Rows[route] = Reading
  <2>1. "manage:limits" \notin token.granted
    BY DEF CrossTenant
  <2> QED BY <1>3, <2>1 DEF Opens, Self, Acting, Reading
<1>4. CASE Rows[route] \in {Anywhere, Deployment}
  <2>1. Needs[route] \subseteq CrossTenant
    BY <1>4 DEF CrossTenant
  <2> QED BY <1>1, <1>4, <2>1 DEF Presents
<1> QED BY <1>1, <1>2, <1>3, <1>4

LEMMA SwitchingIsFar ==
    ASSUME NEW token, token.granted \cap CrossTenant = {}, "switch_tenant" \in AllRoutes
    PROVE  ~Presents(token, "switch_tenant")
<1>1. Needs["switch_tenant"] = {"switch:tenant"}
    BY EveryNeedIsAsked DEF NeedsAsked, AllRoutes
<1>2. "switch:tenant" \in CrossTenant
    BY RoutesAssumption DEF BeyondOneTenant
<1> QED BY <1>1, <1>2 DEF Presents

-----------------------------------------------------------------------------
(* Nobody outside the system tenant comes by anything far *)

PersonHeld(u) ==
    HomeOf[u] # System => Plain(people[u].roles) /\ sessions[u].tenant = HomeOf[u]

\* A service key stays where it was made.  A personal token is held by its owner's roles.
KeyHeld(key) ==
    key.owner = NoUser =>
        /\ key.madeIn = key.tenant /\ key.labels \subseteq Labels
        /\ key.tenant # System => Plain(key.labels)

\* What is traded for somebody of another tenant is for that tenant, and can grant nothing far.
TradeHeld ==
    /\ trade.phase = "key" => KeyHeld(trade.key)
    /\ trade.phase \in {"account", "tenant"} =>
           /\ trade.user # NoUser => trade.origin = HomeOf[trade.user]
           /\ trade.origin # System =>
                  /\ trade.phase = "account" /\ trade.tenant = trade.origin /\ trade.home = trade.origin
                  /\ Tame(trade.subjects)

TokenHeld(token) ==
    /\ token.user # NoUser => token.origin = HomeOf[token.user]
    /\ token.origin # System => token.tenant = token.origin /\ token.granted \cap CrossTenant = {}

PeopleHeld == \A u \in Users : PersonHeld(u)
KeysHeld == \A k \in Keys : InUse(k) => KeyHeld(keyRing[k])
TokensHeld == \A token \in tokens : TokenHeld(token)

Held == PeopleHeld /\ KeysHeld /\ TradeHeld /\ TokensHeld

ConfinedInv ==
    /\ Inv
    /\ document \in Documents /\ scene \in Scenes
    /\ Guarded(document) => Held

LEMMA HeldIsConfined ==
    ASSUME AccessAssumption, ConfinedInv PROVE Confined
<1> SUFFICES ASSUME Guarded(document), NEW token \in tokens, token.origin # System,
                    NEW route \in AllRoutes
             PROVE  Opens(token, route) \subseteq {token.origin} \/ ~Presents(token, route)
    BY DEF Confined
<1>1. token.tenant = token.origin /\ token.granted \cap CrossTenant = {}
    BY DEF ConfinedInv, Held, TokensHeld, TokenHeld
<1> QED BY <1>1, TameStaysAtHome

\* The system tenant's markers are no features, labels or proofs of a possession.
LEMMA FarIsApart ==
    ASSUME AccessAssumption
    PROVE  /\ Labels \cap Far = {} /\ Features \cap Far = {} /\ Features \cap Labels = {}
           /\ {TwoFactor, Pat, HmacPat} \cap (Far \cup Labels) = {}
<1>1. /\ Features \cap Labels = {} /\ (Features \cup Labels) \cap Synthetic = {}
      /\ (Features \cup Labels \cup Synthetic) \cap CrossTenant = {}
    BY DEF AccessAssumption, NamesApart
<1>2. {TwoFactor, Pat, HmacPat} \cap {SystemTenant, Member} = {}
    BY DEF TwoFactor, Pat, HmacPat, SystemTenant, Member
<1> QED BY <1>1, <1>2 DEF Far, Synthetic

\* What labels without anything of the system, and proofs, make of a subject set.
LEMMA LabelsAreTame ==
    ASSUME AccessAssumption, NEW labels \in SUBSET Labels, Plain(labels),
           NEW proof \in SUBSET {TwoFactor, Pat, HmacPat}
    PROVE  Tame(labels \cup proof)
BY FarIsApart DEF Tame, Plain

LEMMA PersonIsTame ==
    ASSUME AccessAssumption, Inv, PeopleHeld, NEW u \in Users, HomeOf[u] # System,
           NEW roles \in SUBSET people[u].roles, NEW proof \in SUBSET {TwoFactor, Pat, HmacPat}
    PROVE  Tame(roles \cup proof)
<1>1. people[u].roles \subseteq Labels
    BY DEF Inv, RowsTyped, Person, AccessAssumption
<1>2. Plain(roles)
    BY DEF PeopleHeld, PersonHeld, Plain
<1> QED BY <1>1, <1>2, LabelsAreTame

LEMMA StartIsHeld ==
    ASSUME AccessAssumption, Inv, PeopleHeld, NEW u \in Users, NEW t \in Tenants,
           NEW strong \in BOOLEAN, NEW opens \in BOOLEAN, Starts(u, t, strong, opens),
           HomeOf[u] # System => t = HomeOf[u], UNCHANGED document
    PROVE  TradeHeld'
<1>1. /\ trade'.phase = "account" /\ trade'.user = u /\ trade'.origin = HomeOf[u]
      /\ trade'.tenant = t /\ trade'.home = HomeOf[u]
      /\ trade'.subjects = people[u].roles \cup Proven(strong)
    BY DEF Starts, NoTrade
<1>2. HomeOf[u] # System => Tame(people[u].roles \cup Proven(strong))
    BY PersonIsTame DEF Proven
<1> QED BY <1>1, <1>2 DEF TradeHeld, Tame, Plain

\* What a step leaves alone stays held.
LEMMA RestIsHeld ==
    ASSUME UNCHANGED document
    PROVE  /\ PeopleHeld /\ UNCHANGED <<people, sessions>> => PeopleHeld'
           /\ KeysHeld /\ UNCHANGED keyRing => KeysHeld'
           /\ TradeHeld /\ UNCHANGED trade => TradeHeld'
           /\ TokensHeld /\ tokens' \subseteq tokens => TokensHeld'
           /\ trade' = NoTrade => TradeHeld'
<1>2. PeopleHeld /\ UNCHANGED <<people, sessions>> => PeopleHeld'
    BY DEF PeopleHeld, PersonHeld, Plain
<1>3. KeysHeld /\ UNCHANGED keyRing => KeysHeld'
    BY DEF KeysHeld, KeyHeld, Plain, InUse
<1>4. TradeHeld /\ UNCHANGED trade => TradeHeld'
    BY DEF TradeHeld, KeyHeld, Tame, Plain
<1>5. TokensHeld /\ tokens' \subseteq tokens => TokensHeld'
    BY DEF TokensHeld, TokenHeld
<1>6. trade' = NoTrade => TradeHeld'
    BY DEF TradeHeld, NoTrade
<1> QED BY <1>2, <1>3, <1>4, <1>5, <1>6

LEMMA PersonalHeld ==
    ASSUME AccessAssumption, Inv, Held, NEW u \in Users,
           (\E strong \in BOOLEAN : SignIn(u, strong)) \/ Logout(u) \/ Refresh(u)
    PROVE  Held'
<1>0. sessions \in [Users -> Session] /\ UNCHANGED <<document, people, keyRing, tokens>>
    BY DEF Inv, RowsTyped, SignIn, Logout, Refresh
<1>1. KeysHeld' /\ TokensHeld'
    BY <1>0, RestIsHeld DEF Held
<1>2. PeopleHeld'
  <2>1. UNCHANGED sessions \/ sessions' = [sessions EXCEPT ![u].live = FALSE]
    BY DEF SignIn, Logout, Refresh
  <2>2. \A x \in Users : sessions'[x].tenant = sessions[x].tenant
    BY <1>0, <2>1 DEF Session
  <2> QED BY <1>0, <2>2 DEF Held, PeopleHeld, PersonHeld, Plain
<1>3. TradeHeld'
  <2>1. CASE UNCHANGED trade
    BY <1>0, <2>1, RestIsHeld DEF Held
  <2>2. ASSUME NEW strong \in BOOLEAN, SignIn(u, strong) PROVE TradeHeld'
    <3>1. PICK t, opens : t = HomeOf[u] /\ opens = TRUE
        OBVIOUS
    <3>2. t \in Tenants /\ opens \in BOOLEAN /\ t = HomeOf[u]
        BY <3>1 DEF AccessAssumption
    <3>3. Starts(u, t, strong, opens)
        BY <2>2, <3>1 DEF SignIn, Starts
    <3> QED BY <1>0, <3>2, <3>3, StartIsHeld DEF Held
  <2>3. CASE Refresh(u)
    <3>1. PICK strong, t, opens :
              /\ strong = sessions[u].strong /\ opens = FALSE
              /\ t = IF sessions[u].tenant # HomeOf[u] /\ ~MayStay(u, strong)
                    THEN HomeOf[u] ELSE sessions[u].tenant
        OBVIOUS
    <3>2. t \in Tenants /\ {strong, opens} \subseteq BOOLEAN /\ (HomeOf[u] # System => t = HomeOf[u])
        BY <1>0, <3>1 DEF Session, AccessAssumption, Held, PeopleHeld, PersonHeld
    <3>3. UNCHANGED trade \/ Starts(u, t, strong, opens)
        BY <2>3, <3>1 DEF Refresh, Starts
    <3>4. CASE Starts(u, t, strong, opens)
        BY <1>0, <3>2, <3>4, StartIsHeld DEF Held
    <3> QED BY <2>1, <3>3, <3>4
  <2> QED BY <2>1, <2>2, <2>3 DEF Logout
<1> QED BY <1>1, <1>2, <1>3 DEF Held

LEMMA ReadKeyHeld ==
    ASSUME AccessAssumption, Inv, Held, NEW k \in Keys, NEW t \in Tenants, ReadKey(k, t)
    PROVE  Held'
<1>1. PeopleHeld' /\ KeysHeld' /\ TokensHeld'
    BY RestIsHeld DEF Held, ReadKey
<1>2. trade'.phase = "key" /\ trade'.key = keyRing[k] /\ UNCHANGED document
    BY DEF ReadKey, NoTrade
<1>3. KeyHeld(keyRing[k])
    BY DEF ReadKey, Held, KeysHeld
<1>4. TradeHeld'
    BY <1>2, <1>3 DEF TradeHeld, KeyHeld, Plain
<1> QED BY <1>1, <1>4 DEF Held

LEMMA OwnerHeld ==
    ASSUME AccessAssumption, Inv, Held, NEW proof \in {{Pat}, {Pat, HmacPat}}, LoadOwner(proof)
    PROVE  Held'
<1>0. UNCHANGED <<document, people, sessions, keyRing, tokens>>
    BY DEF LoadOwner
<1>1. PeopleHeld' /\ KeysHeld' /\ TokensHeld'
    BY <1>0, RestIsHeld DEF Held
<1>2. PICK u : u = trade.key.owner
    OBVIOUS
<1>3. PICK roles : roles = Restricted(people[u].roles, trade.key.labels)
    OBVIOUS
<1>4. u \in Users /\ roles \in SUBSET people[u].roles /\ proof \in SUBSET {TwoFactor, Pat, HmacPat}
    BY <1>2, <1>3 DEF LoadOwner, Inv, TradeFollows, UsedKey, Restricted
<1>5. CASE trade' = NoTrade
    BY <1>0, <1>1, <1>5, RestIsHeld DEF Held
<1>6. CASE trade' # NoTrade
  <2>1. HomeOf[u] # System => trade.tenant = HomeOf[u]
    BY <1>2, <1>6 DEF LoadOwner, OwnerSubjects, Ends
  <2>2. trade' = [trade EXCEPT !.phase = "account", !.user = u, !.origin = HomeOf[u],
                               !.home = HomeOf[u], !.key = Unused,
                               !.subjects = roles \cup proof, !.proof = proof]
    BY <1>2, <1>3, <1>6 DEF LoadOwner, OwnerSubjects, Ends
  <2>3. /\ trade'.phase = "account" /\ trade'.user = u /\ trade'.origin = HomeOf[u]
        /\ trade'.tenant = trade.tenant /\ trade'.home = HomeOf[u]
        /\ trade'.subjects = roles \cup proof
    BY <2>2
  <2>4. HomeOf[u] # System => Tame(roles \cup proof)
    BY <1>4, PersonIsTame DEF Held
  <2>5. TradeHeld'
    BY <1>0, <2>1, <2>3, <2>4 DEF TradeHeld, Tame, Plain
  <2> QED BY <1>1, <2>5 DEF Held
<1> QED BY <1>5, <1>6

LEMMA KeySubjectsHeld ==
    ASSUME AccessAssumption, Inv, Held, KeySubjects PROVE Held'
<1>0. UNCHANGED <<document, people, sessions, keyRing, tokens>>
    BY DEF KeySubjects
<1>1. PeopleHeld' /\ KeysHeld' /\ TokensHeld'
    BY <1>0, RestIsHeld DEF Held
<1>2. PICK key : key = trade.key
    OBVIOUS
<1>3. KeyHeld(key) /\ key.owner = NoUser /\ trade.user = NoUser
    BY <1>2 DEF KeySubjects, Held, TradeHeld, Inv, TradeFollows
<1>4. CASE trade' = NoTrade
    BY <1>0, <1>1, <1>4, RestIsHeld DEF Held
<1>5. CASE trade' # NoTrade
  <2>1. /\ trade.tenant = key.tenant \/ key.tenant = System
        /\ trade' = [trade EXCEPT !.phase = "account", !.origin = key.madeIn, !.home = key.tenant,
                                  !.key = Unused, !.subjects = key.labels]
    BY <1>2, <1>5 DEF KeySubjects, Ends, ExchangesAnywhere
  <2>2. /\ trade'.phase = "account" /\ trade'.user = NoUser /\ trade'.origin = key.madeIn
        /\ trade'.tenant = trade.tenant /\ trade'.home = key.tenant /\ trade'.subjects = key.labels
    BY <1>3, <2>1
  <2>3. key.tenant # System => Tame(key.labels)
    <3> SUFFICES ASSUME key.tenant # System PROVE Tame(key.labels)
        OBVIOUS
    <3>1. PICK labels : labels = key.labels
        OBVIOUS
    <3>2. labels \in SUBSET Labels /\ Plain(labels)
        BY <1>3, <3>1 DEF KeyHeld
    <3>3. Tame(labels \cup {})
        BY <3>2, LabelsAreTame
    <3>4. labels \cup {} = labels
        OBVIOUS
    <3> QED BY <3>1, <3>3, <3>4
  <2>4. TradeHeld'
    BY <1>0, <1>3, <2>1, <2>2, <2>3 DEF TradeHeld, KeyHeld, Tame, Plain
  <2> QED BY <1>1, <2>4 DEF Held
<1> QED BY <1>4, <1>5

LEMMA MintHeld ==
    ASSUME AccessAssumption, NamesApart, document \in Documents, Guarded(document), Inv, Held, Mint
    PROVE  Held'
<1>0. UNCHANGED <<document, people, keyRing>> /\ trade' = NoTrade
    BY DEF Mint, Ends
<1>1. KeysHeld' /\ TradeHeld'
    BY <1>0, RestIsHeld DEF Held
<1>2. /\ trade.phase \in {"account", "tenant"} /\ trade.tenant \in Tenants
      /\ trade.user \in Users \cup {NoUser} /\ trade.opens => trade.user \in Users
      /\ licences \in [Tenants -> SUBSET Features] /\ sessions \in [Users -> Session]
  <2>1. trade.phase \in {"account", "tenant"}
    BY DEF Mint
  <2> QED BY <2>1 DEF Inv, RowsTyped, TradeTyped, Bearer, AccessAssumption
<1>3. /\ trade.user # NoUser => trade.origin = HomeOf[trade.user]
      /\ trade.origin # System =>
             /\ trade.phase = "account" /\ trade.tenant = trade.origin /\ trade.home = trade.origin
             /\ Tame(trade.subjects)
    BY <1>2 DEF Held, TradeHeld
<1>4. PICK granted :
          granted = Resolve(document, trade.subjects
                                \cup (IF trade.phase = "tenant" THEN {} ELSE licences[trade.tenant])
                                \cup Markers(trade.tenant, trade.home))
    OBVIOUS
<1>5. PICK token :
          token = [via |-> trade.via, user |-> trade.user, origin |-> trade.origin,
                   tenant |-> trade.tenant, granted |-> granted, proof |-> trade.proof,
                   switched |-> trade.phase = "tenant", ttl |-> trade.ttl, exp |-> clock + trade.ttl]
    OBVIOUS
<1>6. /\ tokens' \subseteq {token} \cup tokens
      /\ \/ UNCHANGED sessions
         \/ /\ trade.opens
            /\ sessions' = [sessions EXCEPT ![trade.user] =
                   [live |-> TRUE, tenant |-> trade.tenant, strong |-> TwoFactor \in trade.proof]]
    BY <1>4, <1>5 DEF Mint
<1>7. trade.origin # System => granted \cap CrossTenant = {}
  <2> SUFFICES ASSUME trade.origin # System PROVE granted \cap CrossTenant = {}
    OBVIOUS
  <2>1. PICK subjects : subjects = trade.subjects \cup licences[trade.tenant]
    OBVIOUS
  <2>2. granted = Resolve(document, subjects)
    <3>1. Markers(trade.tenant, trade.home) = {}
        BY <1>3 DEF Markers
    <3> QED BY <1>3, <1>4, <2>1, <3>1
  <2>3. Tame(subjects)
    BY <1>2, <1>3, <2>1, FarIsApart DEF Tame, Plain
  <2> QED BY <2>2, <2>3, TameResolvesTame DEF AccessAssumption
<1>8. TokensHeld'
  <2>1. TokenHeld(token)
    BY <1>3, <1>5, <1>7 DEF TokenHeld
  <2> QED BY <1>6, <2>1 DEF Held, TokensHeld, TokenHeld
<1>9. PeopleHeld'
  <2> SUFFICES ASSUME NEW u \in Users, HomeOf[u] # System
               PROVE  Plain(people[u].roles)' /\ sessions'[u].tenant = HomeOf[u]
    BY DEF PeopleHeld, PersonHeld
  <2>1. Plain(people[u].roles) /\ sessions[u].tenant = HomeOf[u]
    BY DEF Held, PeopleHeld, PersonHeld
  <2>2. sessions'[u].tenant = HomeOf[u]
    BY <1>2, <1>3, <1>6, <2>1 DEF AccessAssumption
  <2> QED BY <1>0, <2>1, <2>2 DEF Plain
<1> QED BY <1>1, <1>8, <1>9 DEF Held

LEMMA SwitchHeld ==
    ASSUME AccessAssumption, scene \in Scenes, Inv, Held,
           NEW token \in tokens, NEW t \in Tenants, SwitchTo(token, t)
    PROVE  Held'
<1>0. UNCHANGED <<document, people, keyRing, tokens>>
    BY DEF SwitchTo
<1>1. KeysHeld' /\ TokensHeld'
    BY <1>0, RestIsHeld DEF Held
<1>2. PICK u : u = token.user
    OBVIOUS
<1>3. u \in Users
    BY <1>2 DEF SwitchTo, Inv, TokensLapse, TokenTyped, Bearer
<1>4. HomeOf[u] = System
  <2>1. "switch_tenant" \in AllRoutes /\ Presents(token, "switch_tenant")
    BY DEF SwitchTo, Acts, AccessAssumption
  <2>2. token.granted \cap CrossTenant # {}
    BY <2>1, SwitchingIsFar
  <2> QED BY <1>2, <1>3, <2>2 DEF Held, TokensHeld, TokenHeld, SwitchTo
<1>5. sessions' = [sessions EXCEPT ![u].tenant = t] /\ sessions \in [Users -> Session]
    BY <1>2 DEF SwitchTo, Inv, RowsTyped
<1>6. trade'.phase = "tenant" /\ trade'.user = u /\ trade'.origin = System
    BY <1>2, <1>4 DEF SwitchTo, NoTrade
<1>7. TradeHeld'
    BY <1>4, <1>6 DEF TradeHeld
<1>8. PeopleHeld'
  <2>1. \A x \in Users : HomeOf[x] # System => sessions'[x] = sessions[x]
    BY <1>4, <1>5
  <2> QED BY <1>0, <2>1 DEF Held, PeopleHeld, PersonHeld, Plain
<1> QED BY <1>1, <1>7, <1>8 DEF Held

LEMMA NoMarkerAbroad ==
    ASSUME AccessAssumption, RowsTyped, NEW t \in Tenants, t # System
    PROVE  SystemTenant \notin FeatureSet(t)
BY FarIsApart DEF FeatureSet, RowsTyped, Far

LEMMA RolesHeld ==
    ASSUME AccessAssumption, Inv, Held, NEW token \in tokens, NEW u \in Users,
           NEW roles \in SUBSET Roles, SetRoles(token, u, roles)
    PROVE  PeopleHeld'
<1>0. people \in [Users -> Person] /\ UNCHANGED <<document, sessions>> /\ HomeOf[u] \in Tenants
    BY DEF Inv, RowsTyped, SetRoles, AccessAssumption
<1>1. HomeOf[u] # System => Plain(roles)
  <2> SUFFICES ASSUME HomeOf[u] # System, NEW role \in roles
               PROVE  ~OfTheSystem(document, role)
    BY DEF Plain
  <2>1. CASE role \in people[u].roles
    BY <1>0, <2>1 DEF Held, PeopleHeld, PersonHeld, Plain, AccessAssumption
  <2>2. CASE role \notin people[u].roles
    <3>1. PICK S : S = FeatureSet(HomeOf[u])
        OBVIOUS
    <3>2. Assignable(document, role, S) /\ SystemTenant \notin S
        BY <1>0, <2>2, <3>1, NoMarkerAbroad DEF SetRoles, Inv
    <3> QED BY <3>2, AssignedIsPlain
  <2> QED BY <2>1, <2>2
<1>2. \A x \in Users : people'[x].roles = IF x = u THEN roles ELSE people[x].roles
    BY <1>0 DEF SetRoles, Person
<1> QED BY <1>0, <1>1, <1>2 DEF Held, PeopleHeld, PersonHeld, Plain

LEMMA IssuedHeld ==
    ASSUME AccessAssumption, Inv, KeysHeld, UNCHANGED document, NEW k \in Keys, NEW row,
           row \notin {Unused, Gone} => KeyHeld(row), Issued(k, row)
    PROVE  KeysHeld'
<1>1. \A j \in Keys : keyRing'[j] = IF j = k THEN row ELSE keyRing[j]
    BY DEF Inv, RowsTyped, Issued
<1>2. \A key : KeyHeld(key) => KeyHeld(key)'
    BY DEF KeyHeld, Plain
<1> SUFFICES ASSUME NEW j \in Keys, InUse(j)' PROVE KeyHeld(keyRing[j])'
    BY DEF KeysHeld
<1>3. PICK key : key = IF j = k THEN row ELSE keyRing[j]
    OBVIOUS
<1>4. keyRing'[j] = key /\ key \notin {Unused, Gone}
    BY <1>1, <1>3 DEF InUse
<1>5. KeyHeld(key)
    BY <1>3, <1>4 DEF KeysHeld, InUse
<1> QED BY <1>4, <1>5 DEF KeyHeld, Plain

LEMMA ServiceKeyHeld ==
    ASSUME AccessAssumption, Inv, Held, NEW token \in tokens, NEW k \in Keys, NEW t \in Tenants,
           NEW scopes \in SUBSET Scopes, NEW ttl \in KeyTtls, CreateApiKey(token, k, t, scopes, ttl)
    PROVE  KeysHeld'
<1>1. PICK row : row = [owner |-> NoUser, tenant |-> t, labels |-> scopes, ttl |-> ttl,
                        madeIn |-> IF token.origin = System THEN t ELSE token.origin]
    OBVIOUS
<1>2. row.madeIn = t
    BY <1>1 DEF CreateApiKey, Held, TokensHeld, TokenHeld
<1>3. t # System => Plain(scopes)
  <2> SUFFICES ASSUME t # System, NEW scope \in scopes
               PROVE  ~OfTheSystem(document, scope)
    BY DEF Plain
  <2>1. PICK S : S = FeatureSet(t)
    OBVIOUS
  <2>2. Assignable(document, scope, S) /\ SystemTenant \notin S
    BY <2>1, NoMarkerAbroad DEF CreateApiKey, ScopesAllowed, Inv
  <2> QED BY <2>2, AssignedIsPlain
<1>4. KeyHeld(row)
    BY <1>1, <1>2, <1>3 DEF KeyHeld, AccessAssumption
<1>5. Issued(k, row) /\ UNCHANGED document
    BY <1>1 DEF CreateApiKey
<1> QED BY <1>4, <1>5, IssuedHeld DEF Held

LEMMA PersonalTokenHeld ==
    ASSUME AccessAssumption, Inv, Held, NEW token \in tokens, NEW k \in Keys,
           NEW roles \in SUBSET Roles, CreateMyPat(token, k, roles)
    PROVE  KeysHeld'
<1>1. PICK row : row = [owner |-> token.user, tenant |-> token.tenant, labels |-> roles,
                        ttl |-> AccessTtl, madeIn |-> HomeOf[token.user]]
    OBVIOUS
<1>2. KeyHeld(row) /\ Issued(k, row) /\ UNCHANGED document
    BY <1>1 DEF CreateMyPat, KeyHeld
<1> QED BY <1>2, IssuedHeld DEF Held

LEMMA AdministeredHeld ==
    ASSUME AccessAssumption, Inv, Held, NEW token \in tokens,
           \/ \E u \in Users : SetLocked(token, u)
                               \/ \E roles \in SUBSET Roles : SetRoles(token, u, roles)
           \/ \E k \in Keys :
               \/ \E t \in Tenants, scopes \in SUBSET Scopes, ttl \in KeyTtls :
                      CreateApiKey(token, k, t, scopes, ttl)
               \/ \E roles \in SUBSET Roles : CreateMyPat(token, k, roles)
               \/ DeleteKey(token, k)
           \/ \E t \in Tenants, f \in Features : GrantLicence(token, t, f) \/ RevokeLicence(token, t, f)
    PROVE  Held'
<1>1. UNCHANGED <<document, sessions, trade, tokens>>
    BY DEF SetLocked, SetRoles, CreateApiKey, CreateMyPat, DeleteKey, GrantLicence, RevokeLicence
<1>2. TradeHeld' /\ TokensHeld'
    BY <1>1, RestIsHeld DEF Held
<1>3. PeopleHeld'
  <2>1. CASE UNCHANGED people
    BY <1>1, <2>1, RestIsHeld DEF Held
  <2>2. ASSUME NEW u \in Users, SetLocked(token, u) PROVE PeopleHeld'
    <3>1. \A x \in Users : people'[x].roles = people[x].roles
        BY <2>2 DEF SetLocked, Inv, RowsTyped, Person
    <3> QED BY <1>1, <3>1 DEF Held, PeopleHeld, PersonHeld, Plain
  <2> QED BY <2>1, <2>2, RolesHeld
         DEF CreateApiKey, CreateMyPat, DeleteKey, GrantLicence, RevokeLicence
<1>4. KeysHeld'
  <2>1. CASE UNCHANGED keyRing
    BY <1>1, <2>1, RestIsHeld DEF Held
  <2>2. ASSUME NEW k \in Keys, DeleteKey(token, k) PROVE KeysHeld'
    BY <1>1, <2>2, IssuedHeld DEF DeleteKey, Held
  <2> QED BY <2>1, <2>2, ServiceKeyHeld, PersonalTokenHeld
         DEF SetLocked, SetRoles, GrantLicence, RevokeLicence
<1> QED BY <1>2, <1>3, <1>4 DEF Held

LEMMA StepIsHeld ==
    ASSUME AccessAssumption, document \in Documents, scene \in Scenes, Guarded(document), Inv, Held,
           [AccessNext]_accessVars
    PROVE  Held'
<1>1. CASE UNCHANGED accessVars \/ TradeFails \/ ClockTicks
  <2>1. /\ UNCHANGED <<document, people, sessions, keyRing>> /\ tokens' \subseteq tokens
        /\ UNCHANGED trade \/ trade' = NoTrade
    BY <1>1 DEF accessVars, TradeFails, ClockTicks, Ends
  <2> QED BY <2>1, RestIsHeld DEF Held
<1>2. CASE Mint
    BY <1>2, MintHeld DEF AccessAssumption
<1>3. ASSUME NEW token \in tokens, NEW t \in Tenants, SwitchTo(token, t) PROVE Held'
    BY <1>3, SwitchHeld
<1> QED BY <1>1, <1>2, <1>3, PersonalHeld, ReadKeyHeld, OwnerHeld, KeySubjectsHeld, AdministeredHeld
       DEF AccessNext

LEMMA HeldAtFirst == ASSUME AccessAssumption, AccessInit PROVE Held
<1>1. \A u \in Users : HomeOf[u] # System => Plain(people[u].roles)
    BY AssignedIsPlain DEF AccessInit, OwnerRoles, Plain
<1> QED BY <1>1 DEF AccessInit, NoTrade, Held, PeopleHeld, PersonHeld, KeysHeld, InUse, TradeHeld,
                    TokensHeld

(***************************************************************************)
(* Who is not of the system tenant touches rows of its own tenant only,    *)
(* and no key it makes reaches further (enforce_own, can_assign_role,      *)
(* can_assign_scope, exchange, mint_for_api): under every configuration    *)
(* whose rules are guarded, whatever labels, rules and tenants it has and  *)
(* whatever is assigned, locked, granted and revoked meanwhile.            *)
(***************************************************************************)
THEOREM NobodyReachesAbroad == AccessSpec => []Confined
<1>1. AccessInit => ConfinedInv
    BY InvStarts, HeldAtFirst, AccessAssumption DEF ConfinedInv, AccessInit
<1>2. ConfinedInv /\ [AccessNext]_accessVars => ConfinedInv'
  <2> SUFFICES ASSUME ConfinedInv, [AccessNext]_accessVars PROVE ConfinedInv'
    OBVIOUS
  <2>1. UNCHANGED <<document, scene>>
    <3>1. CASE UNCHANGED accessVars
        BY <3>1 DEF accessVars
    <3>2. CASE AccessNext
      <4>1. ASSUME NEW u \in Users, (\E strong \in BOOLEAN : SignIn(u, strong)) \/ Logout(u) \/ Refresh(u)
            PROVE  UNCHANGED <<document, scene>>
        BY <4>1 DEF SignIn, Logout, Refresh
      <4>2. ASSUME \/ \E k \in Keys, t \in Tenants : ReadKey(k, t)
                   \/ \E proof \in {{Pat}, {Pat, HmacPat}} : LoadOwner(proof)
                   \/ KeySubjects \/ Mint \/ TradeFails \/ ClockTicks
            PROVE  UNCHANGED <<document, scene>>
        BY <4>2 DEF ReadKey, LoadOwner, KeySubjects, Mint, TradeFails, ClockTicks
      <4>3. ASSUME NEW token \in tokens,
                   \/ \E t \in Tenants : SwitchTo(token, t)
                   \/ \E u \in Users : SetLocked(token, u)
                                       \/ \E roles \in SUBSET Roles : SetRoles(token, u, roles)
                   \/ \E t \in Tenants, f \in Features :
                          GrantLicence(token, t, f) \/ RevokeLicence(token, t, f)
            PROVE  UNCHANGED <<document, scene>>
        BY <4>3 DEF SwitchTo, SetLocked, SetRoles, GrantLicence, RevokeLicence
      <4>4. ASSUME NEW token \in tokens, NEW k \in Keys,
                   \/ \E t \in Tenants, scopes \in SUBSET Scopes, ttl \in KeyTtls :
                          CreateApiKey(token, k, t, scopes, ttl)
                   \/ \E roles \in SUBSET Roles : CreateMyPat(token, k, roles)
                   \/ DeleteKey(token, k)
            PROVE  UNCHANGED <<document, scene>>
        BY <4>4 DEF CreateApiKey, CreateMyPat, DeleteKey
      <4> QED BY <3>2, <4>1, <4>2, <4>3, <4>4 DEF AccessNext
    <3> QED BY <3>1, <3>2
  <2>2. Guarded(document)' <=> Guarded(document)
    BY <2>1 DEF Guarded, OfTheSystem
  <2> QED BY <2>1, <2>2, StepIsHeld, InvIsInductive, AccessAssumption DEF ConfinedInv
<1>3. ConfinedInv => Confined
    BY HeldIsConfined, AccessAssumption
<1> QED BY <1>1, <1>2, <1>3, PTL DEF AccessSpec
=============================================================================
