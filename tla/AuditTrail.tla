----------------------------- MODULE AuditTrail -----------------------------
(***************************************************************************)
(* The audit trail: an append-only table, read page by page, newest first, *)
(* by the user or by the tenant an entry names.                            *)
(*                                                                         *)
(* A handler takes the time first and inserts later, so entries appear out *)
(* of order; DynamoDB's index follows its table with a delay.  A page ends *)
(* with a cursor, the time and id of its last entry, and the next page     *)
(* starts behind it.  Entries expire: PostgreSQL filters them from every   *)
(* page and sweeps, DynamoDB deletes them when it gets to it.              *)
(***************************************************************************)
EXTENDS Naturals, SequencesExt, FiniteSetsExt

CONSTANTS
    Ids,            \* the ids generate_id can draw, numbers for their order
    Origins,        \* the <<tenant, user>> pairs events come with
    Nobody,         \* an event whose tenant or user is not known
    Recorders,      \* handlers that record an event
    Walkers,        \* clients that read a trail page by page
    Limits,         \* the page sizes they ask for, before clamping
    MaxListResults,
    Retention,
    MaxClock        \* bound: the clock of the model

AuditAssumption ==
    /\ Ids \subseteq Nat /\ Limits \subseteq Nat
    /\ {MaxListResults, Retention} \subseteq Nat \ {0} /\ MaxClock \in Nat

VARIABLES
    backend,        \* which backend the deployment runs on
    clock,
    log,            \* audit-log
    index,          \* the ids the index has caught up with
    recorder,       \* recordings in flight
    walk            \* the trails being read

auditVars == <<backend, clock, log, index, recorder, walk>>

-----------------------------------------------------------------------------
(* State *)

Fields == {"tenant", "user"}

Keys(field) == {IF field = "tenant" THEN o[1] ELSE o[2] : o \in Origins} \ {Nobody}

Subjects == Keys("tenant") \cup Keys("user")

Entry == [id: Ids, at: 0..MaxClock, tenant: Subjects \cup {Nobody}, user: Subjects \cup {Nobody}]

\* seen is what the pages so far held; owed what the index held when the walk began.
Walk ==
    [status: {"idle", "open", "done"}, field: Fields, key: Subjects \cup {Nobody},
     limit: 1..MaxListResults, seen: Seq(Entry), owed: SUBSET Entry]

NoWalk ==
    [status |-> "idle", field |-> "user", key |-> Nobody, limit |-> 1, seen |-> <<>>, owed |-> {}]

AuditTypeOK ==
    /\ backend \in {"dynamodb", "postgres"}
    /\ clock \in 0..MaxClock
    /\ log \subseteq Entry
    /\ index \subseteq Ids
    /\ recorder \in [Recorders -> Entry \cup {Nobody}]
    /\ walk \in [Walkers -> Walk]

AuditInit ==
    /\ backend \in {"dynamodb", "postgres"}
    /\ clock = 0 /\ log = {} /\ index = {}
    /\ recorder = [r \in Recorders |-> Nobody]
    /\ walk = [w \in Walkers |-> NoWalk]

Expired(e) == e.at + Retention <= clock

Newer(a, b) == a.at > b.at \/ (a.at = b.at /\ a.id > b.id)

Drawn == {e.id : e \in log}

\* The id of an entry that is gone is not drawn again.
Drawable == {id \in Ids : id \in Drawn \/ id \notin index}

-----------------------------------------------------------------------------
(* Recording *)

\* record, its first half: the handler's time is the entry's.
Stamp(r, o, id) ==
    /\ recorder[r] = Nobody /\ id \in Drawable
    /\ recorder' = [recorder EXCEPT ![r] =
           [id |-> id, at |-> clock, tenant |-> o[1], user |-> o[2]]]
    /\ UNCHANGED <<backend, clock, log, index, walk>>

\* PostgreSQL sweeps before it inserts, a batch and best effort.
Swept == SUBSET {e \in log : backend = "postgres" /\ Expired(e)}

\* The insert.  A drawn id is refused: PostgreSQL draws another, on DynamoDB the entry is lost.
Insert(r) ==
    LET e == recorder[r] IN
    /\ e # Nobody
    /\ \E gone \in Swept, id \in Drawable :
        /\ IF backend = "postgres" THEN id \notin Drawn ELSE id = e.id
        /\ log' = (log \ gone) \cup IF id \in Drawn THEN {} ELSE {[e EXCEPT !.id = id]}
        /\ index' = CASE id \in Drawn -> index
                      [] backend = "postgres" -> index \cup {id}
                      [] OTHER -> index
    /\ recorder' = [recorder EXCEPT ![r] = Nobody]
    /\ UNCHANGED <<backend, clock, walk>>

\* record_best_effort: a recording that fails is logged, and nothing else fails for it.
RecordingFails(r) ==
    /\ recorder[r] # Nobody
    /\ recorder' = [recorder EXCEPT ![r] = Nobody]
    /\ UNCHANGED <<backend, clock, log, index, walk>>

IndexCatchesUp(e) ==
    /\ e \in log /\ e.id \notin index
    /\ index' = index \cup {e.id}
    /\ UNCHANGED <<backend, clock, log, recorder, walk>>

\* DynamoDB deletes an expired row, some time after it has expired.
Expires(e) ==
    /\ backend = "dynamodb" /\ e \in log /\ Expired(e)
    /\ log' = log \ {e}
    /\ UNCHANGED <<backend, clock, index, recorder, walk>>

Ticks ==
    /\ clock < MaxClock
    /\ clock' = clock + 1
    /\ UNCHANGED <<backend, log, index, recorder, walk>>

-----------------------------------------------------------------------------
(* Reading *)

Clamped(limit) == Max({1, Min({limit, MaxListResults})})

\* What a query of the index can meet.
Listed(field, key) ==
    {e \in log : e[field] = key /\ e.id \in index /\ (backend = "postgres" => ~Expired(e))}

\* Mutant of Behind: the cursor is the time alone.
BehindTime(e, last) == e.at < last.at

Behind(e, last) == Newer(last, e)

\* ORDER BY recorded_at DESC, id DESC: every entry once, each before the older ones.
NewestFirst(entries) ==
    CHOOSE s \in [1..Cardinality(entries) -> entries] :
        ToSet(s) = entries /\ \A i, j \in DOMAIN s : i < j => Newer(s[i], s[j])

\* Everything the query can still return, newest first.
Rest(w) ==
    LET after == {e \in Listed(walk[w].field, walk[w].key) :
                     walk[w].seen = <<>> \/ Behind(e, Last(walk[w].seen))}
    IN NewestFirst(after)

\* tenant_audit asks for the caller's own tenant only, my_audit for the caller.
BeginWalk(w, field, key, limit) ==
    /\ walk[w].status = "idle"
    /\ walk' = [walk EXCEPT ![w] =
           [status |-> "open", field |-> field, key |-> key, limit |-> Clamped(limit),
            seen |-> <<>>, owed |-> Listed(field, key)]]
    /\ UNCHANGED <<backend, clock, log, index, recorder>>

\* list_page.  PostgreSQL reads one entry more than the page and drops it; DynamoDB may stop short of
\* the page's size, and says that more may follow whenever it stopped before the end, or at the limit.
NextPage(w) ==
    LET rest == Rest(w)
        full == Min({walk[w].limit, Len(rest)})
    IN /\ walk[w].status = "open"
       /\ \E n \in (IF backend = "postgres" \/ full = 0 THEN {full} ELSE 1..full) :
            LET more == IF backend = "postgres" THEN Len(rest) > n
                        ELSE Len(rest) > n \/ n = walk[w].limit
                anchored == n > 0
            IN walk' = [walk EXCEPT
                   ![w].seen = @ \o SubSeq(rest, 1, n),
                   ![w].status = IF more /\ anchored THEN "open" ELSE "done"]
       /\ UNCHANGED <<backend, clock, log, index, recorder>>

-----------------------------------------------------------------------------
AuditNext ==
    \/ \E r \in Recorders :
        \/ \E o \in Origins, id \in Ids : Stamp(r, o, id)
        \/ Insert(r) \/ RecordingFails(r)
    \/ \E e \in log : IndexCatchesUp(e) \/ Expires(e)
    \/ \E w \in Walkers :
        \/ \E field \in Fields, limit \in Limits :
            \E key \in Keys(field) : BeginWalk(w, field, key, limit)
        \/ NextPage(w)
    \/ Ticks

AuditSpec == AuditInit /\ [][AuditNext]_auditVars

-----------------------------------------------------------------------------
(* Properties *)

(***************************************************************************)
(* Whoever reads a trail to its end has met, once and newest first, every  *)
(* entry the index held when the reading began and that is still there,    *)
(* and none of another user or tenant, whatever was recorded (out of       *)
(* order, in the same millisecond) or expired between two pages.           *)
(***************************************************************************)
WalksAreComplete ==
    \A w \in Walkers :
        LET seen == walk[w].seen IN
        /\ \A i \in 1..(Len(seen) - 1) : Newer(seen[i], seen[i + 1])
        /\ \A i \in DOMAIN seen : seen[i][walk[w].field] = walk[w].key
        /\ walk[w].status = "done" =>
               \A e \in walk[w].owed :
                   e \in Listed(walk[w].field, walk[w].key) => e \in ToSet(seen)
=============================================================================
