---------------------------- MODULE ConfigStore ----------------------------
(***************************************************************************)
(* The configuration document: one versioned row or object, an editor that *)
(* loads, edits and publishes it whole, and instances that serve it from a *)
(* cache.                                                                  *)
(*                                                                         *)
(* Publishing compares the version the editor was shown with the stored    *)
(* one.  PostgreSQL does so under a row lock; S3 reads and then puts, in   *)
(* order only within one instance (a mutex).  An instance answers from its *)
(* cache for a time, then asks whether the document has changed, and loads *)
(* it anew if so.  What cannot be parsed is served as the built-in default *)
(* with the default's version, so that it can be repaired by publishing.   *)
(*                                                                         *)
(* A document is the set of edits it has absorbed; its generation is       *)
(* PostgreSQL's revision, or the object's ETag.                            *)
(***************************************************************************)
EXTENDS Naturals

CONSTANTS
    Instances,
    Editors,        \* an editing session each, and the edit it makes
    Readers,        \* requests that read the configuration
    Stores,         \* the stores of the deployments looked at
    Mishaps,        \* sets of what may happen in one behaviour
    Ttl,            \* the cache's time to live
    MaxNow,         \* bound: the clock of the model
    MaxDelay,       \* bound: time between two steps of a handler
    MaxGeneration,  \* bound: writes of the document
    Nobody

ConfigAssumption ==
    /\ Stores \subseteq {"s3", "postgres"}
    /\ Mishaps \subseteq SUBSET {"clock", "drop", "corruption", "restart", "readError"}
    /\ {Ttl, MaxNow, MaxDelay, MaxGeneration} \subseteq Nat
    /\ Nobody \notin Instances \cup Editors
    /\ Editors \cap Readers = {}

VARIABLES
    kind,           \* which store the deployment uses
    mishap,         \* what may happen in this behaviour
    time,           \* the clock
    stored,         \* the document
    cached,         \* per instance, the document it serves and when it last looked
    writing,        \* per instance, the mutex of S3's save
    work,           \* handlers in flight
    acked,          \* history: edits answered with success
    editedAt,       \* history: the instances documents were published through
    replacedAt      \* history: when a generation stopped being the stored one

configVars ==
    <<kind, mishap, time, stored, cached, writing, work, acked, editedAt, replacedAt>>

-----------------------------------------------------------------------------
(* State *)

Generations == 0..MaxGeneration

Document ==
    [edits: SUBSET Editors, version: Nat, generation: Generations, parses: BOOLEAN]

\* Config::default, what a first boot stores and what an unreadable document is taken for.
Default(generation) ==
    [edits |-> {}, version |-> 0, generation |-> generation, parses |-> TRUE]

ParseOrDefault(doc) == IF doc.parses THEN doc ELSE Default(doc.generation)

Cache == [doc: Document, checked: Nat]

Phases ==
    {"idle", "opening", "open", "locked", "put", "refresh", "store", "checked", "answered"}

\* doc is the document the handler has loaded; at when it took its last step.
Work == [phase: Phases, instance: Instances \cup {Nobody}, doc: Document, at: Nat]

NoWork == [phase |-> "idle", instance |-> Nobody, doc |-> Default(0), at |-> 0]

Workers == Editors \cup Readers

ConfigTypeOK ==
    /\ kind \in Stores /\ mishap \in Mishaps
    /\ time \in 0..MaxNow
    /\ stored \in Document
    /\ cached \in [Instances -> Cache]
    /\ writing \in [Instances -> Editors \cup {Nobody}]
    /\ work \in [Workers -> Work]
    /\ acked \subseteq Editors /\ editedAt \subseteq Instances
    /\ replacedAt \in [Generations -> Nat]

ConfigInit ==
    /\ kind \in Stores /\ mishap \in Mishaps
    /\ time = 0
    /\ stored = Default(0)
    /\ cached = [i \in Instances |-> [doc |-> Default(0), checked |-> 0]]
    /\ writing = [i \in Instances |-> Nobody]
    /\ work = [w \in Workers |-> NoWork]
    /\ acked = {} /\ editedAt = {}
    /\ replacedAt = [g \in Generations |-> MaxNow + 1]

At(w, phase) == work[w].phase = phase
Step(w, phase, doc) ==
    work' = [work EXCEPT ![w].phase = phase, ![w].doc = doc, ![w].at = time]
To(w, phase) == Step(w, phase, work[w].doc)
Ends(w) == work' = [work EXCEPT ![w] = NoWork]
Begins(w, i, phase, doc) ==
    work' = [work EXCEPT ![w] = [phase |-> phase, instance |-> i, doc |-> doc, at |-> time]]

Serve(i, doc) == cached' = [cached EXCEPT ![i] = [doc |-> doc, checked |-> time]]

\* The document is replaced: the generation moves on, whatever the version says.
Replace(doc) ==
    /\ stored.generation < MaxGeneration
    /\ stored' = [doc EXCEPT !.generation = stored.generation + 1]
    /\ replacedAt' = [replacedAt EXCEPT ![stored.generation] = time]

-----------------------------------------------------------------------------
(* Reading *)

Fresh(i) == time < cached[i].checked + Ttl

\* current: past the TTL the store is asked whether the document has changed.
Current(r, i) ==
    /\ "clock" \in mishap /\ At(r, "idle")
    /\ ~Fresh(i)
    /\ Begins(r, i, "checked", stored)
    /\ UNCHANGED <<kind, mishap, time, stored, cached, writing, acked, editedAt, replacedAt>>

\* Mutant of Unchanged: whatever the store answers, the cache is good for another TTL.
UnchangedAnyway(r) ==
    /\ At(r, "checked")
    /\ cached' = [cached EXCEPT ![work[r].instance].checked = time]
    /\ Ends(r)
    /\ UNCHANGED <<kind, mishap, time, stored, writing, acked, editedAt, replacedAt>>

\* The same generation is served on for another TTL; another one is loaded.
Unchanged(r) ==
    LET i == work[r].instance IN
    /\ At(r, "checked")
    /\ IF work[r].doc.generation = cached[i].doc.generation
       THEN /\ cached' = [cached EXCEPT ![i].checked = time]
            /\ Ends(r)
       ELSE /\ Step(r, "store", ParseOrDefault(stored))
            /\ UNCHANGED cached
    /\ UNCHANGED <<kind, mishap, time, stored, writing, acked, editedAt, replacedAt>>

\* refresh, its second half: what was loaded replaces the cache, whatever it holds by now.
Refreshed(w) ==
    /\ At(w, "store")
    /\ Serve(work[w].instance, work[w].doc)
    /\ IF w \in Readers THEN Ends(w) ELSE To(w, "answered")
    /\ UNCHANGED <<kind, mishap, time, stored, writing, acked, editedAt, replacedAt>>

-----------------------------------------------------------------------------
(* Editing *)

\* get_config: the editor loads past the cache.
Open(e, i) ==
    /\ At(e, "idle") /\ e \notin stored.edits /\ e \notin acked
    /\ Begins(e, i, "opening", ParseOrDefault(stored))
    /\ UNCHANGED <<kind, mishap, time, stored, cached, writing, acked, editedAt, replacedAt>>

Opened(e) ==
    /\ At(e, "opening")
    /\ Serve(work[e].instance, work[e].doc)
    /\ To(e, "open")
    /\ UNCHANGED <<kind, mishap, time, stored, writing, acked, editedAt, replacedAt>>

\* bump: the document as edited, one version on.
Edited(e) == [work[e].doc EXCEPT !.edits = @ \cup {e}, !.version = @ + 1, !.parses = TRUE]

\* Mutant of Expected: compared with what this instance serves.
ExpectedHere(e) == work[e].doc.version = cached[work[e].instance].doc.version

Expected(e) == work[e].doc.version = ParseOrDefault(stored).version

\* save on PostgreSQL: compared and written under the row's lock; then the cache.
Commit(e, i) ==
    /\ kind = "postgres" /\ At(e, "open")
    /\ IF Expected(e)
       THEN /\ Replace(Edited(e))
            /\ Begins(e, i, "refresh", work[e].doc)
            /\ editedAt' = editedAt \cup {i}
       ELSE Ends(e) /\ UNCHANGED <<stored, editedAt, replacedAt>>
    /\ UNCHANGED <<kind, mishap, time, cached, writing, acked>>

\* save on S3: one writer per instance.
Lock(e, i) ==
    /\ kind = "s3" /\ At(e, "open")
    /\ writing[i] = Nobody
    /\ writing' = [writing EXCEPT ![i] = e]
    /\ Begins(e, i, "locked", work[e].doc)
    /\ UNCHANGED <<kind, mishap, time, stored, cached, acked, editedAt, replacedAt>>

Compare(e) ==
    LET i == work[e].instance IN
    /\ At(e, "locked")
    /\ Serve(i, ParseOrDefault(stored))
    /\ IF Expected(e) THEN To(e, "put") /\ UNCHANGED writing
       ELSE Ends(e) /\ writing' = [writing EXCEPT ![i] = Nobody]
    /\ UNCHANGED <<kind, mishap, time, stored, acked, editedAt, replacedAt>>

Put(e) ==
    /\ At(e, "put")
    /\ Replace(Edited(e))
    /\ editedAt' = editedAt \cup {work[e].instance}
    /\ To(e, "refresh")
    /\ UNCHANGED <<kind, mishap, time, cached, writing, acked>>

\* The document is read back into the cache, and the editor is told.
Reload(e) ==
    /\ At(e, "refresh")
    /\ Step(e, "store", ParseOrDefault(stored))
    /\ UNCHANGED <<kind, mishap, time, stored, cached, writing, acked, editedAt, replacedAt>>

Acknowledge(e) ==
    LET i == work[e].instance IN
    /\ At(e, "answered")
    /\ acked' = acked \cup {e}
    /\ writing' = [writing EXCEPT ![i] = IF @ = e THEN Nobody ELSE @]
    /\ Ends(e)
    /\ UNCHANGED <<kind, mishap, time, stored, cached, editedAt, replacedAt>>

\* A handler is dropped between two steps, or the next one fails; its lock goes with it.
Dropped(w) ==
    /\ "drop" \in mishap
    /\ ~At(w, "idle")
    /\ writing' = [i \in Instances |-> IF writing[i] = w THEN Nobody ELSE writing[i]]
    /\ Ends(w)
    /\ UNCHANGED <<kind, mishap, time, stored, cached, acked, editedAt, replacedAt>>

-----------------------------------------------------------------------------
(* The world *)

\* A document this build cannot parse: an edit by hand, or a schema it predates.
Corrupted ==
    /\ "corruption" \in mishap /\ stored.parses
    /\ Replace([stored EXCEPT !.parses = FALSE])
    /\ UNCHANGED <<kind, mishap, time, cached, writing, work, acked, editedAt>>

\* An instance restarts.  It seeds the default where there is no document: PostgreSQL inserts if
\* absent, S3 puts whenever the read has failed.  Then it loads what is stored.
Restart(i) ==
    LET seeds == kind = "s3" /\ "readError" \in mishap IN
    /\ "restart" \in mishap
    /\ \A w \in Workers : work[w].instance # i
    /\ \/ UNCHANGED <<stored, replacedAt>> /\ Serve(i, ParseOrDefault(stored))
       \/ /\ seeds
          /\ Replace(Default(0))
          /\ cached' = [cached EXCEPT ![i] = [doc |-> stored', checked |-> time]]
    /\ UNCHANGED <<kind, mishap, time, writing, work, acked, editedAt>>

\* An editor may take its time with the document open; everything else is prompt.
Passes ==
    /\ "clock" \in mishap
    /\ time < MaxNow
    /\ \A w \in Workers : At(w, "idle") \/ At(w, "open") \/ time < work[w].at + MaxDelay
    /\ time' = time + 1
    /\ UNCHANGED <<kind, mishap, stored, cached, writing, work, acked, editedAt, replacedAt>>

ConfigNext ==
    \/ \E i \in Instances :
        \/ \E r \in Readers : Current(r, i)
        \/ \E e \in Editors : Open(e, i) \/ Commit(e, i) \/ Lock(e, i)
        \/ Restart(i)
    \/ \E r \in Readers : Unchanged(r)
    \/ \E e \in Editors : Opened(e) \/ Compare(e) \/ Put(e) \/ Reload(e) \/ Acknowledge(e)
    \/ \E w \in Workers : Refreshed(w) \/ Dropped(w)
    \/ Corrupted \/ Passes

ConfigSpec == ConfigInit /\ [][ConfigNext]_configVars

-----------------------------------------------------------------------------
(* Properties *)

(***************************************************************************)
(* An edit that was answered with success is in every later document: on   *)
(* PostgreSQL whatever instance it went through, on S3 as long as one      *)
(* instance publishes and no boot failed to read (a document that could    *)
(* not be parsed is given up, so nothing is promised past it).             *)
(***************************************************************************)
NoEditIsLost ==
    /\ mishap \cap {"corruption", "readError"} = {}
    /\ kind = "postgres" \/ \E i \in Instances : editedAt \subseteq {i}
    => acked \subseteq stored.edits

(***************************************************************************)
(* What an instance answers from its cache was the stored document less    *)
(* than the TTL and one step of a load ago, even where an older load       *)
(* overtakes a newer one on the way into the cache, or a reader finds      *)
(* unchanged what another handler has just replaced.                       *)
(***************************************************************************)
StaleIsBounded ==
    \A i \in Instances :
        Fresh(i) => time < replacedAt[cached[i].doc.generation] + Ttl + MaxDelay
=============================================================================
