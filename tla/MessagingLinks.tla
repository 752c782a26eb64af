--------------------------- MODULE MessagingLinks ---------------------------
(***************************************************************************)
(* Chat identities linked to accounts.  A user is shown a link code and    *)
(* hands it to a bot; the bot redeems the code for the identity that sent  *)
(* it.  Redeeming deletes the code row and looks at what was deleted, so a *)
(* code is used once; the link is then written by a second store call and  *)
(* takes the identity over from whoever held it.                           *)
(*                                                                         *)
(* A code is an id drawn by the store, a link row is the code it was       *)
(* claimed with, so that "who holds this identity, and by which act" can   *)
(* be asked of every state.  Every store call is an action; a handler may  *)
(* stop between two of them (a lost connection drops its future, a failed  *)
(* call ends it).                                                          *)
(***************************************************************************)
EXTENDS Naturals

CONSTANTS
    Users,          \* account ids
    Codes,          \* link codes the store can draw
    Identities,     \* (platform, external id) pairs
    Tasks,          \* handlers that can be in flight at once
    NoUser, NoCode, NoIdentity

ASSUME MessagingAssumption ==
    /\ NoUser \notin Users
    /\ NoCode \notin Codes
    /\ NoIdentity \notin Identities

VARIABLES
    store,      \* which backend this deployment runs on
    codes,      \* messaging-codes, each row with what became of it
    links,      \* messaging-links: the code an identity was claimed with
    told,       \* audit entries: <<displaced claim, claim that displaced it>>
    excused,    \* history: codes a purge of their user could not have stopped
    passed,     \* history: users whose codes a purge has been over
    call        \* the handlers in flight

messagingVars == <<store, codes, links, told, excused, passed, call>>

-----------------------------------------------------------------------------
(* State *)

Stores == {"dynamodb", "postgres"}

\* A row is live until it is deleted: by redeeming it, or (void) by a new
\* code, a purge, its expiry, or a redemption that came too late.  listed
\* says whether the by-user index has caught up: with the code row, and once
\* redeemed with the link row written for it.
CodeRow ==
    [status: {"live", "redeemed", "void"}, user: Users, fresh: BOOLEAN, listed: BOOLEAN]

UnusedCode == [status |-> "unused", user |-> NoUser, fresh |-> FALSE, listed |-> FALSE]

Phases ==
    {"idle", "findOld", "deleteOld", "insert", "consume", "claim", "report",
     "findPurged", "purgeCode", "listLinks", "dropLinks", "purged"}

\* code is the one read, redeemed or to be deleted; other the claim that was
\* displaced; left the links a purge has listed and has yet to delete.
Call ==
    [phase: Phases, user: Users \cup {NoUser}, code: Codes \cup {NoCode},
     identity: Identities \cup {NoIdentity}, other: Codes \cup {NoCode},
     left: SUBSET Identities]

NoCall ==
    [phase |-> "idle", user |-> NoUser, code |-> NoCode, identity |-> NoIdentity,
     other |-> NoCode, left |-> {}]

MessagingTypeOK ==
    /\ store \in Stores
    /\ codes \in [Codes -> CodeRow \cup {UnusedCode}]
    /\ links \in [Identities -> Codes \cup {NoCode}]
    /\ told \subseteq Codes \X Codes
    /\ excused \subseteq Codes
    /\ passed \subseteq Users
    /\ call \in [Tasks -> Call]

MessagingInit ==
    /\ store \in Stores
    /\ codes = [c \in Codes |-> UnusedCode]
    /\ links = [i \in Identities |-> NoCode]
    /\ told = {}
    /\ excused = {}
    /\ passed = {}
    /\ call = [t \in Tasks |-> NoCall]

-----------------------------------------------------------------------------
(* Reading codes *)

LiveCodes(u) == {c \in Codes : codes[c].status = "live" /\ codes[c].user = u}

\* code_entity: PostgreSQL returns an unexpired code; DynamoDB any one row its
\* index lists, expired or not.
Found(u) ==
    IF store = "postgres"
    THEN {c \in LiveCodes(u) : codes[c].fresh}
    ELSE {c \in LiveCodes(u) : codes[c].listed}

Reads(u, c) == IF Found(u) = {} THEN c = NoCode ELSE c \in Found(u)

Goes(t, phase) == call' = [call EXCEPT ![t].phase = phase]
Returns(t) == call' = [call EXCEPT ![t] = NoCall]

\* The steps that only delete the row of a code.
Void(S) == [c \in Codes |->
    IF c \in S /\ codes[c].status = "live" THEN [codes[c] EXCEPT !.status = "void"]
    ELSE codes[c]]

-----------------------------------------------------------------------------
(* A user's code *)

\* regenerate_code: PostgreSQL deletes every code of the user, DynamoDB the one
\* its index returns.
Regenerates(t, u) ==
    call' = [call EXCEPT ![t] =
        [NoCall EXCEPT !.phase = "findOld", !.user = u]]

RegenerateCode(t, u) ==
    /\ call[t] = NoCall
    /\ Regenerates(t, u)
    /\ UNCHANGED <<store, codes, links, told, excused, passed>>

\* current_code: a code that is still good is shown again, anything else
\* rotates.
CurrentCode(t, u) ==
    /\ call[t] = NoCall
    /\ \E c \in Codes \cup {NoCode} :
        /\ Reads(u, c)
        /\ c # NoCode => ~codes[c].fresh
    /\ Regenerates(t, u)
    /\ UNCHANGED <<store, codes, links, told, excused, passed>>

ReplaceAll(t) ==
    /\ call[t].phase = "findOld" /\ store = "postgres"
    /\ codes' = Void(LiveCodes(call[t].user))
    /\ Goes(t, "insert")
    /\ UNCHANGED <<store, links, told, excused, passed>>

FindOld(t) ==
    /\ call[t].phase = "findOld" /\ store = "dynamodb"
    /\ \E c \in Codes \cup {NoCode} :
        /\ Reads(call[t].user, c)
        /\ call' = [call EXCEPT ![t].phase = IF c = NoCode THEN "insert" ELSE "deleteOld",
                                ![t].code = c]
    /\ UNCHANGED <<store, codes, links, told, excused, passed>>

DeleteOld(t) ==
    /\ call[t].phase = "deleteOld"
    /\ codes' = Void({call[t].code})
    /\ Goes(t, "insert")
    /\ UNCHANGED <<store, links, told, excused, passed>>

\* put_new_code: PostgreSQL first sweeps what has expired, of any user.
PutNewCode(t, c) ==
    /\ call[t].phase = "insert"
    /\ codes[c].status = "unused"
    /\ LET swept == IF store = "postgres"
                    THEN Void({d \in Codes : ~codes[d].fresh}) ELSE codes
       IN codes' = [swept EXCEPT ![c] =
            [status |-> "live", user |-> call[t].user, fresh |-> TRUE,
             listed |-> store = "postgres"]]
    /\ excused' = IF call[t].user \in passed THEN excused \cup {c} ELSE excused
    /\ Returns(t)
    /\ UNCHANGED <<store, links, told, passed>>

\* is_fresh turns false; DynamoDB's TTL then removes the row some time later.
CodeExpires(c) ==
    /\ codes[c].status = "live" /\ codes[c].fresh
    /\ codes' = [codes EXCEPT ![c].fresh = FALSE]
    /\ UNCHANGED <<store, links, told, excused, passed, call>>

CodeSwept(c) ==
    /\ store = "dynamodb"
    /\ codes[c].status = "live" /\ ~codes[c].fresh
    /\ codes' = [codes EXCEPT ![c].status = "void"]
    /\ UNCHANGED <<store, links, told, excused, passed, call>>

CodeListed(c) ==
    /\ codes[c].status \in {"live", "redeemed"} /\ ~codes[c].listed
    /\ codes' = [codes EXCEPT ![c].listed = TRUE]
    /\ UNCHANGED <<store, links, told, excused, passed, call>>

-----------------------------------------------------------------------------
(* Claiming an identity *)

CreateLink(t, c, i) ==
    /\ call[t] = NoCall
    /\ codes[c].status # "unused"
    /\ call' = [call EXCEPT ![t] =
        [NoCall EXCEPT !.phase = "consume", !.code = c, !.identity = i]]
    /\ UNCHANGED <<store, codes, links, told, excused, passed>>

\* Mutant of ConsumeCode: the row is read here and deleted by nobody.
ConsumeCodeReads(t) ==
    LET c == call[t].code
    IN /\ call[t].phase = "consume"
       /\ codes[c].status \in {"live", "redeemed"} /\ codes[c].fresh
       /\ codes' = [codes EXCEPT ![c].status = "redeemed"]
       /\ call' = [call EXCEPT ![t].phase = "claim", ![t].user = codes[c].user]
       /\ UNCHANGED <<store, links, told, excused, passed>>

\* consume_code: one delete that returns the old row; an expired row is deleted
\* too, and refused.
ConsumeCode(t) ==
    LET c == call[t].code
    IN /\ call[t].phase = "consume"
       /\ \/ /\ codes[c].status = "live" /\ codes[c].fresh
             /\ codes' = [codes EXCEPT ![c].status = "redeemed"]
             /\ call' = [call EXCEPT ![t].phase = "claim", ![t].user = codes[c].user]
          \/ /\ ~(codes[c].status = "live" /\ codes[c].fresh)
             /\ codes' = Void({c})
             /\ Returns(t)
       /\ UNCHANGED <<store, links, told, excused, passed>>

\* Mutant of ClaimIdentity: who is displaced was looked up when the code was
\* redeemed, not taken from the write.
ClaimReportsStale(t) ==
    LET c == call[t].code
    IN /\ call[t].phase = "claim"
       /\ links' = [links EXCEPT ![call[t].identity] = c]
       /\ \E d \in Codes :
            /\ codes[d].status = "redeemed" /\ codes[d].user # call[t].user
            /\ call' = [call EXCEPT ![t].phase = "report", ![t].other = d]
       /\ UNCHANGED <<store, codes, told, excused, passed>>

\* create_link: one write that says whom it displaced (PutItem with AllOld; in
\* PostgreSQL a transaction holding the row's lock).
ClaimIdentity(t) ==
    LET c == call[t].code
        d == links[call[t].identity]
    IN /\ call[t].phase = "claim"
       /\ links' = [links EXCEPT ![call[t].identity] = c]
       /\ codes' = [codes EXCEPT ![c].listed = (store = "postgres")]
       /\ IF d = NoCode \/ codes[d].user = call[t].user
          THEN Returns(t)
          ELSE call' = [call EXCEPT ![t].phase = "report", ![t].other = d]
       /\ UNCHANGED <<store, told, excused, passed>>

\* The audit entry under the id of the user who lost the identity.
ReportDisplaced(t) ==
    /\ call[t].phase = "report"
    /\ told' = told \cup {<<call[t].other, call[t].code>>}
    /\ Returns(t)
    /\ UNCHANGED <<store, codes, links, excused, passed>>

\* delete_link: one statement, conditional on the owner.
DeleteLink(t, u, i) ==
    /\ call[t] = NoCall
    /\ links[i] # NoCode
    /\ codes[links[i]].user = u
    /\ links' = [links EXCEPT ![i] = NoCode]
    /\ UNCHANGED <<store, codes, told, excused, passed, call>>

-----------------------------------------------------------------------------
(* Purging a departing user: delete_all_for_user *)

Purge(t, u) ==
    /\ call[t] = NoCall
    /\ call' = [call EXCEPT ![t] = [NoCall EXCEPT !.phase = "findPurged", !.user = u]]
    /\ UNCHANGED <<store, codes, links, told, excused, passed>>

\* Claims of u that have redeemed their code and not yet written the link.
Claiming(u) ==
    {c \in Codes : \E t \in Tasks :
        call[t].phase = "claim" /\ call[t].user = u /\ call[t].code = c}

\* Mutant of PurgeCodes: only codes that are still good are deleted.
PurgeFreshCodes(t) ==
    LET u == call[t].user
    IN /\ call[t].phase = "findPurged" /\ store = "postgres"
       /\ passed' = passed \cup {u}
       /\ codes' = Void({c \in LiveCodes(u) : codes[c].fresh})
       /\ excused' = excused \cup Claiming(u)
       /\ Goes(t, "listLinks")
       /\ UNCHANGED <<store, links, told>>

PurgeCodes(t) ==
    LET u == call[t].user
    IN /\ call[t].phase = "findPurged" /\ store = "postgres"
       /\ passed' = passed \cup {u}
       /\ codes' = Void(LiveCodes(u))
       /\ excused' = excused \cup Claiming(u)
       /\ Goes(t, "listLinks")
       /\ UNCHANGED <<store, links, told>>

\* DynamoDB deletes the one code its index returns, so any other stays.
FindPurged(t) ==
    LET u == call[t].user
    IN /\ call[t].phase = "findPurged" /\ store = "dynamodb"
       /\ passed' = passed \cup {u}
       /\ \E c \in Codes \cup {NoCode} :
           /\ Reads(u, c)
           /\ call' = [call EXCEPT
                ![t].phase = IF c = NoCode THEN "listLinks" ELSE "purgeCode",
                ![t].code = c]
           /\ excused' = excused \cup Claiming(u) \cup (LiveCodes(u) \ {c})
       /\ UNCHANGED <<store, codes, links, told>>

PurgeCode(t) ==
    /\ call[t].phase = "purgeCode"
    /\ codes' = Void({call[t].code})
    /\ excused' = excused \cup Claiming(call[t].user)
    /\ Goes(t, "listLinks")
    /\ UNCHANGED <<store, links, told, passed>>

HeldBy(u) == {i \in Identities : links[i] # NoCode /\ codes[links[i]].user = u}

\* PostgreSQL deletes by owner in one statement.
PurgeLinks(t) ==
    /\ call[t].phase = "listLinks" /\ store = "postgres"
    /\ links' = [i \in Identities |-> IF i \in HeldBy(call[t].user) THEN NoCode ELSE links[i]]
    /\ Goes(t, "purged")
    /\ UNCHANGED <<store, codes, told, excused, passed>>

\* DynamoDB lists the owner's links from an index and then deletes them by
\* key, whoever holds them then.
ListLinks(t) ==
    LET held == HeldBy(call[t].user)
        seen == {i \in held : codes[links[i]].listed}
    IN /\ call[t].phase = "listLinks" /\ store = "dynamodb"
       /\ call' = [call EXCEPT ![t].phase = IF seen = {} THEN "purged" ELSE "dropLinks",
                               ![t].left = seen]
       /\ excused' = excused \cup {links[i] : i \in held \ seen}
       /\ UNCHANGED <<store, codes, links, told, passed>>

DropLink(t, i) ==
    /\ call[t].phase = "dropLinks" /\ i \in call[t].left
    /\ links' = [links EXCEPT ![i] = NoCode]
    /\ call' = [call EXCEPT ![t].left = @ \ {i},
                            ![t].phase = IF call[t].left = {i} THEN "purged" ELSE @]
    /\ UNCHANGED <<store, codes, told, excused, passed>>

PurgeReturns(t) ==
    /\ call[t].phase = "purged"
    /\ Returns(t)
    /\ UNCHANGED <<store, codes, links, told, excused, passed>>

\* A handler is dropped between two store calls, or its next one fails.
CallStops(t) ==
    /\ call[t] # NoCall
    /\ Returns(t)
    /\ UNCHANGED <<store, codes, links, told, excused, passed>>

-----------------------------------------------------------------------------

MessagingRequest(t) ==
    \/ \E u \in Users : CurrentCode(t, u) \/ RegenerateCode(t, u)
    \/ \E c \in Codes, i \in Identities : CreateLink(t, c, i)
    \/ \E u \in Users, i \in Identities : DeleteLink(t, u, i)

MessagingStep(t) ==
    \/ ReplaceAll(t) \/ FindOld(t) \/ DeleteOld(t)
    \/ ConsumeCode(t) \/ ClaimIdentity(t) \/ ReportDisplaced(t)
    \/ PurgeCodes(t) \/ FindPurged(t) \/ PurgeCode(t) \/ PurgeLinks(t) \/ ListLinks(t)
    \/ \E c \in Codes : PutNewCode(t, c)
    \/ \E i \in Identities : DropLink(t, i)

MessagingTime ==
    \E c \in Codes : CodeExpires(c) \/ CodeSwept(c) \/ CodeListed(c)

MessagingNext ==
    \/ \E t \in Tasks :
        \/ MessagingRequest(t) \/ MessagingStep(t) \/ CallStops(t)
        \/ PurgeReturns(t) \/ \E u \in Users : Purge(t, u)
    \/ MessagingTime

MessagingSpec == MessagingInit /\ [][MessagingNext]_messagingVars

-----------------------------------------------------------------------------
(* Properties *)

(***************************************************************************)
(* A code links one identity, once: whatever claims, regenerations and     *)
(* purges overlap, an identity is held by a redeemed code and no code      *)
(* holds two.                                                              *)
(***************************************************************************)
CodeLinksOnce ==
    /\ \A i \in Identities : links[i] # NoCode => codes[links[i]].status = "redeemed"
    /\ \A i, j \in Identities : links[i] # NoCode /\ links[i] = links[j] => i = j

(***************************************************************************)
(* The audit trail names a displaced claim once, and names the claim that  *)
(* really displaced it: two claims arriving together never both report the *)
(* same loss, and a claim still holding its identity was not reported.     *)
(***************************************************************************)
DisplacedIsToldOnce ==
    /\ \A p, q \in told : p[1] = q[1] => p[2] = q[2]
    /\ \A p \in told :
        /\ codes[p[1]].user # codes[p[2]].user
        /\ \A i \in Identities : links[i] # p[1]

=============================================================================
