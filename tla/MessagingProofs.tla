--------------------------- MODULE MessagingProofs ---------------------------
(***************************************************************************)
(* Theorems about MessagingLinks for every value of its constants: any     *)
(* number of users, codes, identities and handlers, on either backend.     *)
(***************************************************************************)
EXTENDS MessagingLinks, TLAPS

\* A handler that has redeemed a code and has yet to write the link holds a redeemed code that nobody
\* else holds and that no identity has.
Claimant(t) == call[t].phase = "claim"

ClaimsAreTheirs ==
    \A t \in Tasks : Claimant(t) =>
        /\ call[t].code \in Codes /\ codes[call[t].code].status = "redeemed"
        /\ \A i \in Identities : links[i] # call[t].code
        /\ \A other \in Tasks : Claimant(other) /\ call[other].code = call[t].code => other = t

LinksAreRows == links \in [Identities -> Codes \cup {NoCode}]

\* What a handler works for is known when it comes to write it.
Carries(r) ==
    /\ r.phase \in {"consume", "claim"} => r.code \in Codes /\ r.identity \in Identities
    /\ r.phase \in {"findOld", "deleteOld", "insert"} => r.user \in Users

CallsAreTyped == call \in [Tasks -> {r \in Call : Carries(r)}]

CodesAreTyped == codes \in [Codes -> CodeRow \cup {UnusedCode}]

\* A claim that lost its identity for good: nobody holds the code or is about to.
Lost(c) ==
    /\ c \in Codes /\ codes[c].status = "redeemed"
    /\ \A i \in Identities : links[i] # c
    /\ \A t \in Tasks : Claimant(t) => call[t].code # c

\* The claim d was lost to the claim c, of another user.
LostTo(d, c) ==
    Lost(d) /\ c \in Codes /\ codes[c].status = "redeemed" /\ codes[d].user # codes[c].user

\* A handler that has displaced a claim and has yet to report it is the only one to report this loss.
Reporter(t) == call[t].phase = "report"

ReportsAreTrue ==
    /\ \A t \in Tasks : Claimant(t) => call[t].user = codes[call[t].code].user
    /\ \A p, q \in told : p[1] = q[1] => p[2] = q[2]
    /\ \A p \in told : LostTo(p[1], p[2])
    /\ \A t \in Tasks : Reporter(t) =>
        /\ LostTo(call[t].other, call[t].code)
        /\ \A p \in told : p[1] # call[t].other
        /\ \A other \in Tasks : Reporter(other) /\ call[other].other = call[t].other => other = t

\* The inductive invariant.
Inv ==
    /\ CodesAreTyped /\ LinksAreRows /\ CallsAreTyped
    /\ ClaimsAreTheirs /\ CodeLinksOnce /\ ReportsAreTrue

-----------------------------------------------------------------------------
(* What a step may do to each table without touching a claim *)

CodesStep ==
    /\ CodesAreTyped'
    /\ \A c \in Codes : codes[c].status = "redeemed" =>
           codes'[c].status = "redeemed" /\ codes'[c].user = codes[c].user
    /\ \A c \in Codes : codes'[c].status = "live" =>
           \/ codes[c].status = "live" /\ codes'[c].user = codes[c].user
           \/ codes'[c].user \in passed => c \in excused'

LinksStep ==
    /\ LinksAreRows'
    /\ \A i \in Identities : links'[i] \in {links[i], NoCode}

CallsStep ==
    /\ CallsAreTyped'
    /\ \A t \in Tasks : Claimant(t)' =>
           Claimant(t) /\ call'[t].code = call[t].code /\ call'[t].user = call[t].user
    /\ \A t \in Tasks : Reporter(t)' => Reporter(t) /\ call'[t] = call[t]

\* A step that redeems and links nothing.
Quiet == CodesStep /\ LinksStep /\ CallsStep /\ UNCHANGED told

\* A redeemed code stays redeemed, links are only taken away, and no handler begins a claim: then
\* what was claimed once is still claimed once.
LEMMA QuietStep ==
    ASSUME Inv, Quiet
    PROVE  Inv'
<1> USE MessagingAssumption DEF Quiet
<1>1. ClaimsAreTheirs'
  BY DEF Inv, ClaimsAreTheirs, Claimant, CodesStep, LinksStep, CallsStep
<1>2. CodeLinksOnce'
  BY DEF Inv, CodeLinksOnce, CodesStep, LinksStep, LinksAreRows
<1>3. \A c : Lost(c) => Lost(c)'
  BY DEF Inv, Lost, CodesStep, LinksStep, CallsStep
<1>4. \A d, c : LostTo(d, c) => LostTo(d, c)'
  BY <1>3 DEF LostTo, Lost, CodesStep
<1>5. ReportsAreTrue'
  <2>1. \A t \in Tasks : Claimant(t)' => call'[t].user = codes'[call'[t].code].user
    BY DEF Inv, ReportsAreTrue, ClaimsAreTheirs, CodesStep, CallsStep
  <2> QED
    BY <1>4, <2>1 DEF Inv, ReportsAreTrue, CallsStep
<1> QED
  BY <1>1, <1>2, <1>5 DEF Inv, CodesStep, LinksStep, CallsStep

\* What a step leaves alone, it steps in no wrong way.
LEMMA CodesStand == ASSUME Inv, UNCHANGED codes PROVE CodesStep
BY DEF Inv, CodesStep, CodesAreTyped

LEMMA LinksStand == ASSUME Inv, UNCHANGED links PROVE LinksStep
BY DEF Inv, LinksStep, LinksAreRows

LEMMA CallsStand == ASSUME Inv, UNCHANGED call PROVE CallsStep
BY DEF Inv, CallsStep, CallsAreTyped, Claimant, Reporter

\* Deleting rows deletes none that was redeemed.
LEMMA VoidTyped ==
    ASSUME Inv, NEW S
    PROVE  /\ Void(S) \in [Codes -> CodeRow \cup {UnusedCode}]
           /\ \A c \in Codes :
                  /\ codes[c].status = "redeemed" => Void(S)[c] = codes[c]
                  /\ Void(S)[c].status = "live" => Void(S)[c] = codes[c]
<1>1. ASSUME NEW c \in Codes, codes[c].status = "live"
      PROVE  /\ [codes[c] EXCEPT !.status = "void"] \in CodeRow
             /\ [codes[c] EXCEPT !.status = "void"].status = "void"
  <2>1. codes[c] \in CodeRow
    BY <1>1 DEF Inv, CodesAreTyped, UnusedCode
  <2> QED
    BY <2>1, ZenonT(30) DEF CodeRow
<1> QED
  BY <1>1 DEF Void, Inv, CodesAreTyped

\* What is deleted is live no more.
LEMMA VoidEnds ==
    ASSUME Inv, NEW S, NEW c \in Codes, c \in S
    PROVE  Void(S)[c].status # "live"
<1>1. CASE codes[c].status = "live"
  <2>1. codes[c] \in CodeRow
    BY <1>1 DEF Inv, CodesAreTyped, UnusedCode
  <2>2. [codes[c] EXCEPT !.status = "void"].status = "void"
    BY <2>1, ZenonT(30) DEF CodeRow
  <2> QED
    BY <1>1, <2>2 DEF Void
<1> QED
  BY <1>1 DEF Void

\* A step that only deletes rows is therefore one that redeems nothing anew.
LEMMA VoidStep ==
    ASSUME Inv, NEW S, codes' = Void(S)
    PROVE  CodesStep
BY VoidTyped DEF CodesStep, CodesAreTyped

\* One code row is rewritten.
LEMMA RowStep ==
    ASSUME Inv, NEW c \in Codes, NEW row \in CodeRow, codes' = [codes EXCEPT ![c] = row],
           codes[c].status = "redeemed" => row.status = "redeemed" /\ row.user = codes[c].user,
           row.status = "live" => codes[c].status = "live" /\ row.user = codes[c].user
    PROVE  CodesStep
BY DEF CodesStep, Inv, CodesAreTyped

\* A handler at rest is a well-formed one.
LEMMA NoCallTyped == NoCall \in Call
BY DEF NoCall, Call, Phases

\* A handler goes on as another record.
LEMMA CallStep ==
    ASSUME Inv, NEW t \in Tasks, NEW r \in Call, call' = [call EXCEPT ![t] = r],
           r.phase \notin {"claim", "report"}, Carries(r)
    PROVE  CallsStep
BY DEF CallsStep, Inv, CallsAreTyped, Claimant, Reporter

\* A handler that returns claims nothing.
LEMMA ReturnsStep ==
    ASSUME Inv, NEW t \in Tasks, Returns(t)
    PROVE  CallsStep
<1>1. NoCall.phase = "idle"
  BY DEF NoCall
<1> QED
  BY <1>1, NoCallTyped, CallStep DEF Returns, Carries

\* A handler that goes on to a phase other than the two of a claim claims nothing.
LEMMA GoesStep ==
    ASSUME Inv, NEW t \in Tasks, NEW phase \in Phases \ {"claim", "consume", "report"}, Goes(t, phase),
           phase \in {"findOld", "deleteOld", "insert"} => call[t].user \in Users
    PROVE  CallsStep
<1> DEFINE r == [call[t] EXCEPT !.phase = phase]
<1>1. call[t] \in Call
  BY DEF Inv, CallsAreTyped
<1>2. r \in Call /\ r.phase = phase /\ r.user = call[t].user
  BY <1>1, ZenonT(30) DEF Call
<1>3. call' = [call EXCEPT ![t] = r]
  BY DEF Goes
<1> HIDE DEF r
<1> QED
  BY <1>2, <1>3, CallStep DEF Carries

-----------------------------------------------------------------------------
(* Every step keeps the invariant *)

\* No code has been drawn and nobody is at work.
LEMMA InitHolds == ASSUME MessagingInit PROVE Inv
<1>1. CallsAreTyped /\ ClaimsAreTheirs
  BY NoCallTyped DEF MessagingInit, CallsAreTyped, Carries, ClaimsAreTheirs, Claimant, NoCall
<1>2. CodesAreTyped /\ LinksAreRows /\ CodeLinksOnce
  BY MessagingAssumption DEF MessagingInit, CodesAreTyped, LinksAreRows, CodeLinksOnce
<1>3. ReportsAreTrue
  BY DEF MessagingInit, ReportsAreTrue, Claimant, Reporter, NoCall
<1> QED
  BY <1>1, <1>2, <1>3 DEF Inv

\* A code is shown, rotated, drawn.
LEMMA RegenerationIsQuiet ==
    ASSUME Inv, NEW t \in Tasks,
           \/ \E u \in Users : CurrentCode(t, u) \/ RegenerateCode(t, u)
           \/ ReplaceAll(t) \/ FindOld(t) \/ DeleteOld(t)
           \/ \E c \in Codes : PutNewCode(t, c)
    PROVE  Quiet
<1>1. CASE \E u \in Users : CurrentCode(t, u) \/ RegenerateCode(t, u)
  <2>1. PICK u \in Users : Regenerates(t, u)
    BY <1>1 DEF CurrentCode, RegenerateCode
  <2> DEFINE r == [NoCall EXCEPT !.phase = "findOld", !.user = u]
  <2>2. r \in Call /\ r.phase = "findOld" /\ r.user \in Users
    BY DEF NoCall, Call, Phases
  <2>3. call' = [call EXCEPT ![t] = r]
    BY <2>1 DEF Regenerates
  <2> HIDE DEF r
  <2>4. CallsStep
    BY <2>2, <2>3, CallStep DEF Carries
  <2> QED
    BY <1>1, <2>4, CodesStand, LinksStand DEF Quiet, CurrentCode, RegenerateCode
<1>2. CASE ReplaceAll(t)
  <2>1. call[t].user \in Users
    BY <1>2 DEF ReplaceAll, Inv, CallsAreTyped, Carries
  <2> QED
    BY <1>2, <2>1, VoidStep, LinksStand, GoesStep DEF Quiet, ReplaceAll, Phases
<1>3. CASE FindOld(t)
  <2>1. PICK c \in Codes \cup {NoCode} :
          call' = [call EXCEPT ![t].phase = IF c = NoCode THEN "insert" ELSE "deleteOld",
                               ![t].code = c]
    BY <1>3 DEF FindOld
  <2> DEFINE phase == IF c = NoCode THEN "insert" ELSE "deleteOld"
             r == [call[t] EXCEPT !.phase = phase, !.code = c]
  <2>2. phase \in Phases \ {"claim", "consume", "report"}
    BY DEF Phases
  <2>3. call[t] \in Call /\ call[t].user \in Users
    BY <1>3 DEF FindOld, Inv, CallsAreTyped, Carries
  <2>4. call' = [call EXCEPT ![t] = r]
    BY <2>1
  <2> HIDE DEF phase
  <2>5. r \in Call /\ r.phase = phase /\ r.user = call[t].user
    BY <2>2, <2>3, ZenonT(30) DEF Call
  <2> HIDE DEF r
  <2>6. CallsStep
    BY <2>2, <2>3, <2>4, <2>5, CallStep DEF Carries
  <2> QED
    BY <1>3, <2>6, CodesStand, LinksStand DEF Quiet, FindOld
<1>4. CASE DeleteOld(t)
  <2>1. call[t].user \in Users
    BY <1>4 DEF DeleteOld, Inv, CallsAreTyped, Carries
  <2> QED
    BY <1>4, <2>1, VoidStep, LinksStand, GoesStep DEF Quiet, DeleteOld, Phases
<1>5. CASE \E c \in Codes : PutNewCode(t, c)
  <2>1. PICK c \in Codes : PutNewCode(t, c)
    BY <1>5
  <2> DEFINE swept == IF store = "postgres"
                      THEN Void({d \in Codes : ~codes[d].fresh}) ELSE codes
             row == [status |-> "live", user |-> call[t].user, fresh |-> TRUE,
                     listed |-> store = "postgres"]
  <2>2. codes' = [swept EXCEPT ![c] = row] /\ codes[c].status = "unused"
    BY <2>1 DEF PutNewCode
  <2>3. row \in CodeRow
    <3>1. call[t].user \in Users
      BY <2>1 DEF PutNewCode, Inv, CallsAreTyped, Carries
    <3> QED
      BY <3>1 DEF CodeRow
  <2>4. /\ swept \in [Codes -> CodeRow \cup {UnusedCode}]
        /\ \A d \in Codes :
               /\ codes[d].status = "redeemed" => swept[d] = codes[d]
               /\ swept[d].status = "live" => swept[d] = codes[d]
    BY VoidTyped DEF Inv, CodesAreTyped
  <2>5. row.user \in passed => c \in excused'
    BY <2>1 DEF PutNewCode
  <2> HIDE DEF swept, row
  <2>6. CodesStep
    BY <2>2, <2>3, <2>4, <2>5 DEF CodesStep, CodesAreTyped
  <2> QED
    BY <2>1, <2>6, LinksStand, ReturnsStep DEF Quiet, PutNewCode
<1> QED
  BY <1>1, <1>2, <1>3, <1>4, <1>5

\* A row expires, is swept, is listed.
LEMMA TimeIsQuiet ==
    ASSUME Inv, NEW c \in Codes, CodeExpires(c) \/ CodeSwept(c) \/ CodeListed(c)
    PROVE  Quiet
<1>1. codes[c] \in CodeRow /\ codes[c].status \in {"live", "redeemed"}
  BY DEF CodeExpires, CodeSwept, CodeListed, Inv, CodesAreTyped, UnusedCode
<1>2. PICK row \in CodeRow :
        /\ codes' = [codes EXCEPT ![c] = row]
        /\ codes[c].status = "redeemed" => row.status = "redeemed" /\ row.user = codes[c].user
        /\ row.status = "live" => codes[c].status = "live" /\ row.user = codes[c].user
  <2>1. CASE CodeExpires(c)
    <3> DEFINE row == [codes[c] EXCEPT !.fresh = FALSE]
    <3>1. row \in CodeRow /\ row.status = codes[c].status /\ row.user = codes[c].user
      BY <1>1, ZenonT(30) DEF CodeRow
    <3>2. codes' = [codes EXCEPT ![c] = row]
      BY <2>1 DEF CodeExpires
    <3> HIDE DEF row
    <3> QED
      BY <3>1, <3>2
  <2>2. CASE CodeSwept(c)
    <3> DEFINE row == [codes[c] EXCEPT !.status = "void"]
    <3>1. row \in CodeRow /\ row.status = "void"
      BY <1>1, ZenonT(30) DEF CodeRow
    <3>2. codes' = [codes EXCEPT ![c] = row] /\ codes[c].status = "live"
      BY <2>2 DEF CodeSwept
    <3> HIDE DEF row
    <3> QED
      BY <3>1, <3>2
  <2>3. CASE CodeListed(c)
    <3> DEFINE row == [codes[c] EXCEPT !.listed = TRUE]
    <3>1. row \in CodeRow /\ row.status = codes[c].status /\ row.user = codes[c].user
      BY <1>1, ZenonT(30) DEF CodeRow
    <3>2. codes' = [codes EXCEPT ![c] = row]
      BY <2>3 DEF CodeListed
    <3> HIDE DEF row
    <3> QED
      BY <3>1, <3>2
  <2> QED
    BY <2>1, <2>2, <2>3
<1>3. CodesStep
  BY <1>2, RowStep
<1> QED
  BY <1>3, LinksStand, CallsStand DEF Quiet, CodeExpires, CodeSwept, CodeListed

\* A claim or a purge is called, a link is taken away by its owner, a call ends.
LEMMA CallsAreQuiet ==
    ASSUME Inv, NEW t \in Tasks,
           \/ \E c \in Codes, i \in Identities : CreateLink(t, c, i)
           \/ \E u \in Users : Purge(t, u)
           \/ \E u \in Users, i \in Identities : DeleteLink(t, u, i)
           \/ PurgeReturns(t) \/ CallStops(t)
    PROVE  Quiet
<1>1. CASE \E c \in Codes, i \in Identities : CreateLink(t, c, i)
  <2>1. PICK c \in Codes, i \in Identities : CreateLink(t, c, i)
    BY <1>1
  <2> DEFINE r == [NoCall EXCEPT !.phase = "consume", !.code = c, !.identity = i]
  <2>2. r \in Call /\ Carries(r) /\ r.phase = "consume"
    BY DEF NoCall, Call, Phases, Carries
  <2>3. call' = [call EXCEPT ![t] = r]
    BY <2>1 DEF CreateLink
  <2> HIDE DEF r
  <2> QED
    BY <2>1, <2>2, <2>3, CallStep, CodesStand, LinksStand DEF Quiet, CreateLink
<1>2. CASE \E u \in Users : Purge(t, u)
  <2>1. PICK u \in Users : Purge(t, u)
    BY <1>2
  <2> DEFINE r == [NoCall EXCEPT !.phase = "findPurged", !.user = u]
  <2>2. r \in Call /\ Carries(r) /\ r.phase = "findPurged"
    BY DEF NoCall, Call, Phases, Carries
  <2>3. call' = [call EXCEPT ![t] = r]
    BY <2>1 DEF Purge
  <2> HIDE DEF r
  <2> QED
    BY <2>1, <2>2, <2>3, CallStep, CodesStand, LinksStand DEF Quiet, Purge
<1>3. CASE \E u \in Users, i \in Identities : DeleteLink(t, u, i)
  <2>1. LinksStep
    BY <1>3 DEF DeleteLink, LinksStep, LinksAreRows, Inv
  <2> QED
    BY <1>3, <2>1, CodesStand, CallsStand DEF Quiet, DeleteLink
<1>4. CASE PurgeReturns(t) \/ CallStops(t)
  BY <1>4, ReturnsStep, CodesStand, LinksStand DEF Quiet, PurgeReturns, CallStops
<1> QED
  BY <1>1, <1>2, <1>3, <1>4

\* The codes and links of a departing user are deleted.
LEMMA PurgeIsQuiet ==
    ASSUME Inv, NEW t \in Tasks,
           \/ PurgeCodes(t) \/ FindPurged(t) \/ PurgeCode(t) \/ PurgeLinks(t) \/ ListLinks(t)
           \/ \E i \in Identities : DropLink(t, i)
    PROVE  Quiet
<1>1. call[t] \in Call
  BY DEF Inv, CallsAreTyped
<1>2. CASE PurgeCodes(t) \/ PurgeCode(t)
  BY <1>2, VoidStep, LinksStand, GoesStep DEF Quiet, PurgeCodes, PurgeCode, Phases
<1>3. CASE FindPurged(t)
  <2>1. PICK c \in Codes \cup {NoCode} :
          call' = [call EXCEPT ![t].phase = IF c = NoCode THEN "listLinks" ELSE "purgeCode",
                               ![t].code = c]
    BY <1>3 DEF FindPurged
  <2> DEFINE phase == IF c = NoCode THEN "listLinks" ELSE "purgeCode"
             r == [call[t] EXCEPT !.phase = phase, !.code = c]
  <2>2. phase \in {"listLinks", "purgeCode"} /\ phase \in Phases
    BY DEF Phases
  <2>3. call' = [call EXCEPT ![t] = r]
    BY <2>1
  <2> HIDE DEF phase
  <2>4. r \in Call /\ r.phase = phase
    BY <1>1, <2>2, ZenonT(30) DEF Call
  <2> HIDE DEF r
  <2>5. CallsStep
    BY <2>2, <2>3, <2>4, CallStep DEF Carries
  <2> QED
    BY <1>3, <2>5, CodesStand, LinksStand DEF Quiet, FindPurged
<1>4. CASE PurgeLinks(t)
  <2>1. LinksStep
    BY <1>4 DEF PurgeLinks, LinksStep, LinksAreRows, Inv
  <2> QED
    BY <1>4, <2>1, CodesStand, GoesStep DEF Quiet, PurgeLinks, Phases
<1>5. CASE ListLinks(t)
  <2> DEFINE seen == {i \in HeldBy(call[t].user) : codes[links[i]].listed}
             phase == IF seen = {} THEN "purged" ELSE "dropLinks"
             r == [call[t] EXCEPT !.phase = phase, !.left = seen]
  <2>1. phase \in {"purged", "dropLinks"} /\ phase \in Phases /\ seen \in SUBSET Identities
    BY DEF Phases, HeldBy
  <2>2. call' = [call EXCEPT ![t] = r]
    BY <1>5 DEF ListLinks
  <2> HIDE DEF phase, seen
  <2>3. r \in Call /\ r.phase = phase
    BY <1>1, <2>1, ZenonT(30) DEF Call
  <2> HIDE DEF r
  <2>4. CallsStep
    BY <2>1, <2>2, <2>3, CallStep DEF Carries
  <2> QED
    BY <1>5, <2>4, CodesStand, LinksStand DEF Quiet, ListLinks
<1>6. CASE \E i \in Identities : DropLink(t, i)
  <2>1. PICK i \in Identities : DropLink(t, i)
    BY <1>6
  <2> DEFINE phase == IF call[t].left = {i} THEN "purged" ELSE "dropLinks"
             rest == call[t].left \ {i}
             r == [call[t] EXCEPT !.left = rest, !.phase = phase]
  <2>2. phase \in {"purged", "dropLinks"} /\ phase \in Phases /\ rest \in SUBSET Identities
    BY <1>1 DEF Phases, Call
  <2>3. call' = [call EXCEPT ![t] = r]
    BY <2>1, <1>1 DEF DropLink, Call
  <2> HIDE DEF phase, rest
  <2>4. r \in Call /\ r.phase = phase
    BY <1>1, <2>2, ZenonT(30) DEF Call
  <2> HIDE DEF r
  <2>5. CallsStep
    BY <2>2, <2>3, <2>4, CallStep DEF Carries
  <2>6. LinksStep
    BY <2>1 DEF DropLink, LinksStep, LinksAreRows, Inv
  <2> QED
    BY <2>1, <2>5, <2>6, CodesStand DEF Quiet, DropLink
<1> QED
  BY <1>2, <1>3, <1>4, <1>5, <1>6

\* A code is redeemed by the one handler that finds it live: whoever holds a redeemed code found it so
\* earlier, and no identity has a code that is live.
LEMMA ConsumeKeeps ==
    ASSUME Inv, NEW t \in Tasks, ConsumeCode(t)
    PROVE  Inv'
<1> DEFINE c == call[t].code
<1>1. call[t] \in Call /\ c \in Codes /\ call[t].identity \in Identities
  BY DEF ConsumeCode, Inv, CallsAreTyped, Carries
<1>2. CASE codes[c].status = "live" /\ codes[c].fresh
  <2> DEFINE row == [codes[c] EXCEPT !.status = "redeemed"]
             user == codes[c].user
             r == [call[t] EXCEPT !.phase = "claim", !.user = user]
  <2>1. /\ codes' = [codes EXCEPT ![c] = row]
        /\ call' = [call EXCEPT ![t] = r]
        /\ UNCHANGED <<links, told>>
    BY <1>2 DEF ConsumeCode
  <2>2. codes[c] \in CodeRow
    BY <1>1, <1>2 DEF Inv, CodesAreTyped, UnusedCode
  <2>3. row \in CodeRow /\ row.status = "redeemed" /\ row.user = user
    BY <2>2, ZenonT(30) DEF CodeRow
  <2>4. user \in Users
    BY <2>2 DEF CodeRow
  <2> HIDE DEF row, user
  <2>5. /\ r \in Call
        /\ r.phase = "claim" /\ r.code = c /\ r.identity = call[t].identity /\ r.user = user
    <3>1. "claim" \in Phases
      BY DEF Phases
    <3> QED
      BY <1>1, <2>4, <3>1, ZenonT(30) DEF Call
  <2>6. Carries(r)
    BY <1>1, <2>5 DEF Carries
  <2> HIDE DEF r
  <2>7. CodesStep
    BY <1>1, <1>2, <2>1, <2>3, RowStep
  <2>8. CallsAreTyped'
    BY <2>1, <2>5, <2>6 DEF Inv, CallsAreTyped
  <2>9. ClaimsAreTheirs'
    <3>1. /\ Claimant(t)' /\ call'[t].code = c
          /\ \A other \in Tasks : other # t => call'[other] = call[other]
      BY <2>1, <2>5 DEF Claimant, Inv, CallsAreTyped
    <3>2. \A other \in Tasks : Claimant(other) => call[other].code # c
      BY <1>2 DEF Inv, ClaimsAreTheirs
    <3>3. \A i \in Identities : links[i] # c
      BY <1>1, <1>2, MessagingAssumption DEF Inv, CodeLinksOnce
    <3>4. codes'[c].status = "redeemed"
      BY <1>1, <2>1, <2>3 DEF Inv, CodesAreTyped
    <3> HIDE DEF c
    <3> QED
      BY <1>1, <2>1, <2>7, <3>1, <3>2, <3>3, <3>4
      DEF Inv, ClaimsAreTheirs, Claimant, CodesStep
  <2>10. CodeLinksOnce'
    BY <2>1, <2>7 DEF Inv, CodeLinksOnce, CodesStep, LinksAreRows
  <2>11. ReportsAreTrue'
    <3>1. /\ \A s \in Tasks : s # t => call'[s] = call[s]
          /\ call'[t] = r
          /\ codes'[c].user = user
      BY <1>1, <2>1, <2>3 DEF Inv, CallsAreTyped, CodesAreTyped
    <3>2. \A x : Lost(x) => x # c
      BY <1>2 DEF Lost
    <3> HIDE DEF c
    <3>3. \A x : Lost(x) => Lost(x)'
      BY <2>1, <2>5, <2>7, <3>1, <3>2 DEF Lost, Claimant, CodesStep
    <3>4. \A x, y : LostTo(x, y) => LostTo(x, y)'
      BY <2>7, <3>3 DEF LostTo, Lost, CodesStep
    <3>5. \A s \in Tasks : Claimant(s)' => call'[s].user = codes'[call'[s].code].user
      BY <2>5, <2>7, <3>1 DEF Inv, ReportsAreTrue, ClaimsAreTheirs, Claimant, CodesStep
    <3>6. \A s \in Tasks : Reporter(s)' => Reporter(s) /\ call'[s] = call[s]
      BY <2>5, <3>1 DEF Reporter
    <3> QED
      BY <2>1, <3>4, <3>5, <3>6 DEF Inv, ReportsAreTrue
  <2> QED
    BY <2>1, <2>7, <2>8, <2>9, <2>10, <2>11 DEF Inv, CodesStep, LinksAreRows
<1>3. CASE ~(codes[c].status = "live" /\ codes[c].fresh)
  BY <1>3, VoidStep, LinksStand, ReturnsStep, QuietStep DEF Quiet, ConsumeCode
<1> QED
  BY <1>2, <1>3

\* A claim may only show its code in the index.
LEMMA ClaimLists ==
    ASSUME Inv, NEW t \in Tasks, ClaimIdentity(t)
    PROVE  CodesStep
<1> DEFINE c == call[t].code
           listed == (store = "postgres")
           row == [codes[c] EXCEPT !.listed = listed]
<1>1. c \in Codes /\ codes[c].status = "redeemed"
  BY DEF ClaimIdentity, Inv, CallsAreTyped, Carries, ClaimsAreTheirs, Claimant
<1>2. codes' = [codes EXCEPT ![c] = row]
  BY DEF ClaimIdentity
<1>3. codes[c] \in CodeRow
  BY <1>1 DEF Inv, CodesAreTyped, UnusedCode
<1>4. listed \in BOOLEAN
  OBVIOUS
<1> HIDE DEF listed
<1>5. row \in CodeRow /\ row.status = codes[c].status /\ row.user = codes[c].user
  BY <1>3, <1>4, ZenonT(30) DEF CodeRow
<1> HIDE DEF row
<1> QED
  BY <1>1, <1>2, <1>5, RowStep

\* A claim writes the link: its code was no identity's, and now is this one's alone.
LEMMA ClaimKeeps ==
    ASSUME Inv, NEW t \in Tasks, ClaimIdentity(t)
    PROVE  Inv'
<1> DEFINE c == call[t].code
           i == call[t].identity
           d == links[i]
<1>1. call[t] \in Call /\ c \in Codes /\ i \in Identities /\ Claimant(t)
  BY DEF ClaimIdentity, Claimant, Inv, CallsAreTyped, Carries
<1>2. /\ codes[c].status = "redeemed"
      /\ \A other \in Identities : links[other] # c
      /\ \A other \in Tasks : Claimant(other) /\ call[other].code = c => other = t
  BY <1>1 DEF Inv, ClaimsAreTheirs
<1>3. links' = [links EXCEPT ![i] = c]
  BY DEF ClaimIdentity
<1>4. CodesStep
  BY ClaimLists
<1>5. /\ CallsAreTyped' /\ ~Claimant(t)'
      /\ \A s \in Tasks : s # t => call'[s] = call[s]
      /\ Reporter(t)' => /\ call'[t].other = d /\ call'[t].code = c
                         /\ d \in Codes /\ codes[d].user # call[t].user
  <2>1. CASE Returns(t)
    BY <2>1, NoCallTyped DEF Returns, Claimant, Reporter, NoCall, Inv, CallsAreTyped, Carries
  <2>2. CASE /\ call' = [call EXCEPT ![t].phase = "report", ![t].other = d]
             /\ d \in Codes /\ codes[d].user # call[t].user
    <3> DEFINE r == [call[t] EXCEPT !.phase = "report", !.other = d]
    <3>1. call' = [call EXCEPT ![t] = r]
      BY <2>2
    <3>2. "report" \in Phases /\ d \in Codes \cup {NoCode}
      BY <2>2 DEF Phases
    <3> HIDE DEF d
    <3>3. r \in Call /\ r.phase = "report" /\ r.other = d /\ r.code = c
      BY <1>1, <3>2, ZenonT(30) DEF Call
    <3> HIDE DEF r, c
    <3> QED
      BY <2>2, <3>1, <3>3 DEF Carries, Claimant, Inv, CallsAreTyped
  <2> QED
    BY <1>1, <2>1, <2>2 DEF ClaimIdentity, Inv, LinksAreRows
<1>6. LinksAreRows' /\ CodeLinksOnce'
  BY <1>1, <1>2, <1>3, <1>4 DEF Inv, LinksAreRows, CodeLinksOnce, CodesStep
<1>7. \A s \in Tasks : Claimant(s)' =>
        s # t /\ Claimant(s) /\ call'[s] = call[s] /\ call[s].code # c
  <2>1. \A s \in Tasks : Claimant(s)' => s # t /\ Claimant(s) /\ call'[s] = call[s]
    BY <1>5 DEF Claimant
  <2> QED
    BY <1>2, <2>1
<1>8. ClaimsAreTheirs'
  <2> HIDE DEF c
  <2> QED
    BY <1>1, <1>3, <1>4, <1>7 DEF Inv, ClaimsAreTheirs, CodesStep, LinksAreRows
<1>9. \A x : Lost(x) => Lost(x)'
  <2>1. \A x : Lost(x) => x # c
    BY <1>1 DEF Lost
  <2> HIDE DEF c
  <2> QED
    BY <1>1, <1>3, <1>4, <1>7, <2>1 DEF Inv, Lost, CodesStep, LinksAreRows
<1>10. \A x, y : LostTo(x, y) => LostTo(x, y)'
  BY <1>4, <1>9 DEF LostTo, Lost, CodesStep
<1>11. ASSUME NEW x \in Codes, NEW y \in Codes, x = d, y = c, codes[d].user # call[t].user
       PROVE  /\ LostTo(x, y)'
              /\ \A p \in told : p[1] # x
              /\ \A other \in Tasks : Reporter(other) => call[other].other # x
  <2>1. codes[x].user # codes[y].user
    BY <1>1, <1>11 DEF Inv, ReportsAreTrue
  <2>2. codes[x].status = "redeemed" /\ codes[y].status = "redeemed" /\ x # y
    BY <1>1, <1>2, <1>11, MessagingAssumption DEF Inv, CodeLinksOnce
  <2>3. \A j \in Identities : links'[j] # x
    BY <1>1, <1>2, <1>3, <1>11, <2>2, MessagingAssumption DEF Inv, CodeLinksOnce, LinksAreRows
  <2>4. \A s \in Tasks : Claimant(s)' => call'[s].code # x
    BY <1>1, <1>7, <1>11 DEF Inv, ClaimsAreTheirs
  <2>5. ~Lost(x)
    BY <1>1, <1>11 DEF Lost
  <2>6. LostTo(x, y)'
    BY <1>4, <1>11, <2>1, <2>2, <2>3, <2>4 DEF LostTo, Lost, CodesStep
  <2> QED
    BY <2>5, <2>6 DEF Inv, ReportsAreTrue, LostTo
<1>12. ReportsAreTrue'
  <2>1. UNCHANGED told
    BY DEF ClaimIdentity
  <2>2. \A s \in Tasks : Claimant(s)' => call'[s].user = codes'[call'[s].code].user
    BY <1>4, <1>7 DEF Inv, ReportsAreTrue, ClaimsAreTheirs, CodesStep
  <2>3. \A s \in Tasks : Reporter(s)' /\ s # t => Reporter(s) /\ call'[s] = call[s]
    BY <1>5 DEF Reporter
  <2>4. CASE ~Reporter(t)'
    BY <1>10, <2>1, <2>2, <2>3, <2>4 DEF Inv, ReportsAreTrue
  <2>5. CASE Reporter(t)'
    <3>1. PICK x \in Codes, y \in Codes :
            x = d /\ y = c /\ codes[d].user # call[t].user /\ call'[t].other = x /\ call'[t].code = y
      BY <1>1, <1>5, <2>5
    <3> HIDE DEF c, d
    <3>2. /\ LostTo(x, y)'
          /\ \A p \in told : p[1] # x
          /\ \A other \in Tasks : Reporter(other) => call[other].other # x
      BY <1>11, <3>1
    <3> QED
      BY <1>10, <2>1, <2>2, <2>3, <3>1, <3>2 DEF Inv, ReportsAreTrue
  <2> QED
    BY <2>4, <2>5
<1> QED
  BY <1>4, <1>5, <1>6, <1>8, <1>12 DEF Inv, CodesStep

\* A loss is reported by its one reporter, who then is at rest.
LEMMA ReportKeeps ==
    ASSUME Inv, NEW t \in Tasks, ReportDisplaced(t)
    PROVE  Inv'
<1> DEFINE entry == <<call[t].other, call[t].code>>
<1>1. Reporter(t) /\ told' = told \cup {entry} /\ Returns(t) /\ UNCHANGED <<codes, links>>
  BY DEF ReportDisplaced, Reporter
<1>2. /\ \A s \in Tasks : s # t => call'[s] = call[s]
      /\ ~Claimant(t)' /\ ~Reporter(t)'
  BY <1>1 DEF Returns, NoCall, Claimant, Reporter, Inv, CallsAreTyped
<1>3. CallsStep
  BY <1>1, ReturnsStep
<1>4. CodesAreTyped' /\ LinksAreRows' /\ CodeLinksOnce' /\ ClaimsAreTheirs'
  BY <1>1, <1>3 DEF Inv, CodesAreTyped, LinksAreRows, CodeLinksOnce, ClaimsAreTheirs, CallsStep, Claimant
<1>5. \A x, y : LostTo(x, y) => LostTo(x, y)'
  BY <1>1, <1>3 DEF LostTo, Lost, CallsStep
<1>6. /\ \A s \in Tasks : Claimant(s)' => call'[s].user = codes'[call'[s].code].user
      /\ \A s \in Tasks : Reporter(s)' => s # t /\ Reporter(s) /\ call'[s] = call[s]
  BY <1>1, <1>2, <1>3 DEF Inv, ReportsAreTrue, CallsStep
<1>7. LostTo(entry[1], entry[2]) /\ \A p \in told : p[1] # entry[1]
  BY <1>1 DEF Inv, ReportsAreTrue
<1>8. \A s \in Tasks : Reporter(s)' => call'[s].other # entry[1]
  BY <1>1, <1>6 DEF Inv, ReportsAreTrue
<1> HIDE DEF entry
<1>9. ReportsAreTrue'
  BY <1>1, <1>5, <1>6, <1>7, <1>8 DEF Inv, ReportsAreTrue
<1> QED
  BY <1>3, <1>4, <1>9 DEF Inv, CallsStep

\* All actions together.
LEMMA StepKeeps ==
    ASSUME Inv, [MessagingNext]_messagingVars
    PROVE  Inv'
<1>1. CASE MessagingNext
  BY <1>1, RegenerationIsQuiet, TimeIsQuiet, CallsAreQuiet, PurgeIsQuiet, QuietStep, ConsumeKeeps,
      ClaimKeeps, ReportKeeps
  DEF MessagingNext, MessagingRequest, MessagingStep, MessagingTime
<1>2. CASE UNCHANGED messagingVars
  BY <1>2, CodesStand, LinksStand, CallsStand, QuietStep DEF Quiet, messagingVars
<1> QED
  BY <1>1, <1>2

(***************************************************************************)
(* A code links one identity, once: however regenerations, claims, purges  *)
(* and expiries of any number of users and handlers interleave, on both    *)
(* backends (consume_code, create_link).                                   *)
(***************************************************************************)
THEOREM CodesLinkOnce == MessagingSpec => []CodeLinksOnce
<1>1. Inv => CodeLinksOnce
  BY DEF Inv
<1> QED
  BY InitHolds, StepKeeps, <1>1, PTL DEF MessagingSpec

(***************************************************************************)
(* The audit trail names a displaced claim once and names the claim that   *)
(* displaced it, for any number of claims that arrive together (the write  *)
(* of create_link that returns whom it displaced).                         *)
(***************************************************************************)
THEOREM LossesAreToldOnce == MessagingSpec => []DisplacedIsToldOnce
<1>1. Inv => DisplacedIsToldOnce
  BY DEF Inv, ReportsAreTrue, LostTo, Lost, DisplacedIsToldOnce
<1> QED
  BY InitHolds, StepKeeps, <1>1, PTL DEF MessagingSpec

-----------------------------------------------------------------------------
(* Purges *)

PurgePhases == {"findPurged", "purgeCode", "listLinks", "dropLinks", "purged"}

\* A purge has been over the codes of u: what is left, or is being claimed with, it could not
\* have stopped.
CodesPurged(u) ==
    u \in passed /\ LiveCodes(u) \subseteq excused /\ Claiming(u) \subseteq excused

\* And it has been over the links.
Purged(u) == CodesPurged(u) /\ \A i \in HeldBy(u) : links[i] \in excused

\* What is true of a user by how far the purge r has come.
PurgeFine(r) ==
    /\ r.phase \in PurgePhases => r.user \in Users
    /\ r.phase = "purgeCode" =>
           r.user \in passed /\ LiveCodes(r.user) \subseteq excused \cup {r.code}
    /\ r.phase \in {"listLinks", "dropLinks", "purged"} => CodesPurged(r.user)
    /\ r.phase = "dropLinks" => \A i \in HeldBy(r.user) : links[i] \in excused \/ i \in r.left
    /\ r.phase = "purged" => Purged(r.user)

PurgesFine == \A t \in Tasks : PurgeFine(call[t])

\* What is excused once stays so.
HistoriesGrow == passed \subseteq passed' /\ excused \subseteq excused'

\* What a step may add for u: a code after a purge, a claim with a live code, a link of a claim.
CodesAdd(u) ==
    \A c \in Codes : codes'[c].status = "live" /\ codes'[c].user = u =>
        c \in LiveCodes(u) \/ (u \in passed => c \in excused')

ClaimsAdd(u) ==
    \A t \in Tasks : Claimant(t)' /\ call'[t].user = u /\ call'[t].code \in Codes =>
        call'[t].code \in Claiming(u) \cup LiveCodes(u)

LinksAdd(u) ==
    \A i \in Identities : links'[i] # NoCode /\ codes'[links'[i]].user = u =>
        (i \in HeldBy(u) /\ links'[i] = links[i]) \/ links'[i] \in Claiming(u)

Adds(u) == HistoriesGrow /\ CodesAdd(u) /\ ClaimsAdd(u) /\ LinksAdd(u)

LEMMA HistoriesOnlyGrow == ASSUME MessagingNext PROVE HistoriesGrow
<1> USE DEF HistoriesGrow
<1>1. ASSUME NEW t \in Tasks, MessagingRequest(t) PROVE HistoriesGrow
  BY <1>1 DEF MessagingRequest, CurrentCode, RegenerateCode, CreateLink, DeleteLink
<1>2. ASSUME NEW t \in Tasks, MessagingStep(t) PROVE HistoriesGrow
  BY <1>2 DEF MessagingStep, ReplaceAll, FindOld, DeleteOld, ConsumeCode, ClaimIdentity,
     ReportDisplaced, PurgeCodes, FindPurged, PurgeCode, PurgeLinks, ListLinks, PutNewCode, DropLink
<1>3. ASSUME NEW t \in Tasks, CallStops(t) \/ PurgeReturns(t) \/ \E u \in Users : Purge(t, u)
      PROVE  HistoriesGrow
  BY <1>3 DEF CallStops, PurgeReturns, Purge
<1>4. CASE MessagingTime
  BY <1>4 DEF MessagingTime, CodeExpires, CodeSwept, CodeListed
<1> QED
  BY <1>1, <1>2, <1>3, <1>4 DEF MessagingNext

\* A link row is a redeemed code, whose user does not change.
LEMMA LinksKeepUsers ==
    ASSUME Inv, CodesStep, NEW i \in Identities, links[i] # NoCode
    PROVE  codes'[links[i]].user = codes[links[i]].user
BY DEF Inv, LinksAreRows, CodeLinksOnce, CodesStep

LEMMA CodesOnlyAdd == ASSUME Inv, CodesStep, NEW u \in Users PROVE CodesAdd(u)
BY DEF CodesStep, CodesAdd, LiveCodes

LEMMA ClaimsOnlyAdd == ASSUME Inv, CallsStep, NEW u \in Users PROVE ClaimsAdd(u)
BY DEF CallsStep, ClaimsAdd, Claiming, Claimant

LEMMA LinksOnlyAdd == ASSUME Inv, CodesStep, LinksStep, NEW u \in Users PROVE LinksAdd(u)
BY LinksKeepUsers DEF LinksStep, LinksAdd, HeldBy

\* A claim redeems a live code of its user.
LEMMA ConsumeAdds ==
    ASSUME Inv, NEW t \in Tasks, ConsumeCode(t), NEW u \in Users
    PROVE  CodesAdd(u) /\ ClaimsAdd(u) /\ LinksAdd(u)
<1> PICK c : c = call[t].code
  OBVIOUS
<1>1. c \in Codes /\ call[t] \in Call
  BY DEF ConsumeCode, Inv, CallsAreTyped, Carries
<1>2. LinksStep
  BY LinksStand DEF ConsumeCode
<1>3. CASE codes[c].status = "live" /\ codes[c].fresh
  <2> PICK old : old = codes[c]
    OBVIOUS
  <2> PICK row : row = [old EXCEPT !.status = "redeemed"]
    OBVIOUS
  <2>1. old \in CodeRow
    BY <1>1, <1>3 DEF Inv, CodesAreTyped, UnusedCode
  <2>2. row \in CodeRow /\ row.status = "redeemed" /\ row.user = old.user
    BY <2>1, ZenonT(30) DEF CodeRow
  <2> PICK r : r = [call[t] EXCEPT !.phase = "claim", !.user = old.user]
    OBVIOUS
  <2>3. codes' = [codes EXCEPT ![c] = row] /\ call' = [call EXCEPT ![t] = r]
    BY <1>3 DEF ConsumeCode
  <2>4. r.user = old.user /\ r.code = c
    BY <1>1 DEF Call
  <2>5. CodesStep
    BY <1>1, <1>3, <2>2, <2>3, RowStep
  <2>6. call'[t] = r /\ \A s \in Tasks : s # t => call'[s] = call[s]
    BY <2>3 DEF Inv, CallsAreTyped
  <2>7. ClaimsAdd(u)
    <3> SUFFICES ASSUME NEW s \in Tasks, Claimant(s)', call'[s].user = u, call'[s].code \in Codes
                 PROVE  call'[s].code \in Claiming(u) \cup LiveCodes(u)
      BY DEF ClaimsAdd
    <3>1. CASE s = t
      BY <1>1, <1>3, <2>4, <2>6, <3>1 DEF LiveCodes
    <3>2. CASE s # t
      BY <2>6, <3>2 DEF Claiming, Claimant
    <3> QED
      BY <3>1, <3>2
  <2> QED
    BY <1>2, <2>5, <2>7, CodesOnlyAdd, LinksOnlyAdd
<1>4. CASE ~(codes[c].status = "live" /\ codes[c].fresh)
  <2>1. CodesStep /\ CallsStep
    BY <1>4, VoidStep, ReturnsStep DEF ConsumeCode
  <2> QED
    BY <1>2, <2>1, CodesOnlyAdd, ClaimsOnlyAdd, LinksOnlyAdd
<1> QED
  BY <1>3, <1>4

\* A claim links the code it holds, of its user.
LEMMA ClaimAdds ==
    ASSUME Inv, NEW t \in Tasks, ClaimIdentity(t), NEW u \in Users
    PROVE  CodesAdd(u) /\ ClaimsAdd(u) /\ LinksAdd(u)
<1> PICK c : c = call[t].code
  OBVIOUS
<1>1. /\ c \in Codes /\ call[t] \in Call /\ Claimant(t)
      /\ codes[c].status = "redeemed" /\ codes[c].user = call[t].user
  BY DEF ClaimIdentity, Inv, CallsAreTyped, Carries, ClaimsAreTheirs, Claimant, ReportsAreTrue
<1>2. CodesStep /\ codes'[c].user = codes[c].user
  BY <1>1, ClaimLists DEF CodesStep
<1>3. c \in Claiming(codes[c].user)
  BY <1>1 DEF Claiming, Claimant
<1>4. LinksAdd(u)
  <2> SUFFICES ASSUME NEW i \in Identities, links'[i] # NoCode, codes'[links'[i]].user = u
               PROVE  (i \in HeldBy(u) /\ links'[i] = links[i]) \/ links'[i] \in Claiming(u)
    BY DEF LinksAdd
  <2>1. links'[i] = c \/ links'[i] = links[i]
    BY DEF ClaimIdentity, Inv, LinksAreRows
  <2> QED
    BY <1>2, <1>3, <2>1, LinksKeepUsers DEF HeldBy
<1>5. \A s \in Tasks : Claimant(s)' => Claimant(s) /\ call'[s] = call[s]
  <2>1. call'[t].phase # "claim"
    BY <1>1 DEF ClaimIdentity, Returns, NoCall, Inv, CallsAreTyped, Call
  <2>2. \A s \in Tasks : s # t => call'[s] = call[s]
    BY DEF ClaimIdentity, Returns, Inv, CallsAreTyped
  <2> QED
    BY <2>1, <2>2 DEF Claimant
<1> QED
  BY <1>2, <1>4, <1>5, CodesOnlyAdd DEF ClaimsAdd, Claiming, Claimant

LEMMA StepAdds == ASSUME Inv, MessagingNext, NEW u \in Users PROVE Adds(u)
<1>1. ASSUME CodesStep, LinksStep, CallsStep PROVE Adds(u)
  BY <1>1, HistoriesOnlyGrow, CodesOnlyAdd, ClaimsOnlyAdd, LinksOnlyAdd DEF Adds
<1>2. ASSUME NEW t \in Tasks, ConsumeCode(t) \/ ClaimIdentity(t) PROVE Adds(u)
  BY <1>2, HistoriesOnlyGrow, ConsumeAdds, ClaimAdds DEF Adds
<1>3. ASSUME NEW t \in Tasks, ReportDisplaced(t) PROVE Adds(u)
  BY <1>1, <1>3, CodesStand, LinksStand, ReturnsStep DEF ReportDisplaced
<1>4. ASSUME Quiet PROVE Adds(u)
  BY <1>1, <1>4 DEF Quiet
<1> QED
  BY <1>2, <1>3, <1>4, RegenerationIsQuiet, TimeIsQuiet, CallsAreQuiet, PurgeIsQuiet
  DEF MessagingNext, MessagingRequest, MessagingStep, MessagingTime

\* What a purge has been over stays purged, whatever comes.
LEMMA CodesStayPurged ==
    ASSUME Inv, NEW u \in Users, Adds(u), CodesPurged(u), CallsAreTyped'
    PROVE  CodesPurged(u)'
<1>1. u \in passed' /\ LiveCodes(u)' \subseteq excused'
  BY DEF Adds, HistoriesGrow, CodesAdd, CodesPurged, LiveCodes
<1>2. ASSUME NEW c \in Codes, NEW t \in Tasks, Claimant(t)', call'[t].user = u, call'[t].code = c
      PROVE  c \in excused'
  BY <1>2 DEF Adds, HistoriesGrow, ClaimsAdd, CodesPurged
<1>3. Claiming(u)' \subseteq excused'
  BY <1>2 DEF Claiming, Claimant
<1> QED
  BY <1>1, <1>3 DEF CodesPurged

LEMMA StaysPurged ==
    ASSUME Inv, MessagingNext, NEW u \in Users, Purged(u)
    PROVE  Purged(u)'
<1>1. Adds(u) /\ CallsAreTyped'
  BY StepAdds, StepKeeps DEF Inv
<1>2. CodesPurged(u)'
  BY <1>1, CodesStayPurged DEF Purged
<1>3. \A i \in HeldBy(u)' : links'[i] \in excused'
  BY <1>1 DEF Purged, CodesPurged, Adds, LinksAdd, HistoriesGrow, HeldBy
<1> QED
  BY <1>2, <1>3 DEF Purged

LEMMA PurgedForGood ==
    ASSUME Inv, [MessagingNext]_messagingVars, NEW u \in Users, Purged(u)
    PROVE  Purged(u)'
<1>1. CASE UNCHANGED messagingVars
  BY <1>1 DEF messagingVars, Purged, CodesPurged, LiveCodes, Claiming, HeldBy
<1> QED
  BY <1>1, StaysPurged

\* A purge that waits is as far as it was.
LEMMA PurgeWaits ==
    ASSUME Inv, MessagingNext, NEW t \in Tasks, PurgeFine(call[t]), call'[t] = call[t]
    PROVE  PurgeFine(call[t])'
<1> PICK r : r = call[t]
  OBVIOUS
<1>1. CASE r.phase \in PurgePhases
  <2> PICK u : u = r.user
    OBVIOUS
  <2>1. u \in Users
    BY <1>1 DEF PurgeFine
  <2>2. Adds(u) /\ CallsAreTyped'
    BY <2>1, StepAdds, StepKeeps DEF Inv
  <2>3. r.phase = "purgeCode" => u \in passed' /\ LiveCodes(u)' \subseteq excused' \cup {r.code}
    BY <2>2 DEF PurgeFine, Adds, CodesAdd, HistoriesGrow, LiveCodes
  <2>4. CodesPurged(u) => CodesPurged(u)'
    BY <2>1, <2>2, CodesStayPurged
  <2>5. Purged(u) => Purged(u)'
    BY <2>1, StaysPurged
  <2>6. r.phase = "dropLinks" => \A i \in HeldBy(u)' : links'[i] \in excused' \/ i \in r.left
    BY <2>2 DEF PurgeFine, CodesPurged, Adds, LinksAdd, HistoriesGrow, HeldBy
  <2> QED
    BY <2>1, <2>3, <2>4, <2>5, <2>6 DEF PurgeFine
<1>2. CASE r.phase \notin PurgePhases
  BY <1>2 DEF PurgeFine, PurgePhases
<1> QED
  BY <1>1, <1>2

\* The handler t moves on as the record r.
MovesTo(t, r) == call'[t] = r /\ \A s \in Tasks : s # t => call'[s] = call[s]

LEMMA MovesAs ==
    ASSUME Inv, NEW t \in Tasks, NEW r, call' = [call EXCEPT ![t] = r]
    PROVE  MovesTo(t, r)
BY DEF MovesTo, Inv, CallsAreTyped

LEMMA GoesOn ==
    ASSUME Inv, NEW t \in Tasks, NEW phase, Goes(t, phase)
    PROVE  /\ MovesTo(t, call'[t])
           /\ call'[t].phase = phase /\ call'[t].user = call[t].user
           /\ call'[t].left = call[t].left
<1> PICK r : r = [call[t] EXCEPT !.phase = phase]
  OBVIOUS
<1>1. r.phase = phase /\ r.user = call[t].user /\ r.left = call[t].left
  BY DEF Inv, CallsAreTyped, Call
<1>2. MovesTo(t, r)
  BY MovesAs DEF Goes
<1> QED
  BY <1>1, <1>2 DEF MovesTo

LEMMA GoesHome ==
    ASSUME Inv, NEW t \in Tasks, Returns(t)
    PROVE  MovesTo(t, call'[t]) /\ call'[t].phase \notin PurgePhases
<1>1. MovesTo(t, NoCall)
  BY MovesAs DEF Returns
<1>2. NoCall.phase \notin PurgePhases
  BY DEF NoCall, PurgePhases
<1> QED
  BY <1>1, <1>2 DEF MovesTo

\* The other handlers are in no phase of a purge.
LEMMA OthersPurgeNothing ==
    ASSUME Inv, NEW t \in Tasks,
           \/ \E u \in Users : CurrentCode(t, u) \/ RegenerateCode(t, u)
           \/ \E c \in Codes, i \in Identities : CreateLink(t, c, i)
           \/ ReplaceAll(t) \/ FindOld(t) \/ DeleteOld(t)
           \/ ConsumeCode(t) \/ ClaimIdentity(t) \/ ReportDisplaced(t)
           \/ \E c \in Codes : PutNewCode(t, c)
           \/ PurgeReturns(t) \/ CallStops(t)
    PROVE  MovesTo(t, call'[t]) /\ call'[t].phase \notin PurgePhases
<1> USE DEF PurgePhases
<1>0. call[t] \in Call
  BY DEF Inv, CallsAreTyped
<1>1. ASSUME NEW r, call' = [call EXCEPT ![t] = r], r.phase \notin PurgePhases
      PROVE  MovesTo(t, call'[t]) /\ call'[t].phase \notin PurgePhases
  BY <1>1, MovesAs DEF MovesTo
<1>2. ASSUME NEW u \in Users, Regenerates(t, u)
      PROVE  MovesTo(t, call'[t]) /\ call'[t].phase \notin PurgePhases
  <2> PICK r : r = [NoCall EXCEPT !.phase = "findOld", !.user = u]
    OBVIOUS
  <2>1. r.phase = "findOld"
    BY DEF NoCall
  <2> QED
    BY <1>1, <1>2, <2>1 DEF Regenerates
<1>3. ASSUME NEW c \in Codes, NEW i \in Identities, CreateLink(t, c, i)
      PROVE  MovesTo(t, call'[t]) /\ call'[t].phase \notin PurgePhases
  <2> PICK r : r = [NoCall EXCEPT !.phase = "consume", !.code = c, !.identity = i]
    OBVIOUS
  <2>1. r.phase = "consume"
    BY DEF NoCall
  <2> QED
    BY <1>1, <1>3, <2>1 DEF CreateLink
<1>4. CASE ReplaceAll(t) \/ DeleteOld(t)
  BY <1>4, GoesOn DEF ReplaceAll, DeleteOld
<1>5. CASE FindOld(t)
  <2> PICK c : call' = [call EXCEPT ![t].phase = IF c = NoCode THEN "insert" ELSE "deleteOld",
                                    ![t].code = c]
    BY <1>5 DEF FindOld
  <2> PICK phase \in {"insert", "deleteOld"} : phase = IF c = NoCode THEN "insert" ELSE "deleteOld"
    OBVIOUS
  <2> PICK r : r = [call[t] EXCEPT !.phase = phase, !.code = c]
    OBVIOUS
  <2>1. r.phase = phase
    BY <1>0 DEF Call
  <2> QED
    BY <1>1, <2>1
<1>6. CASE ConsumeCode(t)
  <2> PICK u : u = codes[call[t].code].user
    OBVIOUS
  <2> PICK r : r = [call[t] EXCEPT !.phase = "claim", !.user = u]
    OBVIOUS
  <2>1. r.phase = "claim"
    BY <1>0 DEF Call
  <2>2. call' = [call EXCEPT ![t] = r] \/ Returns(t)
    BY <1>6 DEF ConsumeCode
  <2> QED
    BY <1>1, <2>1, <2>2, GoesHome
<1>7. CASE ClaimIdentity(t)
  <2> PICK d : d = links[call[t].identity]
    OBVIOUS
  <2> PICK r : r = [call[t] EXCEPT !.phase = "report", !.other = d]
    OBVIOUS
  <2>1. r.phase = "report"
    BY <1>0 DEF Call
  <2>2. call' = [call EXCEPT ![t] = r] \/ Returns(t)
    BY <1>7 DEF ClaimIdentity
  <2> QED
    BY <1>1, <2>1, <2>2, GoesHome
<1>8. CASE \/ ReportDisplaced(t) \/ PurgeReturns(t) \/ CallStops(t)
           \/ \E c \in Codes : PutNewCode(t, c)
  BY <1>8, GoesHome DEF ReportDisplaced, PurgeReturns, CallStops, PutNewCode
<1> QED
  BY <1>2, <1>3, <1>4, <1>5, <1>6, <1>7, <1>8 DEF CurrentCode, RegenerateCode

\* A purge goes on with its user.
PurgeMoves(t) ==
    MovesTo(t, call'[t]) /\ call'[t].phase \in PurgePhases /\ call'[t].user = call[t].user

\* A purge is over the codes, except the one it is about to delete.
LEMMA PurgeOfCodes ==
    ASSUME Inv, NEW t \in Tasks, PurgeFine(call[t]),
           PurgeCodes(t) \/ FindPurged(t) \/ PurgeCode(t)
    PROVE  PurgeMoves(t) /\ PurgeFine(call[t])'
<1> PICK u : u = call[t].user
  OBVIOUS
<1>1. call[t] \in Call /\ u \in Users
  BY DEF Inv, CallsAreTyped, PurgeFine, PurgePhases, PurgeCodes, FindPurged, PurgeCode
<1>2. Quiet
  BY PurgeIsQuiet
<1>3. Claiming(u)' \subseteq Claiming(u)
  <2>1. \A s \in Tasks : Claimant(s)' =>
            Claimant(s) /\ call'[s].code = call[s].code /\ call'[s].user = call[s].user
    BY <1>2 DEF Quiet, CallsStep
  <2> QED
    BY <2>1 DEF Claiming, Claimant
<1>4. excused \subseteq excused' /\ Claiming(u) \subseteq excused'
  BY DEF PurgeCodes, FindPurged, PurgeCode
<1>5. CASE PurgeCodes(t)
  <2>1. /\ MovesTo(t, call'[t]) /\ call'[t].phase = "listLinks" /\ call'[t].user = u
        /\ codes' = Void(LiveCodes(u)) /\ u \in passed'
    BY <1>5, GoesOn DEF PurgeCodes
  <2>2. LiveCodes(u)' = {}
    BY <2>1, VoidTyped, VoidEnds DEF LiveCodes
  <2> QED
    BY <1>1, <1>3, <1>4, <2>1, <2>2 DEF PurgeFine, CodesPurged, PurgeMoves, PurgePhases
<1>6. CASE PurgeCode(t)
  <2> PICK c : c = call[t].code
    OBVIOUS
  <2>1. /\ MovesTo(t, call'[t]) /\ call'[t].phase = "listLinks" /\ call'[t].user = u
        /\ codes' = Void({c}) /\ UNCHANGED passed
        /\ u \in passed /\ LiveCodes(u) \subseteq excused \cup {c}
    BY <1>6, GoesOn DEF PurgeCode, PurgeFine
  <2>2. LiveCodes(u)' \subseteq LiveCodes(u) \ {c}
    BY <2>1, VoidTyped, VoidEnds DEF LiveCodes
  <2> QED
    BY <1>1, <1>3, <1>4, <2>1, <2>2 DEF PurgeFine, CodesPurged, PurgeMoves, PurgePhases
<1>7. CASE FindPurged(t)
  <2> PICK c : /\ call' = [call EXCEPT ![t].phase = IF c = NoCode THEN "listLinks" ELSE "purgeCode",
                                       ![t].code = c]
               /\ excused' = excused \cup Claiming(u) \cup (LiveCodes(u) \ {c})
    BY <1>7 DEF FindPurged
  <2> PICK phase : phase = IF c = NoCode THEN "listLinks" ELSE "purgeCode"
    OBVIOUS
  <2> PICK r : r = [call[t] EXCEPT !.phase = phase, !.code = c]
    OBVIOUS
  <2>1. r.phase = phase /\ r.code = c /\ r.user = u
    BY <1>1 DEF Call
  <2>2. MovesTo(t, r)
    BY MovesAs
  <2>3. u \in passed' /\ LiveCodes(u)' = LiveCodes(u)
    BY <1>7 DEF FindPurged, LiveCodes
  <2>4. LiveCodes(u)' \subseteq excused' \cup {c}
    BY <2>3
  <2>5. phase = "listLinks" => LiveCodes(u)' \subseteq excused'
    BY <2>4, MessagingAssumption DEF LiveCodes
  <2>6. PurgeFine(r)'
    BY <1>1, <1>3, <1>4, <2>1, <2>3, <2>4, <2>5 DEF PurgeFine, CodesPurged
  <2> QED
    BY <2>1, <2>2, <2>6 DEF MovesTo, PurgeMoves, PurgePhases
<1> QED
  BY <1>5, <1>6, <1>7

\* And then over the links, at once or as they are listed.
LEMMA PurgeOfLinks ==
    ASSUME Inv, MessagingNext, NEW t \in Tasks, PurgeFine(call[t]),
           PurgeLinks(t) \/ ListLinks(t) \/ \E i \in Identities : DropLink(t, i)
    PROVE  PurgeMoves(t) /\ PurgeFine(call[t])'
<1> PICK u : u = call[t].user
  OBVIOUS
<1>1. call[t] \in Call /\ u \in Users /\ CodesPurged(u)
  BY DEF Inv, CallsAreTyped, PurgeFine, PurgePhases, PurgeLinks, ListLinks, DropLink
<1>2. Adds(u) /\ CodesPurged(u)'
  BY <1>1, StepAdds, CodesStayPurged, StepKeeps DEF Inv
<1>3. excused \subseteq excused' /\ UNCHANGED codes
  BY <1>2 DEF Adds, HistoriesGrow, PurgeLinks, ListLinks, DropLink
<1>4. CASE PurgeLinks(t)
  <2>1. /\ MovesTo(t, call'[t]) /\ call'[t].phase = "purged" /\ call'[t].user = u
        /\ links' = [i \in Identities |-> IF i \in HeldBy(u) THEN NoCode ELSE links[i]]
    BY <1>4, GoesOn DEF PurgeLinks
  <2>2. HeldBy(u)' = {}
    BY <1>3, <2>1 DEF HeldBy
  <2> QED
    BY <1>1, <1>2, <2>1, <2>2 DEF PurgeFine, Purged, PurgeMoves, PurgePhases
<1>5. CASE ListLinks(t)
  <2> PICK seen : seen = {i \in HeldBy(u) : codes[links[i]].listed}
    OBVIOUS
  <2> PICK phase : phase = IF seen = {} THEN "purged" ELSE "dropLinks"
    OBVIOUS
  <2> PICK r : r = [call[t] EXCEPT !.phase = phase, !.left = seen]
    OBVIOUS
  <2>1. r.phase = phase /\ r.left = seen /\ r.user = u
    BY <1>1 DEF Call
  <2>2. call' = [call EXCEPT ![t] = r] /\ UNCHANGED links
    BY <1>5 DEF ListLinks
  <2>3. MovesTo(t, r)
    BY <2>2, MovesAs
  <2>4. excused' = excused \cup {links[i] : i \in HeldBy(u) \ seen}
    BY <1>5 DEF ListLinks
  <2>5. \A i \in HeldBy(u)' : links'[i] \in excused' \/ i \in seen
    BY <1>3, <2>2, <2>4 DEF HeldBy
  <2>6. PurgeFine(r)'
    BY <1>1, <1>2, <2>1, <2>5 DEF PurgeFine, Purged
  <2> QED
    BY <2>1, <2>3, <2>6 DEF MovesTo, PurgeMoves, PurgePhases
<1>6. ASSUME NEW i \in Identities, DropLink(t, i)
      PROVE  PurgeMoves(t) /\ PurgeFine(call[t])'
  <2>1. PICK r : /\ call' = [call EXCEPT ![t] = r]
                 /\ r.user = u /\ r.left = call[t].left \ {i}
                 /\ r.phase = IF call[t].left = {i} THEN "purged" ELSE "dropLinks"
    <3> DEFINE phase == IF call[t].left = {i} THEN "purged" ELSE "dropLinks"
               rest == call[t].left \ {i}
               new == [call[t] EXCEPT !.left = rest, !.phase = phase]
    <3>1. new.phase = phase /\ new.left = rest /\ new.user = u
      BY <1>1 DEF Call
    <3>2. call' = [call EXCEPT ![t] = new]
      BY <1>1, <1>6 DEF DropLink, Call
    <3> HIDE DEF new
    <3> QED
      BY <3>1, <3>2
  <2>2. MovesTo(t, r)
    BY <2>1, MovesAs
  <2>3. \A j \in HeldBy(u) : links[j] \in excused \/ j \in call[t].left
    BY <1>6 DEF DropLink, PurgeFine
  <2>4. HeldBy(u)' \subseteq HeldBy(u) \ {i} /\ \A j \in HeldBy(u)' : links'[j] = links[j]
    BY <1>3, <1>6 DEF DropLink, HeldBy, Inv, LinksAreRows
  <2>5. \A j \in HeldBy(u)' : links'[j] \in excused' \/ j \in r.left
    BY <1>3, <2>1, <2>3, <2>4
  <2>6. r.phase \in {"purged", "dropLinks"} /\ (r.phase = "purged" => r.left = {})
    BY <2>1
  <2>7. PurgeFine(r)'
    BY <1>1, <1>2, <2>1, <2>5, <2>6 DEF PurgeFine, Purged
  <2> QED
    BY <2>1, <2>2, <2>6, <2>7 DEF MovesTo, PurgeMoves, PurgePhases
<1> QED
  BY <1>4, <1>5, <1>6

\* A purge is begun.
LEMMA PurgeBegins ==
    ASSUME Inv, NEW t \in Tasks, NEW u \in Users, Purge(t, u)
    PROVE  /\ MovesTo(t, call'[t]) /\ PurgeFine(call[t])'
           /\ call'[t].user = u /\ call'[t].phase = "findPurged"
<1> PICK r : r = [NoCall EXCEPT !.phase = "findPurged", !.user = u]
  OBVIOUS
<1>1. r.phase = "findPurged" /\ r.user = u
  BY DEF NoCall
<1>2. MovesTo(t, r)
  BY MovesAs DEF Purge
<1> QED
  BY <1>1, <1>2 DEF MovesTo, PurgeFine

\* What a handler at a purge does is a step of the purge, and one at rest does nothing.
LEMMA PurgeGoesOn ==
    ASSUME Inv, PurgesFine, NEW t \in Tasks, MessagingStep(t),
           call[t].phase \in PurgePhases \cup {"idle"}
    PROVE  PurgeMoves(t) /\ call[t].phase \in PurgePhases
<1>1. ASSUME NEW c \in Codes, PutNewCode(t, c) PROVE FALSE
  BY <1>1 DEF PutNewCode, PurgePhases
<1>2. CASE ReplaceAll(t) \/ FindOld(t) \/ DeleteOld(t)
  BY <1>2 DEF ReplaceAll, FindOld, DeleteOld, PurgePhases
<1>3. CASE ConsumeCode(t) \/ ClaimIdentity(t) \/ ReportDisplaced(t)
  BY <1>3 DEF ConsumeCode, ClaimIdentity, ReportDisplaced, PurgePhases
<1>4. CASE PurgeCodes(t) \/ FindPurged(t) \/ PurgeCode(t)
  BY <1>4, PurgeOfCodes DEF PurgesFine, PurgeCodes, FindPurged, PurgeCode, PurgePhases
<1>5. CASE PurgeLinks(t) \/ ListLinks(t) \/ \E i \in Identities : DropLink(t, i)
  <2>1. MessagingNext
    BY DEF MessagingNext
  <2> QED
    BY <1>5, <2>1, PurgeOfLinks DEF PurgesFine, PurgeLinks, ListLinks, DropLink, PurgePhases
<1> QED
  BY <1>1, <1>2, <1>3, <1>4, <1>5 DEF MessagingStep

\* A request or a step of one handler moves no other.
LEMMA OneMoves ==
    ASSUME Inv, PurgesFine, NEW t \in Tasks,
           \/ MessagingRequest(t) \/ MessagingStep(t) \/ CallStops(t)
           \/ PurgeReturns(t) \/ \E u \in Users : Purge(t, u)
    PROVE  MovesTo(t, call'[t])
<1>1. CASE \E u \in Users, i \in Identities : DeleteLink(t, u, i)
  BY <1>1 DEF DeleteLink, MovesTo
<1>2. CASE PurgeCodes(t) \/ FindPurged(t) \/ PurgeCode(t)
  BY <1>2, PurgeOfCodes DEF PurgesFine, PurgeMoves
<1>3. CASE PurgeLinks(t) \/ ListLinks(t) \/ \E i \in Identities : DropLink(t, i)
  <2>1. MessagingNext
    BY <1>3 DEF MessagingNext, MessagingStep
  <2> QED
    BY <1>3, <2>1, PurgeOfLinks DEF PurgesFine, PurgeMoves
<1>4. CASE \E u \in Users : Purge(t, u)
  BY <1>4, PurgeBegins
<1> QED
  BY <1>1, <1>2, <1>3, <1>4, OthersPurgeNothing DEF MessagingRequest, MessagingStep

\* Every purge keeps what it has reached.
LEMMA PurgesKeep ==
    ASSUME Inv, PurgesFine, [MessagingNext]_messagingVars
    PROVE  PurgesFine'
<1>1. ASSUME NEW t \in Tasks, MovesTo(t, call'[t]), PurgeFine(call[t])', MessagingNext
      PROVE  PurgesFine'
  BY <1>1, PurgeWaits DEF MovesTo, PurgesFine
<1>2. ASSUME NEW t \in Tasks, MovesTo(t, call'[t]), call'[t].phase \notin PurgePhases, MessagingNext
      PROVE  PurgesFine'
  <2>1. PurgeFine(call[t])'
    BY <1>2 DEF PurgeFine, PurgePhases
  <2> QED
    BY <1>1, <1>2, <2>1
<1>3. ASSUME UNCHANGED call, MessagingNext PROVE PurgesFine'
  BY <1>3, PurgeWaits DEF PurgesFine
<1>4. ASSUME MessagingTime, MessagingNext PROVE PurgesFine'
  BY <1>3, <1>4 DEF MessagingTime, CodeExpires, CodeSwept, CodeListed
<1>5. ASSUME NEW t \in Tasks, MessagingNext,
             \/ MessagingRequest(t) \/ MessagingStep(t) \/ CallStops(t)
             \/ PurgeReturns(t) \/ \E u \in Users : Purge(t, u)
      PROVE  PurgesFine'
  <2>1. CASE \E u \in Users, i \in Identities : DeleteLink(t, u, i)
    BY <1>3, <1>5, <2>1 DEF DeleteLink
  <2>2. CASE \/ PurgeCodes(t) \/ FindPurged(t) \/ PurgeCode(t)
             \/ PurgeLinks(t) \/ ListLinks(t) \/ \E i \in Identities : DropLink(t, i)
    BY <1>1, <1>5, <2>2, PurgeOfCodes, PurgeOfLinks DEF PurgesFine, PurgeMoves
  <2>3. CASE \E u \in Users : Purge(t, u)
    BY <1>1, <1>5, <2>3, PurgeBegins
  <2> QED
    BY <1>2, <1>5, <2>1, <2>2, <2>3, OthersPurgeNothing DEF MessagingRequest, MessagingStep
<1>6. CASE MessagingNext
  BY <1>4, <1>5, <1>6 DEF MessagingNext
<1>7. CASE UNCHANGED messagingVars
  BY <1>7 DEF messagingVars, PurgesFine, PurgeFine, CodesPurged, Purged, LiveCodes, Claiming, HeldBy
<1> QED
  BY <1>6, <1>7

LEMMA NoPurgeYet == ASSUME MessagingInit PROVE PurgesFine
BY DEF MessagingInit, PurgesFine, PurgeFine, PurgePhases, NoCall
=============================================================================
