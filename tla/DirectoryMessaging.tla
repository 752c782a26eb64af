------------------------- MODULE DirectoryMessaging -------------------------
(***************************************************************************)
(* The directory with the chat links of its accounts: what delete_user     *)
(* calls in "links" is the purge of MessagingLinks, while codes are asked  *)
(* for and redeemed around it.  A slot of Tasks serves one handler, of     *)
(* either part; a purge runs in the slot of the deletion that called it.   *)
(***************************************************************************)
EXTENDS DirectoryKeys

CONSTANTS Codes, Identities, NoCode, NoIdentity

ASSUME ChatAssumption == NoCode \notin Codes /\ NoIdentity \notin Identities

VARIABLES codes, links, told, excused, passed, call

M == INSTANCE MessagingLinks

linksOnly == <<codes, links, told, excused, passed, call>>
directoryOnly == <<load, tenants, users, guards, keys, rows, late, broken, task>>
vars == <<store, directoryOnly, linksOnly>>

Init == DirectoryInit /\ M!MessagingInit

Free(t) == task[t] = Idle /\ call[t] = M!NoCall

-----------------------------------------------------------------------------

CallPurge(t) ==
    /\ At(t, "links")
    /\ M!Purge(t, task[t].user)
    /\ UNCHANGED directoryOnly

PurgeDone(t) ==
    /\ At(t, "links")
    /\ M!PurgeReturns(t)
    /\ ClearTable(t)

\* A deletion that stops takes the purge it is waiting for along.
StopPurging(t) ==
    /\ At(t, "links")
    /\ Stop(t)
    /\ call' = [call EXCEPT ![t] = M!NoCall]
    /\ UNCHANGED <<codes, links, told, excused, passed>>

DirectoryActs(t) ==
    /\ \/ Free(t) /\ DirectoryRequest(t)
       \/ DirectoryStep(t)
       \/ ~At(t, "links") /\ (ClearTable(t) \/ Stop(t))
    /\ UNCHANGED linksOnly

\* A caller is known by its token, which outlives the account.
AsksForCode(t) ==
    \E u \in Users : users[u].life # "unborn" /\ (M!CurrentCode(t, u) \/ M!RegenerateCode(t, u))

Claims(t) == \E c \in Codes, i \in Identities : M!CreateLink(t, c, i)

Unlinks(t) == \E u \in Users, i \in Identities : M!DeleteLink(t, u, i)

MessagingActs(t) ==
    /\ \/ "messaging" \in load /\ Free(t) /\ (AsksForCode(t) \/ Claims(t) \/ Unlinks(t))
       \/ M!MessagingStep(t)
       \/ ~At(t, "links") /\ "stop" \in load /\ M!CallStops(t)
    /\ UNCHANGED directoryOnly

Elapses ==
    \/ DirectoryWorld /\ UNCHANGED linksOnly
    \/ M!MessagingTime /\ UNCHANGED directoryOnly

Next ==
    \/ \E t \in Tasks :
        \/ CallPurge(t) \/ PurgeDone(t) \/ StopPurging(t)
        \/ DirectoryActs(t) \/ MessagingActs(t)
    \/ Elapses

Spec == Init /\ [][Next]_vars

-----------------------------------------------------------------------------
(* Properties *)

TypeOK == DirectoryTypeOK /\ M!MessagingTypeOK

(***************************************************************************)
(* A deleted account takes its chat identities and its unredeemed codes    *)
(* along: what is left can only have been claimed, or drawn, or become     *)
(* visible after the purge had looked (or be a code DynamoDB's purge,      *)
(* which deletes one, left lying).                                         *)
(***************************************************************************)
LinksLeaveWithTheirUser ==
    \A u \in Users : users[u].life = "gone" =>
        /\ M!LiveCodes(u) \subseteq excused
        /\ \A i \in M!HeldBy(u) : links[i] \in excused
=============================================================================
