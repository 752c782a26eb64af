--------------------------- MODULE SessionsBrowser ---------------------------
(***************************************************************************)
(* What reuse detection may never do to the browser that owns a session.   *)
(* These hold for a browser that sends one request at a time and receives  *)
(* every answer, and fail one by one as those conditions are dropped.      *)
(***************************************************************************)
EXTENDS Sessions

\* One browser that sends one request at a time, to an API that lets its user
\* in, and receives every answer: what the first two claims rest on.
OneAtATime ==
    /\ \E j : Jars = {j}
    /\ \E r : Requests = {r}
    /\ ~AnswersGetLost
    /\ Apis \subseteq Eligible

Reuse(r) == req[r].phase = "deleteSession" /\ req[r].reuse

\* Where no cookie was ever copied, no refresh is taken for a replay.
NoFalseReuse == \A r \in Requests : ~Reuse(r)

\* A browser with nothing in flight holds the current secret of the session its
\* cookie names, for as long as that session lives: the cookie and the row
\* never drift apart, so the next refresh needs no grace.
CookieInSync ==
    \A j \in Jars :
        LET s == jar[j].sid IN
        (/\ InFlight = {}
         /\ jar[j].sid # NoSession
         /\ Live(s))
        => jar[j].secret = sessions[s].hash

\* The task that judged a secret a replay answers only once the session is gone,
\* whatever the other holder of the cookie does meanwhile.
ReuseRevokes ==
    [][\A r \in Requests :
          Reuse(r) /\ req'[r].phase # "deleteSession"
            => sessions'[req[r].cookie.sid].status = "gone"]_vars

\* Every request is answered: no branch of a handler leaves its task stuck, not
\* even when the row it was about to write is gone.
EveryRequestEnds == \A r \in Requests : ~IdleRequest(r) ~> IdleRequest(r)

=============================================================================
