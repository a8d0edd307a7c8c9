-------------------------------- MODULE Console --------------------------------
(***************************************************************************)
(* A page of the UI beside the service: the list or the detail page, which *)
(* poll every 2 s, toggle optimistically and delete; each request through  *)
(* the UI's server, which exchanges an expired access token with Keycloak  *)
(* and passes it on, and through the service's token check.  Answers come  *)
(* in any order.  One simulation stands for all.                           *)
(***************************************************************************)
EXTENDS Integers, SequencesExt

CONSTANTS None,          \* no simulation, no answer yet
          MAX_EVENTS,    \* events a detail page keeps
          MaxPolls,      \* polls of a page under way at once
          MaxPublished, MaxActions, MaxTroubles   \* bounds

VARIABLES sim,           \* the service's: enabled and when it published last; or None
          late,          \* changes the UI's server gave up on
          page,          \* "list" or "detail"
          shown, error,  \* what the page shows of it, and whether the poll failed
          busy, before,  \* an action is under way; what the list showed before it
          actionError,
          events, lastSeen, seq,      \* the detail page's stream
          requests,      \* on their way, in the order they were sent, each with
                         \* whether Keycloak or the session was away meanwhile
          cookie,        \* the access token in it: fresh, in its last minute, expired
          keycloak, sso, \* is Keycloak reachable; does its session live
          actions, troubles

stream  == <<events, lastSeen, seq>>
view    == <<page, shown, error, busy, before, actionError, stream>>
session == <<cookie, keycloak, sso>>
bounds  == <<actions, troubles>>
vars    == <<sim, late, view, requests, session, bounds>>

-----------------------------------------------------------------------------
(* The session: auth() and getAccessToken() each look at the cookie, and   *)
(* neither can write a refreshed token back to it.                         *)

Trouble == ~keycloak \/ ~sso
Request(kind, on) == [kind |-> kind, on |-> on, stage |-> "sent", token |-> "none",
                      code |-> "", body |-> None, troubled |-> Trouble]
Sent(kind, on)  == Append(requests, Request(kind, on))
Became(i, next) == requests' = [requests EXCEPT ![i] = next]
Answered(i, code, body) ==
  Became(i, [requests[i] EXCEPT !.stage = "answered", !.token = "none", !.code = code,
                                !.body = body, !.troubled = @ /\ code = "401"])
Refused(i, code) == Answered(i, code, None)

\* "A minute of slack, so a token does not expire mid-request."
withoutSlack == cookie = "expired"
isTokenExpired == cookie # "fresh"

\* Keycloak exchanges a refresh token as long as its session lives, any number of times.
usable == isTokenExpired => ~Trouble

\* isAuthorised() refuses who is not signed in.
isAuthorised(i) ==
  /\ requests[i].stage = "sent"
  /\ IF usable THEN Became(i, [requests[i] EXCEPT !.stage = "authorised"])
                ELSE Refused(i, "401")
  /\ UNCHANGED <<sim, late, view, session, bounds>>

\* call() asks for the token anew; when the session or Keycloak went away since
\* isAuthorised(), there is none and the request goes without.
getAccessToken == IF ~isTokenExpired THEN cookie ELSE IF Trouble THEN "none" ELSE "new"
Forward(i) ==
  /\ requests[i].stage = "authorised"
  /\ Became(i, [requests[i] EXCEPT !.stage = "forwarded", !.token = getAccessToken])
  /\ UNCHANGED <<sim, late, view, session, bounds>>

\* The cookie's token ages; a request is over within the minute of slack.
Age ==
  /\ cookie' = CASE cookie = "fresh" -> "ending" [] OTHER -> "expired"
  /\ cookie # "expired"
  /\ cookie = "ending" => \A i \in DOMAIN requests :
       requests[i].stage = "forwarded" => requests[i].token # "fresh"
  /\ requests' = [i \in DOMAIN requests |->
       IF cookie = "ending" /\ requests[i].token = "ending" THEN [requests[i] EXCEPT !.token = "expired"]
       ELSE requests[i]]
  /\ UNCHANGED <<sim, late, view, keycloak, sso, bounds>>

\* Requests under way remember that they met it.
Troubled == /\ troubles < MaxTroubles /\ troubles' = troubles + 1
            /\ requests' = [i \in DOMAIN requests |->
                 [requests[i] EXCEPT !.troubled = @ \/ requests[i].stage # "answered"]]
            /\ UNCHANGED <<sim, late, view, cookie, actions>>
Outage == keycloak /\ keycloak' = FALSE /\ UNCHANGED sso /\ Troubled
SignedOut == sso /\ sso' = FALSE /\ UNCHANGED keycloak /\ Troubled
Reachable == /\ ~keycloak /\ keycloak' = TRUE
             /\ UNCHANGED <<sim, late, view, requests, cookie, sso, bounds>>

\* Signed in again, in a tab of its own.
SignIn ==
  /\ keycloak /\ ~sso
  /\ cookie' = "fresh" /\ sso' = TRUE
  /\ UNCHANGED <<sim, late, view, requests, keycloak, actions, troubles>>

-----------------------------------------------------------------------------
(* The service.                                                            *)

Rejected(i) == requests[i].token \in {"expired", "none"}
Changes(i)  == requests[i].kind \in {"switch", "delete"}
Change(r)   == sim' = IF r.kind = "delete" THEN None ELSE [sim EXCEPT !.enabled = r.on]
Found(i)    == sim # None \/ (page = "list" /\ ~Changes(i))
ServiceOnly == UNCHANGED <<view, session, bounds>>

\* 401 without a valid token, 404 without the simulation; else it is done.
Serve(i) ==
  /\ requests[i].stage = "forwarded"
  /\ \/ Rejected(i) /\ Refused(i, "401") /\ UNCHANGED sim
     \/ ~Rejected(i) /\ ~Found(i) /\ Refused(i, "404") /\ UNCHANGED sim
     \/ /\ ~Rejected(i) /\ Found(i)
        /\ IF Changes(i) THEN Change(requests[i]) ELSE UNCHANGED sim
        /\ Answered(i, "ok", sim')
  /\ ServiceOnly /\ UNCHANGED late

\* 502: a start or a save failed, nothing changes.
Fail(i) ==
  /\ requests[i].stage = "forwarded" /\ ~Rejected(i) /\ Found(i) /\ Changes(i)
  /\ troubles < MaxTroubles /\ troubles' = troubles + 1
  /\ Refused(i, "502")
  /\ UNCHANGED <<sim, late, view, session, actions>>

\* The UI's server waits 5 s; a change may take effect after that.
GiveUp(i) ==
  /\ requests[i].stage = "forwarded"
  /\ late' = IF Changes(i) /\ ~Rejected(i) THEN Append(late, requests[i]) ELSE late
  /\ troubles < MaxTroubles /\ troubles' = troubles + 1
  /\ Refused(i, "503")
  /\ UNCHANGED <<sim, view, session, actions>>
TakeEffect == /\ late # <<>> /\ late' = Tail(late)
              /\ IF sim # None THEN Change(late[1]) ELSE UNCHANGED sim
              /\ UNCHANGED requests /\ ServiceOnly

\* Another page's deletion.
Elsewhere == /\ sim # None /\ troubles < MaxTroubles /\ troubles' = troubles + 1
             /\ sim' = None
             /\ UNCHANGED <<late, view, requests, session, actions>>

Publish == /\ sim # None /\ sim.enabled /\ sim.at < MaxPublished
           /\ sim' = [sim EXCEPT !.at = @ + 1]
           /\ UNCHANGED <<late, requests>> /\ ServiceOnly

-----------------------------------------------------------------------------
(* The page.                                                               *)

Count(kind) == Len(SelectSeq(requests, LAMBDA r : r.kind = kind))
PageOnly == UNCHANGED <<sim, late, session>>

PollUntilError ==
        /\ page # "left" /\ ~error /\ Count("poll") < MaxPolls
        /\ requests' = Sent("poll", FALSE)
        /\ PageOnly /\ UNCHANGED <<view, bounds>>

\* The interval does not wait for the answer of the poll before.
Poll == /\ page # "left" /\ Count("poll") < MaxPolls
        /\ requests' = Sent("poll", FALSE)
        /\ PageOnly /\ UNCHANGED <<view, bounds>>

\* Optimistic; the switch is disabled while one is under way.
Toggle ==
  /\ page # "left" /\ ~busy /\ shown # None /\ actions < MaxActions
  /\ actions' = actions + 1
  /\ busy' = TRUE /\ actionError' = FALSE
  /\ before' = IF page = "list" THEN shown ELSE None
  /\ shown' = [shown EXCEPT !.enabled = ~@]
  /\ requests' = Sent("switch", ~shown.enabled)
  /\ PageOnly /\ UNCHANGED <<page, error, stream, troubles>>

destroy ==
  /\ page = "detail" /\ ~busy /\ actions < MaxActions
  /\ actions' = actions + 1
  /\ busy' = TRUE
  /\ requests' = Sent("delete", FALSE)
  /\ PageOnly /\ UNCHANGED <<page, shown, error, before, actionError, stream, troubles>>

Good(i) == requests[i].code = "ok"

\* A new event is one whose time moved since the last poll.
slice(list) == IF Len(list) > MAX_EVENTS THEN SubSeq(list, 1, MAX_EVENTS) ELSE list
whileOn(next) == next.at # 0 /\ next.at # lastSeen /\ next.enabled
isNew(next) == next.at # 0 /\ next.at # lastSeen
Streamed(next) ==
  IF page = "detail" /\ isNew(next)
  THEN /\ lastSeen' = next.at /\ seq' = seq + 1
       /\ events' = slice(<<[seq |-> seq', at |-> next.at]>> \o events)
  ELSE UNCHANGED stream

PollAnswered(i) ==
  /\ requests[i].kind = "poll" /\ requests' = RemoveAt(requests, i)
  /\ IF Good(i) THEN /\ shown' = requests[i].body /\ error' = FALSE
                       /\ Streamed(requests[i].body)
     ELSE error' = TRUE /\ UNCHANGED <<shown, stream>>
  /\ UNCHANGED <<page, busy, before, actionError>>

Finally == busy' = FALSE

\* A refused switch is named; the list then reads again what is true.
SwitchAnswered(i) ==
  /\ requests[i].kind = "switch"
  /\ IF Good(i)
     THEN /\ shown' = IF shown = None THEN None ELSE requests[i].body
          /\ requests' = RemoveAt(requests, i)
          /\ before' = None /\ UNCHANGED actionError /\ Finally
     ELSE /\ actionError' = TRUE /\ UNCHANGED <<shown, before>>
          /\ IF page = "list"
             THEN requests' = Append(RemoveAt(requests, i), Request("refetch", FALSE)) /\ UNCHANGED busy
             ELSE requests' = RemoveAt(requests, i) /\ Finally
  /\ UNCHANGED <<page, error, stream>>
RefetchAnswered(i) ==
  /\ requests[i].kind = "refetch" /\ requests' = RemoveAt(requests, i)
  /\ shown' = IF Good(i) THEN requests[i].body ELSE before
  /\ before' = None
  /\ UNCHANGED <<page, error, actionError, stream>> /\ Finally

\* Deleted: the page is left, and what is still on its way is of no concern.
DeleteAnswered(i) ==
  /\ requests[i].kind = "delete"
  /\ IF Good(i)
     THEN page' = "left" /\ requests' = <<>> /\ UNCHANGED <<busy, actionError>>
     ELSE /\ busy' = FALSE /\ actionError' = TRUE /\ requests' = RemoveAt(requests, i)
          /\ UNCHANGED page
  /\ UNCHANGED <<shown, error, before, stream>>

Receive(i) ==
  /\ requests[i].stage = "answered"
  /\ PollAnswered(i) \/ SwitchAnswered(i) \/ RefetchAnswered(i) \/ DeleteAnswered(i)
  /\ PageOnly /\ UNCHANGED bounds

-----------------------------------------------------------------------------
Init ==
  /\ sim \in {[enabled |-> FALSE, at |-> 0], [enabled |-> TRUE, at |-> 1]}
  /\ late = <<>> /\ page \in {"list", "detail"}
  /\ shown = sim /\ error = FALSE /\ busy = FALSE /\ before = None /\ actionError = FALSE
  /\ events = <<>> /\ lastSeen = 0 /\ seq = 0
  /\ requests = <<>>
  /\ cookie = "fresh" /\ keycloak = TRUE /\ sso = TRUE
  /\ actions = 0 /\ troubles = 0

Deliver(i) == isAuthorised(i) \/ Forward(i) \/ Serve(i) \/ Receive(i)
Next ==
  \/ \E i \in DOMAIN requests : Deliver(i) \/ Fail(i) \/ GiveUp(i)
  \/ TakeEffect \/ Elsewhere \/ Publish
  \/ Poll \/ Toggle \/ destroy
  \/ Age \/ Outage \/ SignedOut \/ Reachable \/ SignIn

Spec == Init /\ [][Next]_vars

\* The interval fires and the oldest request makes progress, if only to its 5 s.
FairSpec == Spec /\ WF_vars(Poll) /\ WF_vars(requests # <<>> /\ Deliver(1))

-----------------------------------------------------------------------------
Open == page # "left"

\* The stream is numbered without gaps and bounded, and an action that is under
\* way has its request.
TypeOK ==
  /\ page \in {"list", "detail", "left"} /\ cookie \in {"fresh", "ending", "expired"}
  /\ Len(events) <= MAX_EVENTS
  /\ \A i \in DOMAIN events : events[i].seq = seq - i + 1
  /\ Open => (busy <=> Count("switch") + Count("refetch") + Count("delete") = 1)

\* However old the cookie is and however long a request takes, it is refused for
\* its token only if Keycloak or the session was away while it was under way: no
\* token expires mid-request (token-utils.ts:3-7), "the cookie stays stale, which
\* only means the exchange repeats per request" (session.ts:46-47).
NeverExpiresMidRequest ==
  \A i \in DOMAIN requests :
    requests[i].code = "401" => requests[i].troubled

Signed == keycloak /\ sso

\* Whatever came in between, the page shows in the end what the service has: no
\* optimistic switch, late answer or rolled back list stays on it.  A simulation
\* that is gone leaves a detail page with an error.
ShowsTheTruth ==
  <>[](Signed /\ Open) =>
    <>[](IF sim = None /\ page = "detail" THEN error ELSE shown = sim /\ ~error)

\* The last publication is in the stream in the end.
LastEventShown ==
  <>[](Signed /\ page = "detail" /\ sim # None) =>
    <>[](sim # None /\ sim.at # 0 => events # <<>> /\ events[1].at = sim.at)
=============================================================================
