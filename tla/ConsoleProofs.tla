---------------------------- MODULE ConsoleProofs ----------------------------
(***************************************************************************)
(* What holds of a page and its requests for every number of polls,        *)
(* actions, publications and troubles.                                     *)
(***************************************************************************)
EXTENDS Console, TLAPS

Simulation == [enabled : BOOLEAN, at : Nat]
Maybe == Simulation \cup {None}

\* A request never carries the token of the cookie's last minute, and so never
\* one that expires under way.
Shape == [kind : {"poll", "switch", "refetch", "delete"}, on : BOOLEAN,
          stage : {"sent", "authorised", "forwarded", "answered"},
          token : {"none", "fresh", "new"},
          code : {"", "ok", "401", "404", "502", "503"}, body : Maybe, troubled : BOOLEAN]

\* Only what met trouble goes without a token or was refused for it, and what is
\* under way while there is trouble has met it.
Explained(r) == /\ (r.stage = "forwarded" /\ r.token = "none") => r.troubled
                /\ (r.code = "401") => r.troubled
                /\ (Trouble /\ r.stage # "answered") => r.troubled
Requests == {r \in Shape : Explained(r)}

Typed == /\ sim \in Maybe /\ shown \in Maybe /\ before \in Maybe
         /\ requests \in Seq(Requests) /\ late \in Seq(Shape)
         /\ cookie \in {"fresh", "ending", "expired"}

LEMMA ElementOf ==
    ASSUME NEW S, NEW s \in Seq(S), NEW i \in DOMAIN s
    PROVE  s[i] \in S
OBVIOUS

LEMMA AppendedStays ==
    ASSUME NEW S, NEW s \in Seq(S), NEW e \in S
    PROVE  Append(s, e) \in Seq(S)
OBVIOUS

LEMMA NothingIsSeq ==
    ASSUME NEW S
    PROVE  <<>> \in Seq(S)
OBVIOUS

LEMMA SameRequests ==
    ASSUME UNCHANGED <<keycloak, sso>>
    PROVE  Requests' = Requests
BY DEF Requests, Explained, Trouble

LEMMA RequestIs ==
    ASSUME NEW kind \in {"poll", "switch", "refetch", "delete"}, NEW on \in BOOLEAN
    PROVE  Request(kind, on) \in Requests
<1> DEFINE r == Request(kind, on)
<1>1. Trouble \in BOOLEAN
  BY DEF Trouble
<1>2. r \in Shape /\ r.stage = "sent" /\ r.code = "" /\ r.troubled = Trouble
  BY <1>1 DEF Request, Shape, Maybe
<1> HIDE DEF r
<1>3. Explained(r)
  <2>1. CASE Trouble
    <3>1. r.troubled
      BY <1>2, <2>1, Zenon
    <3> QED
      BY <1>2, <3>1 DEF Explained
  <2>2. CASE ~Trouble
    BY <1>2, <2>2 DEF Explained
  <2> QED
    BY <2>1, <2>2
<1>4. r \in Requests
  BY <1>2, <1>3 DEF Requests
<1> QED
  BY <1>4 DEF r

LEMMA SentStays ==
    ASSUME NEW kind \in {"poll", "switch", "refetch", "delete"}, NEW on \in BOOLEAN,
           requests \in Seq(Requests), requests' = Sent(kind, on)
    PROVE  requests' \in Seq(Requests)
BY RequestIs DEF Sent

LEMMA BecameStays ==
    ASSUME NEW i \in DOMAIN requests, NEW r \in Requests, requests \in Seq(Requests), Became(i, r)
    PROVE  requests' \in Seq(Requests)
BY DEF Became

LEMMA AnsweredStays ==
    ASSUME NEW i \in DOMAIN requests, NEW code \in {"ok", "401", "404", "502", "503"},
           NEW body \in Maybe, requests \in Seq(Requests), Answered(i, code, body),
           code = "401" => requests[i].troubled
    PROVE  requests' \in Seq(Requests)
<1> DEFINE r == [requests[i] EXCEPT !.stage = "answered", !.token = "none", !.code = code,
                                    !.body = body, !.troubled = requests[i].troubled /\ code = "401"]
<1>1. requests[i] \in Requests
  BY ElementOf
<1>2. r \in Requests
  <2>1. r \in Shape
    BY <1>1 DEF Requests, Shape
  <2>2. r.stage = "answered" /\ r.code = code /\ (code = "401" => r.troubled)
    BY <1>1 DEF Requests, Shape
  <2> HIDE DEF r
  <2> QED
    BY <2>1, <2>2 DEF Requests, Explained
<1> HIDE DEF r
<1>3. Became(i, r)
  BY DEF Answered, r
<1> QED
  BY <1>2, <1>3, BecameStays

LEMMA RefusedStays ==
    ASSUME NEW i \in DOMAIN requests, NEW code \in {"401", "404", "502", "503"},
           requests \in Seq(Requests), Refused(i, code), code = "401" => requests[i].troubled
    PROVE  requests' \in Seq(Requests)
BY AnsweredStays DEF Refused, Maybe

LEMMA RemovedStays ==
    ASSUME NEW S, NEW s \in Seq(S), NEW i \in DOMAIN s
    PROVE  RemoveAt(s, i) \in Seq(S)
BY DEF RemoveAt

-----------------------------------------------------------------------------
(* The session's steps.                                                    *)

LEMMA AuthoriseStep ==
    ASSUME Typed, NEW i \in DOMAIN requests, isAuthorised(i)
    PROVE  Typed'
<1>1. requests[i] \in Requests /\ requests[i].stage = "sent"
  BY ElementOf DEF Typed, isAuthorised
<1>2. requests' \in Seq(Requests)
  <2>1. CASE usable
    <3> DEFINE r == [requests[i] EXCEPT !.stage = "authorised"]
    <3>1. r \in Requests
      BY <1>1 DEF Requests, Explained, Shape
    <3>2. Became(i, r)
      BY <2>1 DEF isAuthorised
    <3> HIDE DEF r
    <3> QED
      BY <3>1, <3>2, BecameStays DEF Typed
  <2>2. CASE ~usable
    <3>1. requests[i].troubled
      BY <1>1, <2>2 DEF usable, Requests, Explained
    <3> QED
      BY <2>2, <3>1, RefusedStays DEF isAuthorised, Typed
  <2> QED
    BY <2>1, <2>2
<1>3. Requests' = Requests
  BY SameRequests DEF isAuthorised, session
<1> QED
  BY <1>2, <1>3 DEF Typed, isAuthorised, view, session

LEMMA ForwardStep ==
    ASSUME Typed, NEW i \in DOMAIN requests, Forward(i)
    PROVE  Typed'
<1> DEFINE r == [requests[i] EXCEPT !.stage = "forwarded", !.token = getAccessToken]
<1>1. requests[i] \in Requests /\ requests[i].stage = "authorised"
  BY ElementOf DEF Typed, Forward
<1>2. r \in Requests
  <2>1. getAccessToken \in {"none", "fresh", "new"} /\ (getAccessToken = "none" => Trouble)
    BY DEF getAccessToken, isTokenExpired
  <2>2. /\ r \in Shape /\ r.stage = "forwarded" /\ r.token = getAccessToken
        /\ r.troubled = requests[i].troubled /\ r.code = requests[i].code
    BY <1>1, <2>1 DEF Requests, Shape
  <2> HIDE DEF r
  <2> QED
    BY <1>1, <2>1, <2>2 DEF Requests, Explained
<1>3. Became(i, r)
  BY DEF Forward
<1> HIDE DEF r
<1>4. requests' \in Seq(Requests)
  BY <1>2, <1>3, BecameStays DEF Typed
<1>5. Requests' = Requests
  BY SameRequests DEF Forward, session
<1> QED
  BY <1>4, <1>5 DEF Typed, Forward, view, session

LEMMA AgeStep ==
    ASSUME Typed, Age
    PROVE  Typed'
<1>1. \A i \in DOMAIN requests : requests[i] \in Requests
  BY ElementOf DEF Typed
<1>2. requests' = [i \in DOMAIN requests |-> requests[i]]
  BY <1>1 DEF Age, Requests, Shape
<1>3. requests' \in Seq(Requests)
  BY <1>2 DEF Typed
<1>4. Requests' = Requests
  BY SameRequests DEF Age
<1> QED
  BY <1>3, <1>4 DEF Typed, Age, view

\* Trouble marks what is under way.
LEMMA TroubleStep ==
    ASSUME Typed, Outage \/ SignedOut
    PROVE  Typed'
<1>1. \A i \in DOMAIN requests : requests[i] \in Requests
  BY ElementOf DEF Typed
<1> DEFINE marked(i) == [requests[i] EXCEPT !.troubled = requests[i].troubled \/ requests[i].stage # "answered"]
<1>2. requests' = [i \in DOMAIN requests |-> marked(i)]
  BY DEF Outage, SignedOut, Troubled
<1>3. ASSUME NEW i \in DOMAIN requests, NEW r, r = marked(i) PROVE r \in Requests'
  <2>1. /\ r \in Shape
        /\ r.stage = requests[i].stage /\ r.code = requests[i].code /\ r.token = requests[i].token
        /\ r.troubled <=> requests[i].troubled \/ requests[i].stage # "answered"
    BY <1>1, <1>3 DEF Requests, Shape
  <2>2. Explained(requests[i])
    BY <1>1, <1>3 DEF Requests
  <2> HIDE DEF marked
  <2>3. Explained(r)'
    BY <2>1, <2>2 DEF Explained
  <2> QED
    BY <2>1, <2>3 DEF Requests
<1> HIDE DEF marked
<1>4. requests' \in Seq(Requests')
  BY <1>2, <1>3 DEF Typed
<1> QED
  BY <1>4 DEF Typed, Outage, SignedOut, Troubled, view

LEMMA SessionStep ==
    ASSUME Typed, Reachable \/ SignIn
    PROVE  Typed'
<1>1. Trouble' => Trouble
  BY DEF Reachable, SignIn, Trouble
<1>2. \A r \in Requests : r \in Requests'
  BY <1>1 DEF Requests, Explained
<1>3. requests' \in Seq(Requests')
  <2>1. \A i \in DOMAIN requests : requests[i] \in Requests'
    BY <1>2, ElementOf DEF Typed
  <2>2. requests' = requests
    BY DEF Reachable, SignIn
  <2> QED
    BY <2>1, <2>2 DEF Typed
<1> QED
  BY <1>3 DEF Typed, Reachable, SignIn, view

-----------------------------------------------------------------------------
(* The service's steps.                                                    *)

LEMMA ChangeStays ==
    ASSUME sim \in Maybe, NEW r \in Shape, Change(r), sim # None \/ r.kind = "delete"
    PROVE  sim' \in Maybe
BY DEF Change, Maybe, Simulation, Shape

LEMMA ServeStep ==
    ASSUME Typed, NEW i \in DOMAIN requests, Serve(i)
    PROVE  Typed'
<1>1. requests[i] \in Requests /\ requests[i] \in Shape /\ requests[i].stage = "forwarded"
  BY ElementOf DEF Typed, Requests, Serve
<1>2. sim' \in Maybe /\ requests' \in Seq(Requests)
  <2>1. CASE Rejected(i) /\ Refused(i, "401") /\ UNCHANGED sim
    <3>1. requests[i].troubled
      BY <1>1, <2>1 DEF Rejected, Requests, Explained, Shape
    <3> QED
      BY <2>1, <3>1, RefusedStays DEF Typed
  <2>2. CASE Refused(i, "404") /\ UNCHANGED sim
    BY <2>2, RefusedStays DEF Typed
  <2>3. CASE /\ Found(i)
             /\ IF Changes(i) THEN Change(requests[i]) ELSE UNCHANGED sim
             /\ Answered(i, "ok", sim')
    <3>1. sim' \in Maybe
      BY <1>1, <2>3, ChangeStays DEF Typed, Found
    <3> QED
      BY <2>3, <3>1, AnsweredStays DEF Typed
  <2> QED
    BY <2>1, <2>2, <2>3 DEF Serve
<1>3. Requests' = Requests
  BY SameRequests DEF Serve, ServiceOnly, session
<1> QED
  BY <1>2, <1>3 DEF Typed, Serve, ServiceOnly, view, session

LEMMA TroubledStep ==
    ASSUME Typed, NEW i \in DOMAIN requests, Fail(i) \/ GiveUp(i)
    PROVE  Typed'
<1>1. requests[i] \in Shape
  BY ElementOf DEF Typed, Requests
<1>2. requests' \in Seq(Requests)
  BY RefusedStays DEF Typed, Fail, GiveUp
<1>3. late' \in Seq(Shape)
  BY <1>1 DEF Typed, Fail, GiveUp
<1>4. Requests' = Requests
  BY SameRequests DEF Fail, GiveUp, session
<1> QED
  BY <1>2, <1>3, <1>4 DEF Typed, Fail, GiveUp, view, session

LEMMA ServiceStep ==
    ASSUME Typed, TakeEffect \/ Elsewhere \/ Publish
    PROVE  Typed'
<1>0. Requests' = Requests
  BY SameRequests DEF TakeEffect, Elsewhere, Publish, ServiceOnly, session
<1>1. CASE TakeEffect
  <2>1. late[1] \in Shape /\ Tail(late) \in Seq(Shape)
    BY <1>1 DEF TakeEffect, Typed
  <2>2. sim' \in Maybe
    BY <1>1, <2>1, ChangeStays DEF TakeEffect, Typed
  <2> QED
    BY <1>0, <1>1, <2>1, <2>2 DEF Typed, TakeEffect, ServiceOnly, view, session
<1>2. CASE Elsewhere
  BY <1>0, <1>2 DEF Typed, Elsewhere, Maybe, view, session
<1>3. CASE Publish
  BY <1>0, <1>3 DEF Typed, Publish, Maybe, Simulation, ServiceOnly, view, session
<1> QED
  BY <1>1, <1>2, <1>3

-----------------------------------------------------------------------------
(* The page's steps.                                                       *)

LEMMA AskStep ==
    ASSUME Typed, Poll \/ Toggle \/ destroy
    PROVE  Typed'
<1>0. Requests' = Requests
  BY SameRequests DEF Poll, Toggle, destroy, PageOnly, session
<1>1. CASE Poll
  <2>1. requests' \in Seq(Requests)
    BY <1>1, SentStays DEF Poll, Typed
  <2> QED
    BY <1>0, <1>1, <2>1 DEF Typed, Poll, PageOnly, view, session
<1>2. CASE Toggle
  <2>1. shown \in Simulation
    BY <1>2 DEF Toggle, Typed, Maybe
  <2>2. requests' \in Seq(Requests)
    <3>1. (~shown.enabled) \in BOOLEAN
      BY <2>1 DEF Simulation
    <3> QED
      BY <1>2, <3>1, SentStays DEF Toggle, Typed
  <2>3. shown' \in Simulation
    BY <1>2, <2>1 DEF Toggle, Simulation
  <2>4. before' \in Maybe
    BY <1>2 DEF Toggle, Typed, Maybe
  <2> QED
    BY <1>0, <1>2, <2>2, <2>3, <2>4 DEF Typed, Toggle, PageOnly, Maybe, session
<1>3. CASE destroy
  <2>1. requests' \in Seq(Requests)
    BY <1>3, SentStays DEF destroy, Typed
  <2> QED
    BY <1>0, <1>3, <2>1 DEF Typed, destroy, PageOnly, session
<1> QED
  BY <1>1, <1>2, <1>3

LEMMA ReceiveStep ==
    ASSUME Typed, NEW i \in DOMAIN requests, Receive(i)
    PROVE  Typed'
<1>0. requests[i] \in Requests
  BY ElementOf DEF Typed
<1>1. requests[i].body \in Maybe /\ RemoveAt(requests, i) \in Seq(Requests)
  BY <1>0, RemovedStays DEF Typed, Requests, Shape
<1>2. sim' = sim /\ late' = late /\ cookie' = cookie /\ Requests' = Requests
  BY SameRequests DEF Receive, PageOnly, session
<1>3. None \in Maybe
  BY DEF Maybe
<1>4. CASE PollAnswered(i)
  BY <1>1, <1>2, <1>4 DEF PollAnswered, Typed
<1>5. CASE SwitchAnswered(i)
  <2>1. Append(RemoveAt(requests, i), Request("refetch", FALSE)) \in Seq(Requests)
    <3>1. Request("refetch", FALSE) \in Requests
      BY RequestIs
    <3> QED
      BY <1>1, <3>1, AppendedStays
  <2> QED
    BY <1>1, <1>2, <1>3, <1>5, <2>1 DEF SwitchAnswered, Typed
<1>6. CASE RefetchAnswered(i)
  BY <1>1, <1>2, <1>3, <1>6 DEF RefetchAnswered, Typed
<1>7. CASE DeleteAnswered(i)
  BY <1>1, <1>2, <1>7, NothingIsSeq DEF DeleteAnswered, Typed
<1> QED
  BY <1>4, <1>5, <1>6, <1>7 DEF Receive

-----------------------------------------------------------------------------
LEMMA TypedStays == Spec => []Typed
<1>1. Init => Typed
  <2> SUFFICES ASSUME Init
               PROVE  Typed
    OBVIOUS
  <2>1. sim \in Simulation
    <3>1. [enabled |-> FALSE, at |-> 0] \in Simulation /\ [enabled |-> TRUE, at |-> 1] \in Simulation
      BY DEF Simulation
    <3> QED
      BY <3>1 DEF Init
  <2>2. <<>> \in Seq(Requests) /\ <<>> \in Seq(Shape)
    BY NothingIsSeq
  <2> QED
    BY <2>1, <2>2 DEF Init, Typed, Maybe
<1>2. Typed /\ [Next]_vars => Typed'
  <2> SUFFICES ASSUME Typed, [Next]_vars
               PROVE  Typed'
    OBVIOUS
  <2>1. ASSUME NEW i \in DOMAIN requests, Deliver(i) \/ Fail(i) \/ GiveUp(i)
        PROVE  Typed'
    BY <2>1, AuthoriseStep, ForwardStep, ServeStep, ReceiveStep, TroubledStep DEF Deliver
  <2>2. CASE TakeEffect \/ Elsewhere \/ Publish
    BY <2>2, ServiceStep
  <2>3. CASE Poll \/ Toggle \/ destroy
    BY <2>3, AskStep
  <2>4. CASE Age
    BY <2>4, AgeStep
  <2>5. CASE Outage \/ SignedOut \/ Reachable \/ SignIn
    BY <2>5, TroubleStep, SessionStep
  <2>6. CASE UNCHANGED vars
    <3>1. Requests' = Requests
      BY <2>6, SameRequests DEF vars, session
    <3> QED
      BY <2>6, <3>1 DEF vars, view, session, Typed
  <2> QED
    BY <2>1, <2>2, <2>3, <2>4, <2>5, <2>6 DEF Next
<1> QED
  BY <1>1, <1>2, PTL DEF Spec

\* "A minute of slack, so a token does not expire mid-request" (token-utils.ts): a
\* request is refused for its token, by the UI's server or by the service, only if
\* Keycloak or the session was away while it was under way, also between the two
\* looks at the session.
THEOREM TokensLast == Spec => []NeverExpiresMidRequest
<1>1. Typed => NeverExpiresMidRequest
  <2>1. Typed => \A i \in DOMAIN requests : requests[i] \in Requests
    BY ElementOf DEF Typed
  <2> QED
    BY <2>1 DEF Requests, Explained, NeverExpiresMidRequest
<1> QED
  BY <1>1, TypedStays, PTL
=============================================================================
