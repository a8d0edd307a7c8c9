------------------------ MODULE MqttSimulationProofs ------------------------
(***************************************************************************)
(* What MqttSimulation promises of clients and their session, for every    *)
(* number of versions, publications, starts and outages.                   *)
(***************************************************************************)
EXTENDS MqttSimulation, SequenceTheorems, TLAPS

-----------------------------------------------------------------------------
(* The inductive invariant                                                 *)

Where  == {"sent", "broker", "waiting"}
Fields == [stage : {"off", "connecting", "on"}, timer : BOOLEAN, error : BOOLEAN]

Typed ==
    /\ sim \in [Version -> Fields]
    /\ client \in [Version -> {"none", "up", "down"}]
    /\ outgoing \in [Version -> Seq(Where)]
    /\ session \in Version \cup {None} /\ replaced \in Version \cup {None}

\* A version ticks and has a client exactly while it is on.
Matches(v) ==
    /\ sim[v].timer <=> sim[v].stage = "on"
    /\ client[v] = "none" <=> sim[v].stage # "on"
    /\ Len(outgoing[v]) <= MaxInFlight

\* Two versions live at once only if the one is there to be replaced by the other.
Lives(v) == sim[v].stage # "off"
OneLives ==
    /\ replaced # None => sim[replaced].stage = "on"
    /\ \A u, v \in Version : Lives(u) /\ Lives(v) /\ u # v => replaced \in {u, v}

\* The session is that of a client that knows of no trouble.
SessionIsUp == session # None => client[session] = "up"

MqttInv == Typed /\ (\A v \in Version : Matches(v)) /\ OneLives /\ SessionIsUp

\* The fields of a version, as an action leaves them.
LEMMA FieldsOf ==
    ASSUME Typed, NEW v \in Version
    PROVE  /\ sim[v] \in Fields /\ client[v] \in {"none", "up", "down"}
           /\ outgoing[v] \in Seq(Where) /\ Len(outgoing[v]) \in Nat
           /\ DOMAIN outgoing[v] = 1 .. Len(outgoing[v])
<1>1. sim[v] \in Fields /\ client[v] \in {"none", "up", "down"} /\ outgoing[v] \in Seq(Where)
  BY DEF Typed
<1> QED
  BY <1>1, LenProperties

LEMMA SetError ==
    ASSUME NEW s \in Fields
    PROVE  /\ recordFailure(s) \in Fields /\ recordSuccess(s) \in Fields
           /\ recordFailure(s).stage = s.stage /\ recordFailure(s).timer = s.timer
           /\ recordSuccess(s).stage = s.stage /\ recordSuccess(s).timer = s.timer
BY DEF recordFailure, recordSuccess, Fields

\* All publications of a client are where at says.
LEMMA AllAt ==
    ASSUME Typed, NEW v \in Version, NEW at \in Where
    PROVE  All(v, at) \in Seq(Where) /\ Len(All(v, at)) = Len(outgoing[v])
<1> DEFINE n == Len(outgoing[v])
<1>1. n \in Nat /\ All(v, at) = [i \in 1 .. n |-> at]
  BY FieldsOf DEF All
<1> HIDE DEF n
<1>2. [i \in 1 .. n |-> at] \in Seq(Where) /\ Len([i \in 1 .. n |-> at]) = n
  BY <1>1
<1> QED
  BY <1>1, <1>2 DEF n

\* A step that leaves the stages, the timers and the clients as they are.
LEMMA Stays ==
    ASSUME MqttInv, Typed', replaced' = replaced, client' = client,
           session' = session \/ session' = None,
           \A v \in Version :
             /\ sim'[v].stage = sim[v].stage /\ sim'[v].timer = sim[v].timer
             /\ Len(outgoing'[v]) <= MaxInFlight
    PROVE  MqttInv'
<1>1. \A v \in Version : Matches(v)'
  BY DEF MqttInv, Matches
<1>2. OneLives'
  BY DEF MqttInv, OneLives, Lives, Typed
<1>3. SessionIsUp'
  BY DEF MqttInv, SessionIsUp
<1> QED
  BY <1>1, <1>2, <1>3 DEF MqttInv

\* The session stays another version's, or is v's with a client at c.
SessionAfter(v, c) ==
    \/ session' = None
    \/ session' = v /\ c = "up"
    \/ session' = session /\ session # v

\* Only v's stage, timer, client and publications change, to s, c and o.
LEMMA Changes1 ==
    ASSUME MqttInv, NEW v \in Version, NEW s \in Fields, NEW c \in {"none", "up", "down"}, NEW o \in Seq(Where),
           sim' = [sim EXCEPT ![v] = s], client' = [client EXCEPT ![v] = c],
           outgoing' = [outgoing EXCEPT ![v] = o], Len(o) <= MaxInFlight,
           s.timer <=> s.stage = "on", c = "none" <=> s.stage # "on",
           session' \in Version \cup {None}, replaced' \in Version \cup {None},
           OneLives', SessionAfter(v, c)
    PROVE  MqttInv'
<1>1. Typed'
  BY DEF MqttInv, Typed
<1>2. sim'[v] = s /\ client'[v] = c /\ outgoing'[v] = o
  BY DEF MqttInv, Typed
<1>3. \A u \in Version \ {v} : sim'[u] = sim[u] /\ client'[u] = client[u] /\ outgoing'[u] = outgoing[u]
  BY DEF MqttInv, Typed
<1>4. ASSUME NEW u \in Version PROVE Matches(u)'
  <2>1. CASE u = v
    BY <1>2, <2>1 DEF Matches
  <2>2. CASE u # v
    BY <1>3, <2>2 DEF MqttInv, Matches
  <2> QED
    BY <2>1, <2>2
<1>5. SessionIsUp'
  BY <1>2, <1>3 DEF MqttInv, SessionIsUp, SessionAfter, Typed
<1> QED
  BY <1>1, <1>4, <1>5 DEF MqttInv

-----------------------------------------------------------------------------
(* One lemma for each step                                                 *)

LEMMA TickKeeps ==
    ASSUME MqttInv, NEW v \in Version, Tick(v)
    PROVE  MqttInv'
<1>1. /\ Typed /\ sim[v] \in Fields /\ outgoing[v] \in Seq(Where) /\ Len(outgoing[v]) \in Nat
      /\ MaxInFlight \in Nat
  BY FieldsOf, MqttAssumption DEF MqttInv
<1>2. UNCHANGED <<client, session, replaced>>
  BY DEF Tick, life, net
<1>3. CASE connected(v)
  <2> DEFINE at == IF client[v] = "up" THEN "sent" ELSE "waiting"
  <2>1. at \in Where /\ Len(outgoing[v]) < MaxInFlight /\ sim' = sim
    BY <1>3 DEF Tick, Publish, Where
  <2>2. outgoing' = [outgoing EXCEPT ![v] = Append(outgoing[v], at)]
    BY <1>3 DEF Tick, Publish
  <2> HIDE DEF at
  <2>3. Append(outgoing[v], at) \in Seq(Where) /\ Len(Append(outgoing[v], at)) = Len(outgoing[v]) + 1
    BY <1>1, <2>1, AppendProperties
  <2>4. Typed'
    BY <1>1, <1>2, <2>1, <2>2, <2>3 DEF Typed
  <2>5. \A u \in Version : Len(outgoing'[u]) <= MaxInFlight
    BY <1>1, <2>1, <2>2, <2>3 DEF MqttInv, Matches, Typed
  <2> QED
    BY <1>2, <2>1, <2>4, <2>5, Stays
<1>4. CASE ~connected(v)
  <2>1. sim' = [sim EXCEPT ![v] = recordFailure(sim[v])] /\ outgoing' = outgoing
    BY <1>4 DEF Tick, Publish
  <2>2. recordFailure(sim[v]) \in Fields
    BY <1>1, SetError
  <2>3. Typed'
    BY <1>1, <1>2, <2>1, <2>2 DEF Typed
  <2>4. \A u \in Version : sim'[u].stage = sim[u].stage /\ sim'[u].timer = sim[u].timer
    BY <1>1, <2>1, SetError DEF Typed
  <2> QED
    BY <1>2, <2>1, <2>3, <2>4, Stays DEF MqttInv, Matches
<1> QED
  BY <1>3, <1>4

LEMMA ArriveKeeps ==
    ASSUME MqttInv, NEW v \in Version, Arrive(v)
    PROVE  MqttInv'
<1>1. PICK i \in DOMAIN outgoing[v] : outgoing' = [outgoing EXCEPT ![v][i] = "broker"]
  BY DEF Arrive
<1>2. Typed /\ outgoing[v] \in Seq(Where) /\ i \in 1 .. Len(outgoing[v]) /\ "broker" \in Where
  BY <1>1, FieldsOf DEF MqttInv, Where
<1> DEFINE o == [outgoing[v] EXCEPT ![i] = "broker"]
<1>3. o \in Seq(Where) /\ Len(o) = Len(outgoing[v])
  BY <1>2, ExceptSeq
<1>4. outgoing' = [outgoing EXCEPT ![v] = o]
  BY <1>1
<1>5. UNCHANGED <<sim, client, session, replaced>>
  BY DEF Arrive, life, net
<1> HIDE DEF o
<1>6. Typed' /\ \A u \in Version : Len(outgoing'[u]) <= MaxInFlight
  BY <1>2, <1>3, <1>4, <1>5 DEF MqttInv, Matches, Typed
<1> QED
  BY <1>5, <1>6, Stays

LEMMA AcknowledgedKeeps ==
    ASSUME MqttInv, NEW v \in Version, Acknowledged(v)
    PROVE  MqttInv'
<1>1. /\ Typed /\ sim[v] \in Fields /\ outgoing[v] \in Seq(Where) /\ Len(outgoing[v]) \in Nat
      /\ MaxInFlight \in Nat /\ outgoing[v] # <<>>
  BY FieldsOf, MqttAssumption DEF MqttInv, Acknowledged
<1>2. Tail(outgoing[v]) \in Seq(Where) /\ Len(Tail(outgoing[v])) = Len(outgoing[v]) - 1
  BY <1>1, HeadTailProperties
<1>3. /\ outgoing' = [outgoing EXCEPT ![v] = Tail(outgoing[v])]
      /\ sim' = [sim EXCEPT ![v] = recordSuccess(sim[v])]
      /\ UNCHANGED <<client, session, replaced>>
  BY DEF Acknowledged, life, net
<1>4. recordSuccess(sim[v]) \in Fields
  BY <1>1, SetError
<1>5. Typed'
  BY <1>1, <1>2, <1>3, <1>4 DEF Typed
<1>6. \A u \in Version : /\ sim'[u].stage = sim[u].stage /\ sim'[u].timer = sim[u].timer
                         /\ Len(outgoing'[u]) <= MaxInFlight
  BY <1>1, <1>2, <1>3, SetError DEF MqttInv, Matches, Typed
<1> QED
  BY <1>3, <1>5, <1>6, Stays

LEMMA OrphanKeeps ==
    ASSUME MqttInv, NEW v \in Version, OrphanFails(v)
    PROVE  MqttInv'
<1>1. Typed /\ sim[v] \in Fields
  BY FieldsOf DEF MqttInv
<1>2. /\ sim' = [sim EXCEPT ![v] = recordFailure(sim[v])]
      /\ UNCHANGED <<client, outgoing, session, replaced>>
  BY DEF OrphanFails, net
<1>3. Typed'
  BY <1>1, <1>2, SetError DEF Typed
<1>4. \A u \in Version : sim'[u].stage = sim[u].stage /\ sim'[u].timer = sim[u].timer
  BY <1>1, <1>2, SetError DEF Typed
<1> QED
  BY <1>2, <1>3, <1>4, Stays DEF MqttInv, Matches

\* A client notices, or reconnects: what it has waits, or is sent again.
LEMMA ConnectionKeeps ==
    ASSUME MqttInv, NEW v \in Version, Noticed(v) \/ Reconnect(v)
    PROVE  MqttInv'
<1> DEFINE c == IF Noticed(v) THEN "down" ELSE "up"
           at == IF Noticed(v) THEN "waiting" ELSE "sent"
<1>1. /\ Typed /\ Matches(v) /\ sim[v] \in Fields /\ sim[v].stage = "on"
      /\ c \in {"up", "down"} /\ at \in Where
  BY FieldsOf DEF MqttInv, Noticed, Reconnect, Matches, Where
<1>2. /\ client' = [client EXCEPT ![v] = c] /\ outgoing' = [outgoing EXCEPT ![v] = All(v, at)]
      /\ UNCHANGED <<sim, replaced>>
      /\ SessionAfter(v, c) /\ session' \in {session, v}
  <2>1. CASE Noticed(v)
    <3>1. c = "down" /\ at = "waiting"
      BY <2>1
    <3> HIDE DEF c, at
    <3> QED
      BY <2>1, <3>1 DEF Noticed, SessionAfter, life, net
  <2>2. CASE ~Noticed(v) /\ Reconnect(v)
    <3>1. c = "up" /\ at = "sent"
      BY <2>2
    <3> HIDE DEF c, at
    <3> QED
      BY <2>2, <3>1 DEF Reconnect, SessionAfter, life
  <2> QED
    BY <2>1, <2>2
<1> HIDE DEF c, at
<1>3. All(v, at) \in Seq(Where) /\ Len(All(v, at)) <= MaxInFlight
  BY <1>1, AllAt DEF Matches
<1>4. sim' = [sim EXCEPT ![v] = sim[v]] /\ OneLives' /\ replaced' \in Version \cup {None}
      /\ session' \in Version \cup {None}
  BY <1>1, <1>2 DEF MqttInv, OneLives, Lives, Typed
<1>5. (sim[v].timer <=> sim[v].stage = "on") /\ (c = "none" <=> sim[v].stage # "on")
  BY <1>1 DEF Matches
<1> QED
  BY <1>1, <1>2, <1>3, <1>4, <1>5, Changes1

\* The broker, or the network, ends the connections, or is there again.
LEMMA NetworkKeeps ==
    ASSUME MqttInv, Outage \/ Lost \/ Back
    PROVE  MqttInv'
<1>1. UNCHANGED <<sim, client, outgoing, replaced>> /\ (session' = session \/ session' = None)
  BY DEF Outage, Lost, Back, Trouble, life
<1>2. Typed'
  BY <1>1 DEF MqttInv, Typed
<1> QED
  BY <1>1, <1>2, Stays DEF MqttInv, Matches

\* Between changes at most one version lives.
LEMMA OneBetween ==
    ASSUME MqttInv, ~Changing, NEW u \in Version, NEW v \in Version, Lives(u), Lives(v)
    PROVE  u = v
BY MqttAssumption DEF MqttInv, OneLives, Changing

LEMMA StartKeeps ==
    ASSUME MqttInv, NEW v \in Version, Start(v)
    PROVE  MqttInv'
<1>1. /\ Typed /\ Matches(v) /\ sim[v] \in Fields /\ sim[v].stage = "off" /\ ~sim[v].timer
      /\ client[v] = "none" /\ replaced = None
  BY FieldsOf DEF MqttInv, Start, Matches, Changing
<1>2. UNCHANGED <<client, outgoing, session>>
  BY DEF Start, net
<1>3. PICK s \in Fields :
        /\ s.stage = "connecting" /\ ~s.timer /\ sim' = [sim EXCEPT ![v] = s]
        /\ \/ Running = {} /\ replaced' = replaced
           \/ Running # {} /\ replaced' \in Running
  <2>1. CASE Running = {} /\ UNCHANGED replaced /\ sim' = [sim EXCEPT ![v].stage = "connecting"]
    <3> DEFINE s == [sim[v] EXCEPT !.stage = "connecting"]
    <3>1. s \in Fields /\ s.stage = "connecting" /\ ~s.timer /\ sim' = [sim EXCEPT ![v] = s]
      BY <1>1, <2>1 DEF Fields
    <3> HIDE DEF s
    <3> QED
      BY <2>1, <3>1
  <2>2. CASE /\ Running # {} /\ replaced' \in Running
             /\ sim' = [sim EXCEPT ![v] = [Fresh EXCEPT !.stage = "connecting"]]
    <3> DEFINE s == [Fresh EXCEPT !.stage = "connecting"]
    <3>1. s \in Fields /\ s.stage = "connecting" /\ ~s.timer
      BY DEF Fields, Fresh
    <3> HIDE DEF s
    <3> QED
      BY <2>2, <3>1 DEF s
  <2> QED
    BY <2>1, <2>2 DEF Start
<1>4. sim'[v] = s /\ \A u \in Version \ {v} : sim'[u] = sim[u]
  BY <1>1, <1>3 DEF Typed
<1>5. ~Changing
  BY DEF Start
<1>6. OneLives'
  <2>1. CASE Running = {} /\ replaced' = replaced
    <3>1. \A u \in Version : ~Lives(u)
      BY <1>5, <2>1, FieldsOf, <1>1 DEF Running, Changing, Lives, Fields
    <3> QED
      BY <1>1, <1>4, <2>1, <3>1 DEF OneLives, Lives
  <2>2. CASE Running # {} /\ replaced' \in Running
    <3>1. replaced' \in Version /\ sim[replaced'].stage = "on" /\ replaced' # v
      BY <1>1, <2>2 DEF Running
    <3>2. \A u \in Version : Lives(u) => u = replaced'
      BY <1>5, <3>1, OneBetween DEF Lives
    <3> QED
      BY <1>4, <3>1, <3>2 DEF OneLives, Lives
  <2> QED
    BY <1>3, <2>1, <2>2
<1>7. /\ client' = [client EXCEPT ![v] = client[v]] /\ outgoing' = [outgoing EXCEPT ![v] = outgoing[v]]
      /\ outgoing[v] \in Seq(Where) /\ Len(outgoing[v]) <= MaxInFlight
      /\ replaced' \in Version \cup {None} /\ session' \in Version \cup {None}
  BY <1>1, <1>2, <1>3 DEF Typed, Matches, Running
<1>8. SessionAfter(v, client[v])
  BY <1>1, <1>2 DEF MqttInv, SessionIsUp, SessionAfter
<1> QED
  BY <1>1, <1>3, <1>6, <1>7, <1>8, Changes1

LEMMA ConnectedKeeps ==
    ASSUME MqttInv, NEW v \in Version, Connected(v)
    PROVE  MqttInv'
<1> DEFINE s == [sim[v] EXCEPT !.stage = "on", !.error = FALSE, !.timer = TRUE]
<1>1. Typed /\ sim[v] \in Fields /\ sim[v].stage = "connecting"
  BY FieldsOf DEF MqttInv, Connected
<1>2. s \in Fields /\ s.stage = "on" /\ s.timer
  BY <1>1 DEF Fields
<1>3. /\ sim' = [sim EXCEPT ![v] = s] /\ client' = [client EXCEPT ![v] = "up"]
      /\ outgoing' = [outgoing EXCEPT ![v] = <<"sent">>] /\ session' = v /\ replaced' = replaced
  BY DEF Connected, life
<1> HIDE DEF s
<1>4. <<"sent">> \in Seq(Where) /\ Len(<<"sent">>) = 1 /\ 1 <= MaxInFlight
  BY MqttAssumption DEF Where
<1>5. sim'[v] = s /\ \A u \in Version \ {v} : sim'[u] = sim[u]
  BY <1>1, <1>3 DEF Typed
<1>6. OneLives'
  BY <1>1, <1>2, <1>3, <1>5 DEF MqttInv, OneLives, Lives, Typed
<1>7. replaced' \in Version \cup {None} /\ session' \in Version \cup {None} /\ SessionAfter(v, "up")
  BY <1>1, <1>3 DEF Typed, SessionAfter
<1> QED
  BY <1>2, <1>3, <1>4, <1>6, <1>7, Changes1

LEMMA ConnectFailsKeeps ==
    ASSUME MqttInv, NEW v \in Version, ConnectFails(v)
    PROVE  MqttInv'
<1> DEFINE s == [sim[v] EXCEPT !.stage = "off"]
<1>1. Typed /\ sim[v] \in Fields /\ sim[v].stage = "connecting" /\ Matches(v) /\ client[v] = "none"
  BY FieldsOf DEF MqttInv, ConnectFails, Matches
<1>2. s \in Fields /\ s.stage = "off" /\ ~s.timer
  BY <1>1 DEF Fields, Matches
<1>3. /\ sim' = [sim EXCEPT ![v] = recordFailure(s)] /\ replaced' = None
      /\ UNCHANGED <<client, outgoing, session>>
  BY DEF ConnectFails, net
<1>4. recordFailure(s) \in Fields /\ recordFailure(s).stage = "off" /\ ~recordFailure(s).timer
  BY <1>2, SetError
<1> DEFINE t == recordFailure(s)
<1> HIDE DEF s, t
<1>5. sim'[v].stage = "off" /\ \A u \in Version \ {v} : sim'[u] = sim[u]
  BY <1>1, <1>3, <1>4 DEF Typed
<1>6. \A u \in Version : u # v /\ Lives(u) => replaced = u
  <2> SUFFICES ASSUME NEW u \in Version, u # v, Lives(u) PROVE replaced = u
    OBVIOUS
  <2>1. replaced \in {u, v}
    BY <1>1 DEF MqttInv, OneLives, Lives
  <2>2. replaced # v
    BY <1>1, MqttAssumption DEF MqttInv, OneLives
  <2> QED
    BY <2>1, <2>2
<1>7. OneLives'
  BY <1>3, <1>5, <1>6 DEF OneLives, Lives
<1>8. /\ client' = [client EXCEPT ![v] = "none"] /\ outgoing' = [outgoing EXCEPT ![v] = outgoing[v]]
      /\ outgoing[v] \in Seq(Where) /\ Len(outgoing[v]) <= MaxInFlight
      /\ session' \in Version \cup {None} /\ SessionAfter(v, "none")
  BY <1>1, <1>3 DEF Typed, Matches, MqttInv, SessionIsUp, SessionAfter
<1> QED
  BY <1>3, <1>4, <1>7, <1>8, Changes1

\* A version goes, and with it its client; the one that is left is not replaced.
LEMMA TeardownKeeps ==
    ASSUME MqttInv, NEW v \in Version, Stop(v) \/ Replaced(v)
    PROVE  MqttInv'
<1> DEFINE s == [sim[v] EXCEPT !.stage = "off", !.timer = FALSE]
<1>1. Typed /\ sim[v] \in Fields /\ sim[v].stage = "on"
  BY FieldsOf DEF MqttInv, Stop, Replaced
<1>2. s \in Fields /\ s.stage = "off" /\ ~s.timer
  BY <1>1 DEF Fields
<1>3. /\ sim' = [sim EXCEPT ![v] = s] /\ client' = [client EXCEPT ![v] = "none"]
      /\ outgoing' = [outgoing EXCEPT ![v] = <<>>]
      /\ session' = IF session = v THEN None ELSE session
      /\ replaced' = None
  BY DEF Stop, Replaced, Teardown, Ended, Changing
<1> HIDE DEF s
<1>4. <<>> \in Seq(Where) /\ Len(<<>>) <= MaxInFlight
  BY MqttAssumption
<1>5. sim'[v].stage = "off" /\ \A u \in Version \ {v} : sim'[u] = sim[u]
  BY <1>1, <1>2, <1>3 DEF Typed
<1>6. ASSUME NEW u \in Version, NEW w \in Version, Lives(u), Lives(w), u # v, w # v
      PROVE  u = w
  <2> SUFFICES ASSUME u # w PROVE FALSE
    OBVIOUS
  <2>1. replaced \in {u, w} /\ replaced \in {u, v} /\ replaced \in {v, w}
    BY <1>1, <1>6 DEF MqttInv, OneLives, Lives
  <2> QED
    BY <1>6, <2>1
<1>7. OneLives'
  BY <1>3, <1>5, <1>6 DEF OneLives, Lives
<1>8. session' \in Version \cup {None} /\ SessionAfter(v, "none")
  BY <1>1, <1>3 DEF Typed, SessionAfter
<1> QED
  BY <1>2, <1>3, <1>4, <1>7, <1>8, Changes1

-----------------------------------------------------------------------------
(* Theorems                                                                *)

LEMMA MqttInit == Init => MqttInv
<1> SUFFICES ASSUME Init PROVE MqttInv
  OBVIOUS
<1>1. Fresh \in Fields /\ Fresh.stage = "off" /\ ~Fresh.timer
  BY DEF Fresh, Fields
<1>2. <<>> \in Seq(Where) /\ Len(<<>>) <= MaxInFlight
  BY MqttAssumption
<1>3. Typed
  BY <1>1, <1>2 DEF Init, Typed
<1>4. \A v \in Version : sim[v] = Fresh /\ client[v] = "none" /\ outgoing[v] = <<>>
  BY DEF Init
<1>5. \A v \in Version : Matches(v)
  BY <1>1, <1>2, <1>4 DEF Matches
<1>6. OneLives /\ SessionIsUp
  BY <1>1, <1>4 DEF Init, OneLives, Lives, SessionIsUp
<1> QED
  BY <1>3, <1>5, <1>6 DEF MqttInv

LEMMA MqttNext == MqttInv /\ [Next]_vars => MqttInv'
<1> SUFFICES ASSUME MqttInv, [Next]_vars PROVE MqttInv'
  OBVIOUS
<1>1. ASSUME NEW v \in Version,
             Tick(v) \/ Runs(v) \/ OrphanFails(v) \/ Start(v) \/ Changes(v) \/ Stop(v)
      PROVE  MqttInv'
  BY <1>1, TickKeeps, ArriveKeeps, AcknowledgedKeeps, OrphanKeeps, ConnectionKeeps, StartKeeps,
     ConnectedKeeps, ConnectFailsKeeps, TeardownKeeps DEF Runs, Changes
<1>2. CASE Outage \/ Lost \/ Back
  BY <1>2, NetworkKeeps
<1>3. CASE UNCHANGED vars
  <2>1. UNCHANGED <<sim, client, outgoing, session, replaced>>
    BY <1>3 DEF vars, life, net
  <2> QED
    BY <2>1 DEF MqttInv, Typed, Matches, OneLives, Lives, SessionIsUp
<1> QED
  BY <1>1, <1>2, <1>3 DEF Next

LEMMA MqttInductive == Spec => []MqttInv
BY MqttInit, MqttNext, PTL DEF Spec

\* A version ticks and has a client exactly while it is on.
THEOREM ClientsMatch == Spec => []TypeOK
<1>1. MqttInv => TypeOK
  <2> SUFFICES ASSUME MqttInv PROVE TypeOK
    OBVIOUS
  <2>1. ASSUME NEW v \in Version
        PROVE  /\ sim[v].stage \in {"off", "connecting", "on"}
               /\ sim[v].timer = (sim[v].stage = "on")
               /\ (client[v] = "none") = (sim[v].stage # "on")
               /\ Len(outgoing[v]) <= MaxInFlight
    <3>1. sim[v] \in Fields /\ Matches(v)
      BY FieldsOf DEF MqttInv
    <3>2. sim[v].stage \in {"off", "connecting", "on"} /\ sim[v].timer \in BOOLEAN
      BY <3>1 DEF Fields
    <3>3. sim[v].timer = (sim[v].stage = "on")
      BY <3>1, <3>2, Zenon DEF Matches
    <3> QED
      BY <3>1, <3>2, <3>3 DEF Matches
  <2> QED
    BY <2>1 DEF MqttInv, Typed, TypeOK
<1> QED
  BY <1>1, MqttInductive, PTL

\* Two versions of a simulation have a client at once only while the one replaces
\* the other, although every change may fail and every connection be lost.
THEOREM OneClientAtATime == Spec => []OneClient
<1>1. MqttInv => OneClient
  BY DEF MqttInv, OneLives, Lives, Matches, OneClient
<1> QED
  BY <1>1, MqttInductive, PTL

\* Between changes no version takes the session from the one that has it: nothing
\* but a new start or a lost connection ends it.
THEOREM SessionIsKept == Spec => NobodyTakesOver
<1> DEFINE Kept == \A v \in Version : session = v /\ ~Changing /\ ~Changing' => session' \in {v, None}
<1>1. MqttInv /\ [Next]_vars => [Kept]_vars
  <2> SUFFICES ASSUME MqttInv, Next, NEW v \in Version, session = v, ~Changing
               PROVE  session' \in {v, None}
    OBVIOUS
  <2>1. client[v] = "up" /\ Lives(v)
    BY MqttAssumption DEF MqttInv, SessionIsUp, Matches, Lives
  <2>2. ASSUME NEW u \in Version, Reconnect(u) PROVE FALSE
    <3>1. client[u] = "down" /\ Lives(u)
      BY <2>2 DEF Reconnect, MqttInv, Matches, Lives
    <3> QED
      BY <2>1, <3>1, OneBetween
  <2>3. ASSUME NEW u \in Version, Connected(u) PROVE FALSE
    BY <2>3 DEF Connected, Changing
  <2>4. ASSUME NEW u \in Version,
               \/ Tick(u) \/ Noticed(u) \/ Arrive(u) \/ Acknowledged(u) \/ OrphanFails(u)
               \/ Start(u) \/ ConnectFails(u) \/ Replaced(u) \/ Stop(u)
        PROVE  session' \in {session, None}
    BY <2>4 DEF Tick, Noticed, Arrive, Acknowledged, OrphanFails, Start, ConnectFails, Replaced,
                Stop, Teardown, Ended, net
  <2>5. Outage \/ Lost \/ Back => session' \in {session, None}
    BY DEF Outage, Lost, Back, Trouble
  <2> QED
    BY <2>2, <2>3, <2>4, <2>5 DEF Next, Runs, Changes
<1> QED
  BY <1>1, MqttInductive, PTL DEF NobodyTakesOver, Spec
=============================================================================
