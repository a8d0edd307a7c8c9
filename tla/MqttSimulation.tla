---------------------------- MODULE MqttSimulation ----------------------------
(***************************************************************************)
(* An MQTT simulation at work: startMqtt() and its ticks (registry.ts) and *)
(* the publisher (publisher.ts) over mqtt.js, which reconnects by itself   *)
(* and sends again what was not acknowledged.  All versions of a           *)
(* simulation use one client id, so the broker ends one connection when    *)
(* another one is made.  Registry tells when versions start and stop.      *)
(***************************************************************************)
EXTENDS Integers, SequencesExt

CONSTANTS None,
          Version,      \* simulation objects of one id
          MaxInFlight,  \* bound: publications not acknowledged yet
          MaxStarts, MaxTroubles   \* bounds: starts; outages and lost connections

ASSUME MqttAssumption ==
  /\ None \notin Version /\ MaxInFlight \in Nat \ {0}
  /\ MaxStarts \in Nat /\ MaxTroubles \in Nat

VARIABLES sim,        \* version -> stage, timer, is lastError set
          client,     \* version -> "none", or its client.connected: "up", "down"
          outgoing,   \* version -> where its publications are that were not acknowledged
          orphans,    \* versions with publications of a client that was ended
          replaced,   \* the version a put() will tear down
          session,    \* the version whose connection the broker holds
          reachable,  \* is the broker there
          starts, troubles

life == <<orphans, replaced, starts>>
net  == <<session, reachable, troubles>>
vars == <<sim, client, outgoing, life, net>>

\* newSimulation()
Fresh == [stage |-> "off", timer |-> FALSE, error |-> FALSE]

-----------------------------------------------------------------------------
(* Ticks and what they record.                                             *)

\* A publication on its way is sent, at the broker, or waiting for a connection.
recordSuccess(s) == [s EXCEPT !.error = FALSE]

\* Mutation of recordFailure: the interval ends with the first error.
StopsTicking(s)  == [s EXCEPT !.error = TRUE, !.timer = FALSE]
recordFailure(s) == [s EXCEPT !.error = TRUE]

\* Mutation of connected: what is published during an outage is queued.
always(v) == TRUE
connected(v) == client[v] = "up"

\* QoS 1: the outcome is recorded when the broker acknowledged.
Publish(v) ==
  IF connected(v)
  THEN /\ Len(outgoing[v]) < MaxInFlight
       /\ outgoing' = [outgoing EXCEPT ![v] = Append(@, IF client[v] = "up" THEN "sent" ELSE "waiting")]
       /\ UNCHANGED sim
  ELSE sim' = [sim EXCEPT ![v] = recordFailure(@)] /\ UNCHANGED outgoing

\* The interval does not wait for the acknowledgement before.
Tick(v) == /\ sim[v].timer
           /\ Publish(v)
           /\ UNCHANGED <<client, life, net>>

\* The broker takes the first publication that was sent, and acknowledges it.
Arrive(v) ==
  /\ session = v /\ client[v] = "up"
  /\ \E i \in DOMAIN outgoing[v] :
       /\ outgoing[v][i] = "sent" /\ \A j \in 1 .. i - 1 : outgoing[v][j] # "sent"
       /\ outgoing' = [outgoing EXCEPT ![v][i] = "broker"]
  /\ UNCHANGED <<sim, client, life, net>>
Acknowledged(v) ==
  /\ session = v /\ client[v] = "up" /\ outgoing[v] # <<>> /\ outgoing[v][1] = "broker"
  /\ outgoing' = [outgoing EXCEPT ![v] = Tail(@)]
  /\ sim' = [sim EXCEPT ![v] = recordSuccess(@)]
  /\ UNCHANGED <<client, life, net>>

\* A client that was ended may reject what it had not sent, or never settle it.
OrphanFails(v) ==
  /\ v \in orphans /\ orphans' = orphans \ {v}
  /\ sim' = [sim EXCEPT ![v] = recordFailure(@)]
  /\ UNCHANGED <<client, outgoing, replaced, starts, net>>

-----------------------------------------------------------------------------
(* The connection.                                                         *)

All(v, at) == [i \in DOMAIN outgoing[v] |-> at]

\* The client learns that its connection is gone; it keeps what is not acknowledged.
Noticed(v) ==
  /\ client[v] = "up" /\ session # v
  /\ client' = [client EXCEPT ![v] = "down"]
  /\ outgoing' = [outgoing EXCEPT ![v] = All(v, "waiting")]
  /\ UNCHANGED <<sim, life, net>>

\* Every 5 s; the broker ends the connection that has the same client id.
Reconnect(v) ==
  /\ client[v] = "down" /\ reachable
  /\ client' = [client EXCEPT ![v] = "up"] /\ session' = v
  /\ outgoing' = [outgoing EXCEPT ![v] = All(v, "sent")]
  /\ UNCHANGED <<sim, life, reachable, troubles>>

Trouble == /\ troubles < MaxTroubles /\ troubles' = troubles + 1 /\ session' = None
           /\ UNCHANGED <<sim, client, outgoing, life>>
Outage == reachable /\ reachable' = FALSE /\ Trouble
Lost   == session # None /\ UNCHANGED reachable /\ Trouble
Back   == /\ ~reachable /\ reachable' = TRUE
          /\ UNCHANGED <<sim, client, outgoing, life, session, troubles>>

-----------------------------------------------------------------------------
(* Starting and stopping, one change at a time.                            *)

Running   == {v \in Version : sim[v].stage = "on"}
Changing  == replaced # None \/ \E v \in Version : sim[v].stage = "connecting"

\* Resumed, registered, or put() beside the version it replaces.
Start(v) ==
  /\ sim[v].stage = "off" /\ ~Changing /\ starts < MaxStarts
  /\ starts' = starts + 1
  /\ \/ Running = {} /\ UNCHANGED replaced /\ sim' = [sim EXCEPT ![v].stage = "connecting"]
     \/ /\ Running # {} /\ v \notin orphans /\ replaced' \in Running
        /\ sim' = [sim EXCEPT ![v] = [Fresh EXCEPT !.stage = "connecting"]]
  /\ UNCHANGED <<client, outgoing, orphans, net>>

\* start() goes on: no error, a first tick at once, then the interval.
Connected(v) ==
  /\ sim[v].stage = "connecting" /\ reachable
  /\ client' = [client EXCEPT ![v] = "up"] /\ session' = v
  /\ sim' = [sim EXCEPT ![v] = [@ EXCEPT !.stage = "on", !.error = FALSE, !.timer = TRUE]]
  /\ outgoing' = [outgoing EXCEPT ![v] = <<"sent">>]
  /\ UNCHANGED <<life, reachable, troubles>>

\* The first attempt is not repeated; a version that runs goes on running.
ConnectFails(v) ==
  /\ sim[v].stage = "connecting"
  /\ sim' = [sim EXCEPT ![v] = recordFailure([@ EXCEPT !.stage = "off"])]
  /\ replaced' = None
  /\ UNCHANGED <<client, outgoing, orphans, starts, net>>

\* teardown(): no interval; the client is ended with what it had not sent.
\* Mutation of Ended: the client is only forgotten, and reconnects.
Forgotten(v) == UNCHANGED <<client, session>>
Ended(v) == /\ client' = [client EXCEPT ![v] = "none"]
            /\ session' = IF session = v THEN None ELSE session
Teardown(v) ==
  /\ sim' = [sim EXCEPT ![v].stage = "off", ![v].timer = FALSE]
  /\ Ended(v)
  /\ outgoing' = [outgoing EXCEPT ![v] = <<>>]
  /\ orphans' = IF outgoing[v] = <<>> THEN orphans ELSE orphans \cup {v}
  /\ UNCHANGED <<starts, reachable, troubles>>

\* Switched off or removed.
Stop(v) == sim[v].stage = "on" /\ ~Changing /\ Teardown(v) /\ UNCHANGED replaced

\* The replacement is stored and the old version goes, or it is not and goes itself.
Replaced(v) ==
  /\ replaced # None /\ sim[v].stage = "on"
  /\ \A u \in Version : sim[u].stage # "connecting"
  /\ Teardown(v) /\ replaced' = None

-----------------------------------------------------------------------------
Init ==
  /\ sim = [v \in Version |-> Fresh]
  /\ client = [v \in Version |-> "none"] /\ outgoing = [v \in Version |-> <<>>]
  /\ orphans = {} /\ replaced = None
  /\ session = None /\ reachable \in BOOLEAN
  /\ starts = 0 /\ troubles = 0

\* What goes on with nobody asking.
Runs(v) == Noticed(v) \/ Reconnect(v) \/ Arrive(v) \/ Acknowledged(v)
Changes(v) == Connected(v) \/ ConnectFails(v) \/ Replaced(v)

Next ==
  \/ \E v \in Version : Tick(v) \/ Runs(v) \/ OrphanFails(v) \/ Start(v) \/ Changes(v) \/ Stop(v)
  \/ Outage \/ Lost \/ Back

Spec == Init /\ [][Next]_vars

\* The interval fires, lost connections are noticed, mqtt.js reconnects, the
\* broker answers, and a change in flight comes to its end.  Nothing brings the
\* broker back and nobody starts or stops a version.
FairSpec ==
  /\ Spec
  /\ \A v \in Version :
       /\ WF_vars(Tick(v)) /\ WF_vars(Noticed(v)) /\ WF_vars(Reconnect(v))
       /\ WF_vars(Arrive(v)) /\ WF_vars(Acknowledged(v)) /\ WF_vars(Changes(v))

-----------------------------------------------------------------------------
\* A version ticks and has a client exactly while it is on.
TypeOK ==
  /\ session \in Version \cup {None} /\ replaced \in Version \cup {None}
  /\ \A v \in Version :
       /\ sim[v].stage \in {"off", "connecting", "on"}
       /\ sim[v].timer = (sim[v].stage = "on")
       /\ (client[v] = "none") = (sim[v].stage # "on")
       /\ Len(outgoing[v]) <= MaxInFlight

\* Two clients would share an id: two versions have one at once only while the one
\* is there to be replaced by the other.
OneClient ==
  \A u, v \in Version : client[u] # "none" /\ client[v] # "none" /\ u # v => replaced \in {u, v}

\* Between changes nobody takes the session over: it stays or is lost.
NobodyTakesOver ==
  [][\A v \in Version : session = v /\ ~Changing /\ ~Changing' => session' \in {v, None}]_vars

\* "Fail the tick rather than queue: the status should show the outage."
OutageIsShown ==
  \A v \in Version : client[v] = "down" ~> client[v] # "down" \/ sim[v].error

\* "Keep the timer running: brokers come back": once the broker stays, an error
\* goes away without anybody's help.
RecoversByItself ==
  <>[]reachable => \A v \in Version : (sim[v].error /\ sim[v].stage = "on") ~>
                                        (~sim[v].error \/ sim[v].stage # "on")

\* "Sharing an id makes brokers kick the connections off": versions take the
\* session over from each other while one replaces the other, but a version that
\* goes on running ends up with the session, and keeps it.
KeepsTheSession ==
  <>[]reachable => \A v \in Version : <>[](sim[v].stage = "on" /\ replaced = None) => <>[](session = v)
=============================================================================
