------------------------------ MODULE Settings ------------------------------
(***************************************************************************)
(* What the service promises its callers about the settings it keeps       *)
(* (README.md, src/src/store.ts): a map from ids to configurations, at     *)
(* most MaxSimulations of them.  A call changes one entry, at once or not  *)
(* at all; a switch changes nothing but `enabled`; nothing else changes an *)
(* entry, neither a failed start nor a stop or crash of the service.       *)
(* Registry implements it with queues, connections and a database.         *)
(***************************************************************************)
EXTENDS Naturals, FiniteSets

CONSTANTS Id, Setting, MaxSimulations, None

VARIABLE settings

Kept == {id \in Id : settings[id] # None}

Init ==
    /\ settings \in [Id -> Setting \cup {None}]
    /\ Cardinality(Kept) <= MaxSimulations

Set(id, setting) ==
    /\ id \in Kept \/ Cardinality(Kept) < MaxSimulations
    /\ settings' = [settings EXCEPT ![id] = setting]

Forget(id) == settings' = [settings EXCEPT ![id] = None]

Switch(id) ==
    /\ id \in Kept
    /\ settings' = [settings EXCEPT ![id].enabled = ~@]

Next ==
    \E id \in Id :
        \/ \E setting \in Setting : Set(id, setting)
        \/ Forget(id)
        \/ Switch(id)

Spec == Init /\ [][Next]_settings
=============================================================================
