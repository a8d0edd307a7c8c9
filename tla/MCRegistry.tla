----------------------------- MODULE MCRegistry -----------------------------
(***************************************************************************)
(* Small instances of Registry for TLC.                                    *)
(***************************************************************************)
EXTENDS Registry

CONSTANTS sim1, sim2, mqtt, sql, fill, gone

OneId  == {sim1}
TwoIds == {sim1, sim2}

\* Two simulation objects of an id can be alive at once (put's old and new);
\* the third is for one whose interval still ticks after it was dropped.
ThreeSlots == {1, 2, 3}

NothingStored  == {[id \in Id |-> None]}
AnythingStored == [Id -> Input \cup {None}]
UnderTheCap    ==
    {rows \in AnythingStored :
        Cardinality({id \in Id : rows[id] # None /\ rows[id].version \notin Outdated}) <= MaxSimulations}
=============================================================================
