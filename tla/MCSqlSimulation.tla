-------------------------- MODULE MCSqlSimulation --------------------------
(***************************************************************************)
(* Small instances of SqlSimulation for TLC.                               *)
(***************************************************************************)
EXTENDS SqlSimulation

CONSTANTS v1, v2, q1, q2

OneVersion  == {v1}
TwoVersions == {v1, v2}
OneQuery    == {q1}
TwoQueries  == {q1, q2}

NoneFills    == {}
SecondFills  == {v2}
AfterOthers  == {"off"}
BesideOthers == {"off", "on"}

\* Empty, a series with a gap, full, and more than full (not a series
\* that starts at 1 and grew: UpToMaxRows tells them apart).
AnyRows == {{}, {2, 5}, 1 .. MaxRows, 2 .. (MaxRows + 3)}
NoRows  == {{}}
=============================================================================
