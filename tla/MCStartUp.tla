------------------------------ MODULE MCStartUp ------------------------------
EXTENDS StartUp

\* An old build and a new one with a second migration.
Builds == [p \in {"old", "new"} |-> IF p = "new" THEN 2 ELSE 1]
=============================================================================
