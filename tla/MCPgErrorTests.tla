--------------------------- MODULE MCPgErrorTests ---------------------------
(* go test on package mterrors: the unit tests of pgerror.go run one at a *)
(* time, in any order, each once, and the run ends when all have run.     *)
EXTENDS PgErrorTests

VARIABLE ran   \* the tests that have run

Init == ran = {}

\* go test runs a test that has not run yet.
RunTest(t) ==
    /\ t \notin ran
    /\ ran' = ran \cup {t}

Next == \E t \in DOMAIN Tests : RunTest(t)

Spec == Init /\ [][Next]_ran

=============================================================================
