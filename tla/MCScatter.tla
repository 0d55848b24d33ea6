------------------------------ MODULE MCScatter ------------------------------
EXTENDS Scatter, TLC

\* lock_timeout, which both sessions send at startup (part_000, test 5),
\* and work_mem, which only a SET gives (spec 8, the second-shard scenario).
MCKeys == {"lock_timeout", "work_mem"}

\* The two startup values of test 5 and the SET value of test 4.
MCValues == {"11s", "22s", "15s"}

MCStartupParams == [s \in {"A", "B"} |->
                      IF s = "A" THEN "lock_timeout" :> "11s"
                      ELSE "lock_timeout" :> "22s"]

\* Backends are interchangeable: none is named by any definition.
MCSymmetry == Permutations(Backends)

=============================================================================
