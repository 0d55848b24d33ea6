--------------------------- MODULE SessionSettings ---------------------------
(***************************************************************************)
(* What the gateway promises a client about its settings, whatever backend *)
(* serves it: each session has its own effective value for every           *)
(* parameter, changed only by its own SETs, and a SHOW returns exactly the *)
(* session's effective settings (part_000, tests 4, 5 and 6).               *)
(***************************************************************************)
CONSTANTS
    Sessions,  \* client sessions
    Keys,      \* parameter names
    Values,    \* values a SET may give
    Default,   \* the server default of a parameter nobody set
    NoShow     \* no SHOW yet

VARIABLES
    eff,    \* eff[s]: the value session s should see for each parameter
    shown   \* the last SHOW: <<session, parameter, value>>, or NoShow

Settings == [Keys -> Values \cup {Default}]

Init ==
    /\ eff \in [Sessions -> Settings]
    /\ shown = NoShow

\* SET k = v in session s.
Set(s, k, v) ==
    /\ eff' = [eff EXCEPT ![s][k] = v]
    /\ UNCHANGED shown

\* SHOW k in session s.
Show(s, k) ==
    /\ shown' = <<s, k, eff[s][k]>>
    /\ UNCHANGED eff

Next == \E s \in Sessions :
           \/ \E k \in Keys, v \in Values : Set(s, k, v)
           \/ \E k \in Keys : Show(s, k)

Spec == Init /\ [][Next]_<<eff, shown>>

=============================================================================
