------------------------------- MODULE Scatter -------------------------------
(***************************************************************************)
(* The coordinator of spec 4.5: client sessions share a pool of backend    *)
(* connections.  A session takes a backend from the pool (a new shard, a   *)
(* reconnect, pool rotation), snapshots mergedSettings of its state under  *)
(* its mutex, and brings the backend to that snapshot (RESET, then SET    *)
(* each key) before any query; a SET of the session goes to its session    *)
(* state and to every backend it holds; SHOW runs on a held backend.  A    *)
(* backend can fail while its settings are applied or later (FATAL); a     *)
(* broken backend is replaced by a new connection, which starts at the    *)
(* server defaults.                                                        *)
(*                                                                         *)
(* The coordinator's code is not in this repository: the module follows    *)
(* spec 4.5 and 5 and the end-to-end tests of part_000.                    *)
(***************************************************************************)
EXTENDS SessionState

CONSTANTS
    Sessions,       \* client sessions
    Backends,       \* pooled backend connections
    StartupParams,  \* StartupParams[s]: what session s sent at its handshake
    SetValues,      \* the values the clients' SETs give
    Default,        \* a parameter's server default
    NoSession,      \* owner of a backend nobody holds
    NoShow          \* no SHOW yet

ASSUME StartupParams \in [Sessions -> SettingsMaps \cup {Nil}]
ASSUME SetValues \subseteq Values

\* A new connection, or one after RESET ALL.
ServerDefaults == [k \in Keys |-> Default]

\* A backend brought to map m from its defaults: what applying m means.
Effective(m) == [k \in Keys |-> IF k \in Keys0(m) THEN m[k] ELSE Default]

-----------------------------------------------------------------------------
VARIABLES
    settings,  \* settings[s]: the session settings of s (SET), or Nil
    bstate,    \* bstate[b]: "pooled", "applying", "held" or "broken"
    owner,     \* owner[b]: the session holding b, or NoSession
    guc,       \* guc[b]: the values the backend's server has now
    snap,      \* snap[b]: the merged settings being applied to b, or Nil
    shown      \* the last SHOW: <<session, parameter, value>>, or NoShow

vars == <<settings, bstate, owner, guc, snap, shown>>

\* The settings a backend of s must have.
Expected(s) == Effective(mergedSettings(StartupParams[s], settings[s]))

Init ==
    /\ settings = [s \in Sessions |-> Nil]
    /\ bstate = [b \in Backends |-> "pooled"]
    /\ owner = [b \in Backends |-> NoSession]
    /\ guc = [b \in Backends |-> ServerDefaults]
    /\ snap = [b \in Backends |-> Nil]
    /\ shown = NoShow

\* Session s takes b from the pool and snapshots its merged settings.
Acquire(s, b) ==
    /\ bstate[b] = "pooled"
    /\ bstate' = [bstate EXCEPT ![b] = "applying"]
    /\ owner' = [owner EXCEPT ![b] = s]
    /\ snap' = [snap EXCEPT ![b] = mergedSettings(StartupParams[s], settings[s])]
    /\ UNCHANGED <<settings, guc, shown>>

\* Applying that only SETs the snapshot's keys, without a RESET first.
ApplyNoReset(b) ==
    /\ bstate[b] = "applying"
    /\ bstate' = [bstate EXCEPT ![b] = "held"]
    /\ guc' = [guc EXCEPT ![b] = [k \in Keys |->
                 IF k \in Keys0(snap[b]) THEN snap[b][k] ELSE guc[b][k]]]
    /\ snap' = [snap EXCEPT ![b] = Nil]
    /\ UNCHANGED <<settings, owner, shown>>

\* The snapshot is applied: the backend is reset to its defaults and each
\* merged key is SET (a nil snapshot applies nothing after the reset).
Apply(b) ==
    /\ bstate[b] = "applying"
    /\ bstate' = [bstate EXCEPT ![b] = "held"]
    /\ guc' = [guc EXCEPT ![b] = Effective(snap[b])]
    /\ snap' = [snap EXCEPT ![b] = Nil]
    /\ UNCHANGED <<settings, owner, shown>>

\* A failure path that rebuilds the session from its startup parameters.
ApplyFailsDropsSettings(b) ==
    /\ bstate[b] = "applying"
    /\ bstate' = [bstate EXCEPT ![b] = "broken"]
    /\ owner' = [owner EXCEPT ![b] = NoSession]
    /\ snap' = [snap EXCEPT ![b] = Nil]
    /\ settings' = [settings EXCEPT ![owner[b]] = Nil]
    /\ UNCHANGED <<guc, shown>>

\* The backend reports a diagnostic while the settings are applied: the
\* error goes to the session's caller, the backend is discarded, and the
\* session state is left as it was.
ApplyFails(b) ==
    /\ bstate[b] = "applying"
    /\ bstate' = [bstate EXCEPT ![b] = "broken"]
    /\ owner' = [owner EXCEPT ![b] = NoSession]
    /\ snap' = [snap EXCEPT ![b] = Nil]
    /\ UNCHANGED <<settings, guc, shown>>

\* A SET that does not wait for the session's settings applications.
SetSessionVariableUnserialized(s, k, v) ==
    /\ settings' = [settings EXCEPT ![s] = SetVar(@, k, v)]
    /\ guc' = [b \in Backends |->
                 IF owner[b] = s /\ bstate[b] = "held"
                 THEN [guc[b] EXCEPT ![k] = v] ELSE guc[b]]
    /\ UNCHANGED <<bstate, owner, snap, shown>>

\* A SET that records the value but sends it to no backend.
SetSessionVariableStateOnly(s, k, v) ==
    /\ \A b \in Backends : owner[b] = s => bstate[b] # "applying"
    /\ settings' = [settings EXCEPT ![s] = SetVar(@, k, v)]
    /\ UNCHANGED <<bstate, owner, guc, snap, shown>>

\* SET k = v in session s, serialized with the session's settings
\* applications by its mutex: SetSessionVariable, and the SET sent to every
\* backend the session holds.
SetSessionVariable(s, k, v) ==
    /\ \A b \in Backends : owner[b] = s => bstate[b] # "applying"
    /\ settings' = [settings EXCEPT ![s] = SetVar(@, k, v)]
    /\ guc' = [b \in Backends |->
                 IF owner[b] = s /\ bstate[b] = "held"
                 THEN [guc[b] EXCEPT ![k] = v] ELSE guc[b]]
    /\ UNCHANGED <<bstate, owner, snap, shown>>

\* SHOW k in session s, on a backend it holds.
Show(s, b) ==
    /\ owner[b] = s /\ bstate[b] = "held"
    /\ \E k \in Keys : shown' = <<s, k, guc[b][k]>>
    /\ UNCHANGED <<settings, bstate, owner, guc, snap>>

\* The session gives b back to the pool, settings and all.
Release(s, b) ==
    /\ owner[b] = s /\ bstate[b] = "held"
    /\ bstate' = [bstate EXCEPT ![b] = "pooled"]
    /\ owner' = [owner EXCEPT ![b] = NoSession]
    /\ UNCHANGED <<settings, guc, snap, shown>>

\* A held backend dies (FATAL, connection lost).
Break(b) ==
    /\ bstate[b] = "held"
    /\ bstate' = [bstate EXCEPT ![b] = "broken"]
    /\ owner' = [owner EXCEPT ![b] = NoSession]
    /\ UNCHANGED <<settings, guc, snap, shown>>

\* The pool replaces a broken backend by a new connection.
Reconnect(b) ==
    /\ bstate[b] = "broken"
    /\ bstate' = [bstate EXCEPT ![b] = "pooled"]
    /\ guc' = [guc EXCEPT ![b] = ServerDefaults]
    /\ UNCHANGED <<settings, owner, snap, shown>>

Next ==
    \/ \E s \in Sessions, b \in Backends :
         Acquire(s, b) \/ Show(s, b) \/ Release(s, b)
    \/ \E s \in Sessions, k \in Keys, v \in SetValues : SetSessionVariable(s, k, v)
    \/ \E b \in Backends : Apply(b) \/ ApplyFails(b) \/ Break(b) \/ Reconnect(b)

Spec == Init /\ [][Next]_vars

-----------------------------------------------------------------------------
(***************************************************************************)
(* Properties.                                                             *)
(***************************************************************************)

\* Every SHOW of a session returns that session's own settings, however
\* the pool passed backends between sessions, broke and replaced them:
\* Scatter implements SessionSettings, with each session's effective
\* settings the defaults overwritten by its merged settings.
Abstract == INSTANCE SessionSettings
               WITH eff <- [s \in Sessions |-> Expected(s)], shown <- shown

SessionSettingsRefined == Abstract!Spec

=============================================================================
