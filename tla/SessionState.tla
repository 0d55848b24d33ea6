---------------------------- MODULE SessionState ----------------------------
(***************************************************************************)
(* The settings of one client session (handler.MultiGatewayConnectionState)*)
(* and scatterconn.mergedSettings, the map a backend connection must apply *)
(* to match what the client expects.                                       *)
(*                                                                         *)
(* A settings map is a function from a set of parameter names to values;   *)
(* Nil is a nil Go map, which len() counts as empty, like an empty one.   *)
(* Neither implementation is in this repository: the operators follow spec*)
(* 4.5 and the table test TestMergedSettings.                              *)
(***************************************************************************)
EXTENDS FiniteSets, FiniteSetsExt, TLC

CONSTANTS
    Keys,    \* parameter names
    Values,  \* parameter values
    Nil      \* a nil map

\* Every settings map over Keys and Values, nil excluded.
SettingsMaps == UNION {[K -> Values] : K \in SUBSET Keys}

\* The keys of a map; a nil map has none.
Keys0(m) == IF m = Nil THEN {} ELSE DOMAIN m

\* len(m) == 0, for a nil map as for an empty one.
IsEmpty(m) == Keys0(m) = {}

\* SetSessionVariable(name, value): the settings map made on first use,
\* then settings[name] = value.
SetVar(m, name, value) == IF m = Nil THEN name :> value ELSE (name :> value) @@ m

\* A merge that copies the session settings first and lets the startup
\* parameters overwrite them.
mergedSettingsStartupWins(startup, session) ==
    IF IsEmpty(startup) /\ IsEmpty(session) THEN Nil
    ELSE LET copy == IF session = Nil THEN <<>> ELSE session
         IN FoldSet(LAMBDA k, acc : (k :> startup[k]) @@ acc, copy, Keys0(startup))

\* mergedSettings(state): nil when both maps are empty; else a copy of the
\* startup parameters, then every session setting written over it, one key
\* at a time.
mergedSettings(startup, session) ==
    IF IsEmpty(startup) /\ IsEmpty(session) THEN Nil
    ELSE LET copy == IF startup = Nil THEN <<>> ELSE startup
         IN FoldSet(LAMBDA k, acc : (k :> session[k]) @@ acc, copy, Keys0(session))

=============================================================================
