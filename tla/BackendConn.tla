----------------------------- MODULE BackendConn -----------------------------
(***************************************************************************)
(* One backend connection of the gateway (client.Conn) and the backend     *)
(* server at its other end.                                                *)
(*                                                                         *)
(* The server sends, in order over one socket: an AuthenticationRequest,   *)
(* then (after AuthOk) a ParameterStatus for every reported parameter and  *)
(* ReadyForQuery; during a query it may announce a changed parameter, and  *)
(* ends the query with ReadyForQuery or a FATAL ErrorResponse.             *)
(*                                                                         *)
(* The gateway side has two threads.  The reader handles each message:     *)
(* handleAuthenticationRequest decides on the method code alone;           *)
(* handleParameterStatus, under the connection's mutex, records the value  *)
(* in serverParams and in the pending map (made on first use).  The        *)
(* session thread drains the pending map with GetParameterStatus (under    *)
(* the mutex: return it, leave nil) and then forwards the entries to the   *)
(* client one by one, outside the mutex, except server_version, which the  *)
(* client always gets from the gateway.                                    *)
(*                                                                         *)
(* The implementation of client.Conn is not in this repository: this       *)
(* module follows spec 4.3, 4.4, 5 and 7 and the tests of                  *)
(* handleAuthenticationRequest, handleParameterStatus, GetParameterStatus  *)
(* and of server_version (part_000, test 6).  Each atomic action is one    *)
(* critical section or one message handled.                                *)
(***************************************************************************)
EXTENDS Integers, Sequences, FiniteSets, TLC

CONSTANTS
    Params,          \* the parameters the backend reports
    Values,          \* the values a parameter may take
    ServerVersion,   \* the parameter the gateway answers itself
    GatewayVersion,  \* the value the gateway gives it
    AuthCodes,       \* the authentication method codes a server may request
    BodyLengths,     \* the byte lengths of an AuthenticationRequest body
    Nil,             \* a nil map
    MaxReports,      \* bound: parameter changes announced during queries
    MaxWire          \* bound: messages in flight on the socket

ASSUME ServerVersion \in Params /\ GatewayVersion \notin Values

LOCAL Diag == INSTANCE PgDiagnostic WITH NilDiag <- Nil

AuthOk                == 0
AuthCleartextPassword == 3
AuthMD5Password       == 5

\* handleAuthenticationRequest: the outcome for a body of len bytes whose
\* first four bytes are code.  Only AuthOk is accepted; the method code is
\* the last thing read in every case.
AuthOutcome(code, len) ==
    CASE len < 4                      -> "too short"
      [] code = AuthOk                -> "ok"
      [] code = AuthCleartextPassword -> "cleartext password not supported"
      [] code = AuthMD5Password       -> "MD5 password not supported"
      [] OTHER                        -> "unsupported authentication method"

\* A map m with name set to v (m may be nil).
Put(m, name, v) == IF m = Nil THEN name :> v ELSE (name :> v) @@ m

Dom(m) == IF m = Nil THEN {} ELSE DOMAIN m

Maps == UNION {[S -> Values] : S \in SUBSET Params}

-----------------------------------------------------------------------------
VARIABLES
    srv,           \* the server: "start", "authOk", "awaitingPassword", "idle",
                   \*   "executing", "gone"
    backendParams, \* the server's current parameter values
    changes,       \* the parameter changes the server has announced
    wire,          \* the messages sent by the server and not yet read
    conn,          \* the gateway's connection: "awaitingAuth", "startingUp",
                   \*   "ready", "busy", "rejected", "closed"
    authCode,      \* the method code the gateway acted on (-1: none yet)
    serverParams,  \* Conn.serverParams: every parameter seen, latest wins
    pending,       \* Conn.parameterStatus: changes since the last drain, or Nil
    outbox,        \* what the session drained and has still to forward, or Nil
    client,        \* the parameter values the client has been sent
    announced,     \* history: ParameterStatus messages read, per parameter
    forwarded      \* history: ParameterStatus messages forwarded, per parameter

vars == <<srv, backendParams, changes, wire, conn, authCode,
          serverParams, pending, outbox, client, announced, forwarded>>

Msg == [type : {"Auth"}, code : AuthCodes, len : BodyLengths]
       \cup [type : {"ParameterStatus"}, name : Params, value : Values]
       \cup [type : {"ErrorResponse"}, severity : {"ERROR", "FATAL", "PANIC"}]
       \cup [type : {"ReadyForQuery"}]

\* The server's reported parameters are any values; the client was given
\* the gateway's server_version at its own startup.
Init ==
    /\ srv = "start"
    /\ backendParams \in [Params -> Values]
    /\ changes = 0
    /\ wire = <<>>
    /\ conn = "awaitingAuth"
    /\ authCode = -1
    /\ serverParams = <<>>
    /\ pending = Nil
    /\ outbox = Nil
    /\ client \in {c \in [Params -> Values \cup {GatewayVersion}] :
                     c[ServerVersion] = GatewayVersion /\
                     \A p \in Params \ {ServerVersion} : c[p] \in Values}
    /\ announced = [p \in Params |-> 0]
    /\ forwarded = [p \in Params |-> 0]

-----------------------------------------------------------------------------
(* The server. *)

Send(msgs) == wire' = wire \o msgs

\* The server asks for an authentication method.
ServerRequestAuth ==
    /\ srv = "start"
    /\ \E code \in AuthCodes, len \in BodyLengths :
         /\ Send(<<[type |-> "Auth", code |-> code, len |-> len]>>)
         /\ srv' = IF code = AuthOk /\ len >= 4 THEN "authOk"
                   ELSE "awaitingPassword"
    /\ UNCHANGED <<backendParams, changes, conn, authCode, serverParams,
                   pending, outbox, client, announced, forwarded>>

\* The parameter statuses a server sends once the client is authenticated.
StartupReport ==
    LET RECURSIVE Report(_)
        Report(S) ==
          IF S = {} THEN <<>>
          ELSE LET p == CHOOSE q \in S : TRUE
               IN <<[type |-> "ParameterStatus", name |-> p,
                     value |-> backendParams[p]]>> \o Report(S \ {p})
    IN Report(Params)

\* After the gateway accepted AuthOk the server reports its parameters.
ServerStartup ==
    /\ srv = "authOk"
    /\ Len(wire) + Cardinality(Params) + 1 <= MaxWire
    /\ Send(StartupReport \o <<[type |-> "ReadyForQuery"]>>)
    /\ srv' = "idle"
    /\ UNCHANGED <<backendParams, changes, conn, authCode, serverParams,
                   pending, outbox, client, announced, forwarded>>

\* A query changes a reported parameter (SET): the server announces it.
ServerParamChange ==
    /\ srv = "executing"
    /\ Len(wire) < MaxWire
    /\ changes < MaxReports
    /\ \E p \in Params \ {ServerVersion}, v \in Values :
         /\ backendParams' = [backendParams EXCEPT ![p] = v]
         /\ Send(<<[type |-> "ParameterStatus", name |-> p, value |-> v]>>)
    /\ changes' = changes + 1
    /\ UNCHANGED <<srv, conn, authCode, serverParams,
                   pending, outbox, client, announced, forwarded>>

\* The query completes.
ServerComplete ==
    /\ srv = "executing"
    /\ Len(wire) < MaxWire
    /\ Send(<<[type |-> "ReadyForQuery"]>>)
    /\ srv' = "idle"
    /\ UNCHANGED <<backendParams, changes, conn, authCode, serverParams,
                   pending, outbox, client, announced, forwarded>>

\* The query fails with an ErrorResponse: after ERROR the server is ready
\* for the next query; after FATAL or PANIC it ends the session.
ServerError ==
    /\ srv = "executing"
    /\ \/ /\ Len(wire) + 2 <= MaxWire
          /\ Send(<<[type |-> "ErrorResponse", severity |-> "ERROR"],
                    [type |-> "ReadyForQuery"]>>)
          /\ srv' = "idle"
       \/ /\ Len(wire) < MaxWire
          /\ \E sev \in {"FATAL", "PANIC"} :
               Send(<<[type |-> "ErrorResponse", severity |-> sev]>>)
          /\ srv' = "gone"
    /\ UNCHANGED <<backendParams, changes, conn, authCode, serverParams,
                   pending, outbox, client, announced, forwarded>>

-----------------------------------------------------------------------------
(* The gateway's reader thread: one action per message handled. *)

Msg1 == Head(wire)

Receive == wire # <<>>

\* handleAuthenticationRequest accepts AuthOk.
HandleAuthOk ==
    /\ conn = "awaitingAuth"
    /\ Receive /\ Msg1.type = "Auth"
    /\ AuthOutcome(Msg1.code, Msg1.len) = "ok"
    /\ conn' = "startingUp"
    /\ authCode' = Msg1.code
    /\ wire' = Tail(wire)
    /\ UNCHANGED <<srv, backendParams, changes, serverParams, pending, outbox,
                   client, announced, forwarded>>

\* handleAuthenticationRequest rejects the request: a short body, a
\* cleartext or MD5 password request, or any other method.  Nothing past
\* the method code is read; the connection is not retried.
HandleAuthReject ==
    /\ conn = "awaitingAuth"
    /\ Receive /\ Msg1.type = "Auth"
    /\ AuthOutcome(Msg1.code, Msg1.len) # "ok"
    /\ conn' = "rejected"
    /\ authCode' = Msg1.code
    /\ wire' = Tail(wire)
    /\ UNCHANGED <<srv, backendParams, changes, serverParams, pending, outbox,
                   client, announced, forwarded>>

\* A rejected connection is closed.
CloseRejected ==
    /\ conn = "rejected"
    /\ conn' = "closed"
    /\ UNCHANGED <<srv, backendParams, changes, wire, authCode,
                   serverParams, pending, outbox, client, announced, forwarded>>

\* A handler that writes the pending map only when it already exists.
HandleParameterStatusNoMake ==
    /\ conn \in {"startingUp", "ready", "busy"}
    /\ Receive /\ Msg1.type = "ParameterStatus"
    /\ serverParams' = (Msg1.name :> Msg1.value) @@ serverParams
    /\ pending' = IF pending = Nil THEN Nil ELSE Put(pending, Msg1.name, Msg1.value)
    /\ announced' = [announced EXCEPT ![Msg1.name] = @ + 1]
    /\ wire' = Tail(wire)
    /\ UNCHANGED <<srv, backendParams, changes, conn, authCode,
                   outbox, client, forwarded>>

\* handleParameterStatus, under the mutex: serverParams[name] = value;
\* if parameterStatus == nil, make it; parameterStatus[name] = value.
HandleParameterStatus ==
    /\ conn \in {"startingUp", "ready", "busy"}
    /\ Receive /\ Msg1.type = "ParameterStatus"
    /\ serverParams' = (Msg1.name :> Msg1.value) @@ serverParams
    /\ pending' = Put(pending, Msg1.name, Msg1.value)
    /\ announced' = [announced EXCEPT ![Msg1.name] = @ + 1]
    /\ wire' = Tail(wire)
    /\ UNCHANGED <<srv, backendParams, changes, conn, authCode,
                   outbox, client, forwarded>>

\* ReadyForQuery ends the startup or the query.
HandleReadyForQuery ==
    /\ conn \in {"startingUp", "busy"}
    /\ Receive /\ Msg1.type = "ReadyForQuery"
    /\ conn' = "ready"
    /\ wire' = Tail(wire)
    /\ UNCHANGED <<srv, backendParams, changes, authCode,
                   serverParams, pending, outbox, client, announced, forwarded>>

\* An ErrorResponse: a FATAL or PANIC one tears the connection down (spec
\* 7); an ERROR is data, passed on, and the query goes on.
HandleErrorResponse ==
    /\ conn = "busy"
    /\ Receive /\ Msg1.type = "ErrorResponse"
    /\ conn' = IF Diag!IsFatal([Severity |-> Msg1.severity]) THEN "closed" ELSE "busy"
    /\ wire' = Tail(wire)
    /\ UNCHANGED <<srv, backendParams, changes, authCode,
                   serverParams, pending, outbox, client, announced, forwarded>>

-----------------------------------------------------------------------------
(* The session thread. *)

\* The session sends a query on a ready connection.
SendQuery ==
    /\ conn = "ready"
    /\ srv = "idle"
    /\ conn' = "busy"
    /\ srv' = "executing"
    /\ UNCHANGED <<backendParams, changes, wire, authCode,
                   serverParams, pending, outbox, client, announced, forwarded>>

\* A drain that returns the pending map but leaves it in place.
GetParameterStatusNoReset ==
    /\ outbox = Nil
    /\ pending # Nil
    /\ outbox' = pending
    /\ UNCHANGED <<srv, backendParams, changes, wire, conn, authCode,
                   serverParams, pending, client, announced, forwarded>>

\* A drain that runs again before the last batch is forwarded and merges
\* the new map into the old one, the old values winning.
GetParameterStatusMergeOldFirst ==
    /\ pending # Nil
    /\ outbox' = IF outbox = Nil THEN pending ELSE outbox @@ pending
    /\ pending' = Nil
    /\ UNCHANGED <<srv, backendParams, changes, wire, conn, authCode,
                   serverParams, client, announced, forwarded>>

\* GetParameterStatus, under the mutex: ps := parameterStatus;
\* parameterStatus = nil; return ps.  A nil result leaves nothing to do.
GetParameterStatus ==
    /\ outbox = Nil
    /\ pending # Nil
    /\ outbox' = pending
    /\ pending' = Nil
    /\ UNCHANGED <<srv, backendParams, changes, wire, conn, authCode,
                   serverParams, client, announced, forwarded>>

\* A forwarder that skips server_version without taking it off the list.
ForwardParameterStatusSkipKeeps ==
    /\ outbox # Nil
    /\ \E p \in DOMAIN outbox :
         /\ client' = IF p = ServerVersion THEN client
                       ELSE [client EXCEPT ![p] = outbox[p]]
         /\ forwarded' = IF p = ServerVersion THEN forwarded
                          ELSE [forwarded EXCEPT ![p] = @ + 1]
         /\ outbox' = IF p = ServerVersion THEN outbox
                       ELSE IF DOMAIN outbox = {p} THEN Nil
                       ELSE [q \in DOMAIN outbox \ {p} |-> outbox[q]]
    /\ UNCHANGED <<srv, backendParams, changes, wire, conn, authCode,
                   serverParams, pending, announced>>

\* The session forwards one drained entry to the client (map order is
\* arbitrary); server_version is not forwarded.
ForwardParameterStatus ==
    /\ outbox # Nil
    /\ \E p \in DOMAIN outbox :
         /\ client' = IF p = ServerVersion THEN client
                       ELSE [client EXCEPT ![p] = outbox[p]]
         /\ forwarded' = IF p = ServerVersion THEN forwarded
                          ELSE [forwarded EXCEPT ![p] = @ + 1]
         /\ outbox' = IF DOMAIN outbox = {p} THEN Nil
                       ELSE [q \in DOMAIN outbox \ {p} |-> outbox[q]]
    /\ UNCHANGED <<srv, backendParams, changes, wire, conn, authCode,
                   serverParams, pending, announced>>

-----------------------------------------------------------------------------
Server ==
    \/ ServerRequestAuth \/ ServerStartup \/ ServerParamChange
    \/ ServerComplete \/ ServerError

Reader ==
    \/ HandleAuthOk \/ HandleAuthReject \/ CloseRejected
    \/ HandleParameterStatus \/ HandleReadyForQuery \/ HandleErrorResponse

Session == SendQuery \/ GetParameterStatus \/ ForwardParameterStatus

Next == Server \/ Reader \/ Session

\* The reader reads whatever has arrived and the session thread drains and
\* forwards whatever is pending: both loops run as long as the connection
\* object lives.  The server is the environment: no fairness.
Fairness ==
    /\ WF_vars(Reader)
    /\ WF_vars(GetParameterStatus)
    /\ WF_vars(ForwardParameterStatus)

Spec == Init /\ [][Next]_vars /\ Fairness

-----------------------------------------------------------------------------
(***************************************************************************)
(* Properties.                                                             *)
(***************************************************************************)

\* No parameter change reaches the client twice: the reader's
\* handleParameterStatus and the session's GetParameterStatus may
\* interleave in any order, and the client is sent a parameter at most as
\* often as the server announced it (spec 4.4: "exactly once").
ForwardedAtMostOnce ==
    \A p \in Params : forwarded[p] <= announced[p]

\* No parameter change is lost: a reported parameter that is neither
\* pending nor drained-and-unsent has, at the client, the value the server
\* last announced.  server_version is the gateway's own.
NoLostUpdate ==
    \A p \in DOMAIN serverParams \ {ServerVersion} :
        p \notin Dom(pending) \cup Dom(outbox) => client[p] = serverParams[p]

\* The parameter values a batch drained or still pending will send to the
\* client, oldest first.
Queued(p) ==
    IF p = ServerVersion THEN <<>>
    ELSE (IF p \in Dom(outbox) THEN <<outbox[p]>> ELSE <<>>)
         \o (IF p \in Dom(pending) THEN <<pending[p]>> ELSE <<>>)

\* BackendConn implements ParamForwarding: the client is sent each
\* parameter's announced values in order, none twice, the last never
\* skipped, and eventually.  The mapping hides the two buffers behind the
\* abstract queue: the drained batch first, then the pending map.
Forwarding == INSTANCE ParamForwarding
                  WITH reported <- serverParams,
                       queue <- [p \in Params |-> Queued(p)],
                       client <- client

ParamForwardingRefined == Forwarding!Spec

\* On a connection that stays open, the client eventually holds every
\* value the server reported, and keeps it until the server reports
\* another: the session's drain and forwarding loop do not starve.
ClientEventuallyInSync ==
    <>[](conn \in {"rejected", "closed"} \/
         \A p \in DOMAIN serverParams \ {ServerVersion} :
             client[p] = serverParams[p])

=============================================================================
