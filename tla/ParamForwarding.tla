-------------------------- MODULE ParamForwarding --------------------------
(***************************************************************************)
(* What spec 4.4 promises about parameter status: every value the server   *)
(* announces is recorded as the parameter's current value, and the client  *)
(* is sent the announced values of each parameter in the order announced,  *)
(* each at most once; a value superseded before it was drained may be      *)
(* skipped ("later same-key values win"), the last one never is.  The     *)
(* client's server_version is the gateway's and is never replaced.        *)
(***************************************************************************)
EXTENDS Naturals, Sequences, TLC

CONSTANTS Params, Values, ServerVersion, GatewayVersion

VARIABLES
    reported,  \* the latest value announced for each parameter seen
    queue,     \* queue[p]: the values of p announced and not yet sent, in order
    client     \* the values the client has been sent

vars == <<reported, queue, client>>

Init ==
    /\ reported = <<>>
    /\ queue = [p \in Params |-> <<>>]
    /\ client \in {c \in [Params -> Values \cup {GatewayVersion}] :
                     c[ServerVersion] = GatewayVersion /\
                     \A p \in Params \ {ServerVersion} : c[p] \in Values}

\* The server announces p = v.  The value joins p's queue, possibly in
\* place of the last value queued and not yet drained.
Announce(p, v) ==
    /\ reported' = (p :> v) @@ reported
    /\ \/ p = ServerVersion /\ UNCHANGED queue
       \/ p # ServerVersion /\ queue' = [queue EXCEPT ![p] = Append(@, v)]
       \/ p # ServerVersion /\ queue[p] # <<>>
          /\ queue' = [queue EXCEPT ![p] = Append(SubSeq(@, 1, Len(@) - 1), v)]
    /\ UNCHANGED client

\* The oldest queued value of p is sent to the client.
Deliver(p) ==
    /\ queue[p] # <<>>
    /\ client' = [client EXCEPT ![p] = Head(queue[p])]
    /\ queue' = [queue EXCEPT ![p] = Tail(@)]
    /\ UNCHANGED reported

Next ==
    \/ \E p \in Params, v \in Values : Announce(p, v)
    \/ \E p \in Params : Deliver(p)

Spec == Init /\ [][Next]_vars /\ \A p \in Params : WF_vars(Deliver(p))

=============================================================================
