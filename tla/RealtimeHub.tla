----------------------------- MODULE RealtimeHub -----------------------------
(***************************************************************************)
(* One workspace's live view: one-time tokens in Redis, the frame bus over *)
(* pub/sub, and a WebSocket connection with its four tasks and its bounded *)
(* send buffer (realtime/, api/workspaces/ws.py).  A call's handlers       *)
(* commit its row and then publish its frame, started before ended.        *)
(***************************************************************************)
EXTENDS Naturals, FiniteSets, Sequences

CONSTANTS Calls, Conns, WsTokens,
          ForeignTokens,  \* those minted for another workspace
          SendBufferMax,  \* SEND_BUFFER_MAX, 100 in the code
          MaxPings,       \* bound on heartbeats
          MaxFaults,      \* bound on failed Redis commands
          NoWsToken

ASSUME HubAssumption == /\ SendBufferMax \in Nat \ {0}
                        /\ MaxPings \in Nat /\ MaxFaults \in Nat
                        /\ ForeignTokens \subseteq WsTokens /\ NoWsToken \notin WsTokens

VARIABLES
  status,  \* calls.status
  pending, \* committed changes of a call whose frames are not published yet
  log,     \* history: the frames Redis took, in its order
  tokens,  \* ws_token:* keys
  conns,   \* what each connection holds
  raced,   \* history: tokens two connections had read at once
  missed,  \* history: calls whose frame a connection was not subscribed to take
  faults,
  pings    \* heartbeats so far

vars == <<status, pending, log, tokens, conns, raced, missed, faults, pings>>

Ping == [kind |-> "ping"]
Frame == [kind: {"started", "ended"}, call: Calls]
Conn == [pc: {"idle", "read", "refused", "claimed", "snapshot", "open", "stopping", "closed"},
         token: WsTokens \cup {NoWsToken},
         snap: SUBSET Calls,                  \* the calls of the snapshot frame
         from: Nat,                           \* Len(log) at the subscription
         inbox: Seq(Frame),                   \* the subscription's unread messages
         buffer: Seq(Frame \cup {Ping}),
         got: Seq(Frame),                     \* what the client received
         dropped: Nat, gone: BOOLEAN]

NewConn == [pc |-> "idle", token |-> NoWsToken, snap |-> {}, from |-> 0, inbox |-> <<>>,
            buffer |-> <<>>, got |-> <<>>, dropped |-> 0, gone |-> FALSE]

Init ==
  /\ status = [k \in Calls |-> "none"]
  /\ pending = [k \in Calls |-> <<>>]
  /\ log = <<>> /\ raced = {} /\ faults = 0 /\ pings = 0
  /\ tokens = [t \in WsTokens |-> "none"]
  /\ conns = [c \in Conns |-> NewConn]
  /\ missed = [c \in Conns |-> {}]

InProgress == {k \in Calls : status[k] = "in_progress"}
Subscribed == {c \in Conns : conns[c].pc = "open"}
Fault == faults < MaxFaults /\ faults' = faults + 1

-----------------------------------------------------------------------------
(* Publishers.                                                              *)
StartCall(k) ==
  /\ status[k] = "none"
  /\ status' = [status EXCEPT ![k] = "in_progress"]
  /\ pending' = [pending EXCEPT ![k] = Append(@, [kind |-> "started", call |-> k])]
  /\ UNCHANGED <<log, tokens, conns, raced, missed, faults, pings>>
EndCall(k) ==
  /\ status[k] = "in_progress"
  /\ status' = [status EXCEPT ![k] = "ended"]
  /\ pending' = [pending EXCEPT ![k] = Append(@, [kind |-> "ended", call |-> k])]
  /\ UNCHANGED <<log, tokens, conns, raced, missed, faults, pings>>

\* Who has a snapshot and no subscription never learns of the frame.
Misses(k, who) == [c \in Conns |-> IF c \in who THEN missed[c] \cup {k} ELSE missed[c]]

publish_frame(k) ==
  /\ pending[k] # <<>>
  /\ pending' = [pending EXCEPT ![k] = Tail(@)]
  /\ log' = Append(log, Head(pending[k]))
  /\ conns' = [c \in Conns |-> IF c \in Subscribed
                 THEN [conns[c] EXCEPT !.inbox = Append(@, Head(pending[k]))] ELSE conns[c]]
  /\ missed' = Misses(k, {c \in Conns : conns[c].pc = "snapshot"})
  /\ UNCHANGED <<status, tokens, raced, faults, pings>>
\* A failure is logged and does not propagate.
PublishFails(k) ==
  /\ pending[k] # <<>> /\ Fault
  /\ pending' = [pending EXCEPT ![k] = Tail(@)]
  /\ missed' = Misses(k, {c \in Conns : conns[c].pc \in {"snapshot", "open"}})
  /\ UNCHANGED <<status, log, tokens, conns, raced, pings>>

-----------------------------------------------------------------------------
(* One-time tokens.                                                         *)
issue_ws_token(t) ==
  /\ tokens[t] = "none"
  /\ tokens' = [tokens EXCEPT ![t] = "issued"]
  /\ UNCHANGED <<status, pending, log, conns, raced, missed, faults, pings>>
ExpireToken(t) ==
  /\ tokens[t] = "issued"
  /\ tokens' = [tokens EXCEPT ![t] = "gone"]
  /\ UNCHANGED <<status, pending, log, conns, raced, missed, faults, pings>>

Reading(t) == {c \in Conns : conns[c].pc = "read" /\ conns[c].token = t}

\* claim_ws_token: GET ...
ClaimGet(c, t) ==
  /\ conns[c].pc = "idle" /\ tokens[t] # "none"
  /\ conns' = [conns EXCEPT ![c].token = t,
                            ![c].pc = IF tokens[t] = "issued" THEN "read" ELSE "refused"]
  /\ raced' = IF Reading(t) = {} THEN raced ELSE raced \cup {t}
  /\ UNCHANGED <<status, pending, log, tokens, missed, faults, pings>>
\* Mutant: the key is left to its TTL.
ClaimKeep(c) ==
  LET t == conns[c].token IN
  /\ conns[c].pc = "read"
  /\ conns' = [conns EXCEPT ![c].pc = IF t \in ForeignTokens THEN "refused" ELSE "claimed"]
  /\ UNCHANGED <<status, pending, log, tokens, raced, missed, faults, pings>>

\* ... then DEL, whatever it removed; then the token's workspace is compared.
ClaimDel(c) ==
  LET t == conns[c].token IN
  /\ conns[c].pc = "read"
  /\ tokens' = [tokens EXCEPT ![t] = "gone"]
  /\ conns' = [conns EXCEPT ![c].pc = IF t \in ForeignTokens THEN "refused" ELSE "claimed"]
  /\ UNCHANGED <<status, pending, log, raced, missed, faults, pings>>

-----------------------------------------------------------------------------
\* Mutant: the snapshot lists every call of the workspace.
SnapshotAll(c) ==
  /\ conns[c].pc = "claimed"
  /\ conns' = [conns EXCEPT ![c].pc = "snapshot", ![c].snap = {k \in Calls : status[k] # "none"}]
  /\ UNCHANGED <<status, pending, log, tokens, raced, missed, faults, pings>>

(* WorkspaceWSConnection.                                                   *)
Snapshot(c) ==
  /\ conns[c].pc = "claimed"
  /\ conns' = [conns EXCEPT ![c].pc = "snapshot", ![c].snap = InProgress]
  /\ UNCHANGED <<status, pending, log, tokens, raced, missed, faults, pings>>

Subscribe(c) ==
  /\ conns[c].pc = "snapshot"
  /\ conns' = [conns EXCEPT ![c].pc = "open", ![c].from = Len(log)]
  /\ UNCHANGED <<status, pending, log, tokens, raced, missed, faults, pings>>

\* Mutant: what the buffer does not take is not counted.
PutUncounted(conn, frame) ==
  IF Len(conn.buffer) < SendBufferMax
  THEN [conn EXCEPT !.buffer = Append(@, frame)] ELSE conn

\* put_nowait, or count what the full buffer does not take.
Put(conn, frame) ==
  IF Len(conn.buffer) < SendBufferMax
  THEN [conn EXCEPT !.buffer = Append(@, frame)]
  ELSE [conn EXCEPT !.dropped = @ + 1]

BusLoop(c) ==
  LET conn == conns[c] IN
  /\ conn.pc = "open" /\ conn.inbox # <<>>
  /\ conns' = [conns EXCEPT ![c] = [Put(conn, Head(conn.inbox)) EXCEPT !.inbox = Tail(conn.inbox)]]
  /\ UNCHANGED <<status, pending, log, tokens, raced, missed, faults, pings>>

Heartbeat(c) ==
  /\ conns[c].pc \in {"snapshot", "open"} /\ pings < MaxPings
  /\ conns' = [conns EXCEPT ![c] = Put(@, Ping)]
  /\ pings' = pings + 1
  /\ UNCHANGED <<status, pending, log, tokens, raced, missed, faults>>

SenderLoop(c) ==
  LET frame == Head(conns[c].buffer) IN
  /\ conns[c].pc \in {"snapshot", "open"} /\ conns[c].buffer # <<>> /\ ~conns[c].gone
  /\ conns' = [conns EXCEPT ![c].buffer = Tail(@),
                            ![c].got = IF frame = Ping THEN @ ELSE Append(@, frame)]
  /\ UNCHANGED <<status, pending, log, tokens, raced, missed, faults, pings>>

Leave(c) ==
  /\ conns[c].pc \in {"claimed", "snapshot", "open"} /\ ~conns[c].gone
  /\ conns' = [conns EXCEPT ![c].gone = TRUE]
  /\ UNCHANGED <<status, pending, log, tokens, raced, missed, faults, pings>>

\* Mutant: the receiver's end is awaited only once something was received.
StopAfterFrames(c) ==
  /\ conns[c].gone /\ conns[c].got # <<>> /\ conns[c].pc \in {"claimed", "snapshot", "open"}
  /\ conns' = [conns EXCEPT ![c].pc = "stopping"]
  /\ UNCHANGED <<status, pending, log, tokens, raced, missed, faults, pings>>

\* The first task to end cancels the others: the receiver or the sender when the
\* client is gone, ...
Stop(c) ==
  /\ conns[c].gone /\ conns[c].pc \in {"claimed", "snapshot", "open"}
  /\ conns' = [conns EXCEPT ![c].pc = "stopping"]
  /\ UNCHANGED <<status, pending, log, tokens, raced, missed, faults, pings>>
\* ... the bus task when Redis fails.
BusFails(c) ==
  /\ conns[c].pc \in {"snapshot", "open"} /\ Fault
  /\ conns' = [conns EXCEPT ![c].pc = "stopping"]
  /\ UNCHANGED <<status, pending, log, tokens, raced, missed, pings>>

Close(c) ==
  /\ conns[c].pc = "stopping"
  /\ conns' = [conns EXCEPT ![c] = [NewConn EXCEPT !.pc = "closed", !.token = conns[c].token,
                                                     !.gone = conns[c].gone]]
  /\ missed' = [missed EXCEPT ![c] = {}]
  /\ UNCHANGED <<status, pending, log, tokens, raced, faults, pings>>

ConnStep(c) ==
  \/ ClaimDel(c) \/ Snapshot(c) \/ Subscribe(c) \/ BusLoop(c) \/ SenderLoop(c)
  \/ Stop(c) \/ Close(c)

Next ==
  \/ \E k \in Calls : StartCall(k) \/ EndCall(k) \/ publish_frame(k) \/ PublishFails(k)
  \/ \E t \in WsTokens : issue_ws_token(t) \/ ExpireToken(t)
  \/ \E c \in Conns, t \in WsTokens : ClaimGet(c, t)
  \/ \E c \in Conns : ConnStep(c) \/ BusFails(c) \/ Heartbeat(c) \/ Leave(c)

(* The event loop runs the tasks of a connection; publishers run to their end. *)
Fairness ==
  /\ \A c \in Conns : WF_vars(ConnStep(c))
  /\ \A c \in Conns : WF_vars(Stop(c)) /\ WF_vars(Close(c))
  /\ \A k \in Calls : WF_vars(publish_frame(k))
Spec == Init /\ [][Next]_vars
FairSpec == Spec /\ Fairness

-----------------------------------------------------------------------------
TypeOK ==
  /\ status \in [Calls -> {"none", "in_progress", "ended"}]
  /\ pending \in [Calls -> Seq(Frame)] /\ log \in Seq(Frame)
  /\ tokens \in [WsTokens -> {"none", "issued", "gone"}]
  /\ conns \in [Conns -> Conn]
  /\ \A c \in Conns : Len(conns[c].buffer) <= SendBufferMax
  /\ raced \subseteq WsTokens /\ missed \in [Conns -> SUBSET Calls] /\ faults \in 0..MaxFaults /\ pings \in 0..MaxPings

Opened(t) == {c \in Conns : conns[c].token = t /\ conns[c].pc \notin {"read", "refused"}}

(* A token opens one connection, unless two had read its key before either  *)
(* deleted it (redis_client.py:147-150).                                    *)
TokenOpensOne == \A t \in WsTokens \ raced : Cardinality(Opened(t)) <= 1

(* While nothing was dropped, what a client received, what its buffer holds *)
(* between pings, and what is unread is exactly what was published since it *)
(* subscribed, in that order: at[j] is how far the buffer's first j reach.  *)
DeliveredInOrder ==
  \A c \in Subscribed :
    LET conn == conns[c]  n == Len(conn.buffer) IN
    conn.dropped = 0 =>
      \E at \in [0..n -> conn.from..Len(log)] :
        /\ conn.got = SubSeq(log, conn.from + 1, at[0])
        /\ \A j \in 1..n :
             \/ conn.buffer[j] = Ping /\ at[j] = at[j - 1]
             \/ at[j] = at[j - 1] + 1 /\ conn.buffer[j] = log[at[j]]
        /\ conn.inbox = SubSeq(log, at[n] + 1, Len(log))

\* What a client shows: the last frame about a call, or else the snapshot.
Shows(c) ==
  {k \in Calls : LET got == conns[c].got
                     about == {i \in DOMAIN got : got[i].call = k} IN
                 IF about = {} THEN k \in conns[c].snap
                 ELSE \E i \in about : got[i].kind = "started" /\ \A j \in about : j <= i}

(* A client that has caught up shows the calls in progress, except those    *)
(* whose frame went out between its snapshot and its subscription, or was   *)
(* never taken by Redis (ws_hub.py:65-71), and unless its buffer overflowed.*)
ShowsWhatIs ==
  \A c \in Subscribed : \A k \in Calls \ missed[c] :
    /\ pending[k] = <<>> /\ conns[c].inbox = <<>> /\ conns[c].buffer = <<>>
    /\ conns[c].dropped = 0
    => (k \in Shows(c) <=> k \in InProgress)

(* Together: a viewer is current, and what it is behind by is on its way.   *)
ViewersAreCurrent == TypeOK /\ DeliveredInOrder /\ ShowsWhatIs

(* A connection whose client has gone ends: its tasks are cancelled and its *)
(* subscription given back, so that again and again none is left over.      *)
LeaversAreClosed == []<>(\A c \in Conns : conns[c].gone => conns[c].pc = "closed")

-----------------------------------------------------------------------------
(* What the code's documents say and the code does not keep.                *)

(* "GET-then-DEL ensures the token is single-use" (redis_client.py:141).    *)
SingleUse == \A t \in WsTokens : Cardinality(Opened(t)) <= 1
=============================================================================
