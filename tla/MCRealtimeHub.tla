---------------------------- MODULE MCRealtimeHub ----------------------------
(* Two viewers, two tokens of which one is foreign, one or two calls; and   *)
(* two voice turns and an SMS turn with every shape of reply: plain, with a *)
(* false start of a marker, with one marker, with two, malformed and        *)
(* unterminated ones; and a process with the clients its turns share: a     *)
(* warm-up of the caller memory, two tasks on the LLM and one on Redis.     *)
(* The three share no variable, and each property speaks of one of them: a  *)
(* behaviour takes the steps of one, chosen at the start, so that TLC       *)
(* explores their sum.  Of the others no fair action is enabled.            *)
EXTENDS RealtimeHub, TurnStream, Clients
CONSTANTS k1, c1, c2, t1, t2, warm, turn1, turn2, save, bedrock, supermemory, redis

SomeReplies ==
  { <<>>,
    <<"t", "<", "t">>,
    <<"t", "t", "<", "T", "d", ">", ">", "t">>,
    <<"<", "T", "e", ">", ">", "t">>,
    <<"<", "T", "m", ">", ">", "<", "T", "c", ">", ">", "t">>,
    <<"t", "<", "T", "x", ">">> }

CalledBy == [t \in {warm, turn1, turn2, save} |->
               IF t = warm THEN supermemory ELSE IF t = save THEN redis ELSE bedrock]

VARIABLE part
MCInit == Init /\ StreamInit /\ ClientsInit /\ part \in {"hub", "turns", "clients"}
MCNext ==
  /\ \/ part = "hub" /\ Next /\ UNCHANGED <<streamVars, clientVars>>
     \/ part = "turns" /\ StreamNext /\ UNCHANGED <<vars, clientVars>>
     \/ part = "clients" /\ ClientsNext /\ UNCHANGED <<vars, streamVars>>
  /\ UNCHANGED part
MCSpec == /\ MCInit /\ [][MCNext]_<<vars, streamVars, clientVars, part>>
          /\ Fairness /\ StreamFairness /\ ClientsFairness
=============================================================================
