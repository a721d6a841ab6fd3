------------------------------- MODULE Clients -------------------------------
(***************************************************************************)
(* The clients a process shares: of the LLM, of AgentPhone, Supermemory,   *)
(* S3 and Redis.  Each is made by the first call that needs it, kept for   *)
(* the life of the process, and closed when the process stops; the LLM and *)
(* the retrieval are called once at startup to have theirs made.           *)
(*                                                                         *)
(* All run on one event loop, so a step is what happens between two        *)
(* awaits.  A client of Plain is made in one step.  One of Entered takes   *)
(* an await, under a lock, and is closed through its context manager.  One *)
(* of Pooled is taken out of its table before it is closed.                *)
(***************************************************************************)
EXTENDS Integers, FiniteSets

CONSTANTS
  Plain,     \* OpenAICompatClient, AgentPhoneAdapter, Supermemory
  Entered,   \* BedrockMessagesClient, S3ObjectStore
  Pooled,    \* Redis
  Skilled,   \* those of them the skills ask
  Tasks,     \* tasks that call a client, from requests or left running by them
  Warmers,   \* those the startup runs
  Uses,      \* [Tasks -> which client a task calls]
  None,
  MaxMishaps  \* bound on failures

Adapters == Plain \cup Entered \cup Pooled
Ids      == Tasks \X {1, 2}  \* a client is named by the attempt that made it

ASSUME ClientsAssumption ==
  /\ Plain \cap Entered = {} /\ Plain \cap Pooled = {} /\ Entered \cap Pooled = {}
  /\ Skilled \subseteq Adapters /\ Warmers \subseteq Tasks /\ Uses \in [Tasks -> Adapters]
  /\ None \notin Ids /\ None \notin Adapters /\ None \notin Tasks /\ MaxMishaps \in Nat

VARIABLES
  server,    \* the process
  drained,   \* adapters its shutdown is through with
  draining,  \* the one whose close it awaits
  client,    \* [Adapters -> the client it keeps]
  context,   \* [Entered -> its context manager, by the client it is of]
  holder,    \* [Entered -> the task that holds the init lock]
  life,      \* [Ids -> how far a client is]
  task,      \* [Tasks -> how far a task is]
  mishaps

clientVars == <<server, drained, draining, client, context, holder, life, task, mishaps>>

TaskStages == {"idle", "waiting", "opening", "calling", "again", "done", "failed"}
Task   == [pc: TaskStages, n: 0..2, using: Ids \cup {None}]

ClientsInit ==
  /\ server = "off" /\ drained = {} /\ draining = None /\ mishaps = 0
  /\ client = [a \in Adapters |-> None]
  /\ context = [a \in Entered |-> None] /\ holder = [a \in Entered |-> None]
  /\ life = [id \in Ids |-> "none"]
  /\ task = [t \in Tasks |-> [pc |-> "idle", n |-> 0, using |-> None]]

Mishap      == mishaps < MaxMishaps /\ mishaps' = mishaps + 1
Comes(t, p) == task[t].pc = p
Attempt(t) == <<t, task[t].n>>
Moves(t, p, n, id) == task' = [task EXCEPT ![t] = [pc |-> p, n |-> n, using |-> id]]
Ends(t, p) == Moves(t, p, task[t].n, None)
Over(t)    == task[t].pc \in {"done", "failed"}
process    == <<server, drained, draining>>

-----------------------------------------------------------------------------
(* The adapters' clients.                                                   *)

Find(t, n) ==
  /\ client[Uses[t]] # None
  /\ Moves(t, "calling", n, client[Uses[t]])
  /\ UNCHANGED <<client, context, holder, life>>

Make(t, n) ==
  /\ Uses[t] \notin Entered
  /\ client' = [client EXCEPT ![Uses[t]] = <<t, n>>]
  /\ life' = [life EXCEPT ![<<t, n>>] = "open"]
  /\ Moves(t, "calling", n, <<t, n>>)
  /\ UNCHANGED <<context, holder>>

Enter(t, n) ==
  /\ Uses[t] \in Entered
  /\ context' = [context EXCEPT ![Uses[t]] = <<t, n>>]
  /\ holder' = [holder EXCEPT ![Uses[t]] = t]
  /\ life' = [life EXCEPT ![<<t, n>>] = "opening"]
  /\ Moves(t, "opening", n, <<t, n>>)
  /\ UNCHANGED client

Runs(t) == IF t \in Warmers THEN server = "starting" ELSE server \in {"up", "stopping"}

(* A call begins, or a skill asks again: the client there is, a new one, or *)
(* a place behind the task that is making it.                               *)
GetClient(t) ==
  LET n == task[t].n + 1 IN
  /\ Runs(t) /\ task[t].pc \in {"idle", "again"}
  /\ \/ Find(t, n)
     \/ client[Uses[t]] = None /\ Make(t, n)
     \/ client[Uses[t]] = None /\ Uses[t] \in Entered /\ holder[Uses[t]] = None /\ Enter(t, n)
     \/ /\ client[Uses[t]] = None /\ Uses[t] \in Entered /\ holder[Uses[t]] # None
        /\ Moves(t, "waiting", n, None) /\ UNCHANGED <<client, context, holder, life>>
  /\ UNCHANGED <<process, mishaps>>

(* Mutant: who waited for the lock does not look again. *)
AcquireUnchecked(t) ==
  /\ Runs(t) /\ Comes(t, "waiting") /\ holder[Uses[t]] = None
  /\ Enter(t, task[t].n)
  /\ UNCHANGED <<process, mishaps>>
(* The lock is free: the client may have come meanwhile.                    *)
Acquire(t) ==
  /\ Runs(t) /\ Comes(t, "waiting") /\ holder[Uses[t]] = None
  /\ \/ Find(t, task[t].n)
     \/ client[Uses[t]] = None /\ Enter(t, task[t].n)
  /\ UNCHANGED <<process, mishaps>>

ClientOpens(t) ==
  LET a == Uses[t] IN
  /\ Runs(t) /\ Comes(t, "opening")
  /\ life' = [life EXCEPT ![Attempt(t)] = "open"]
  /\ client' = [client EXCEPT ![a] = Attempt(t)]
  /\ holder' = [holder EXCEPT ![a] = None]
  /\ Moves(t, "calling", task[t].n, Attempt(t))
  /\ UNCHANGED <<process, context, mishaps>>

(* Mutants: the client is kept although it did not open; the lock is kept.  *)
OpenFailsKept(t) ==
  /\ Runs(t) /\ Comes(t, "opening") /\ Mishap
  /\ life' = [life EXCEPT ![Attempt(t)] = "broken"]
  /\ client' = [client EXCEPT ![Uses[t]] = Attempt(t)]
  /\ holder' = [holder EXCEPT ![Uses[t]] = None]
  /\ Ends(t, "failed") /\ UNCHANGED <<process, context>>
OpenFailsLocked(t) ==
  /\ Runs(t) /\ Comes(t, "opening") /\ Mishap
  /\ life' = [life EXCEPT ![Attempt(t)] = "broken"]
  /\ Ends(t, "failed") /\ UNCHANGED <<process, client, context, holder>>
(* The context manager stays behind, never entered.                         *)
OpenFails(t) ==
  /\ Runs(t) /\ Comes(t, "opening") /\ Mishap
  /\ life' = [life EXCEPT ![Attempt(t)] = "broken"]
  /\ holder' = [holder EXCEPT ![Uses[t]] = None]
  /\ Ends(t, "failed") /\ UNCHANGED <<process, client, context>>

-----------------------------------------------------------------------------
(* Calls.                                                                   *)

Answered(t) ==
  /\ Runs(t) /\ Comes(t, "calling") /\ life[task[t].using] = "open"
  /\ Ends(t, "done")
  /\ UNCHANGED <<process, client, context, holder, life, mishaps>>

(* What the LLM answers does not fit the skill's schema: it is asked once   *)
(* more, and told why.                                                      *)
Misanswered(t) ==
  /\ Runs(t) /\ Comes(t, "calling") /\ life[task[t].using] = "open" /\ Uses[t] \in Skilled
  /\ Ends(t, IF task[t].n < 2 THEN "again" ELSE "failed")
  /\ UNCHANGED <<process, client, context, holder, life, mishaps>>

(* The provider fails or times out, or the client was closed under the call.*)
CallFails(t) ==
  /\ Runs(t) /\ Comes(t, "calling")
  /\ IF life[task[t].using] = "open" THEN Mishap ELSE UNCHANGED mishaps
  /\ Ends(t, "failed")
  /\ UNCHANGED <<process, client, context, holder, life>>

-----------------------------------------------------------------------------
(* Startup and shutdown (lifespan.py).                                      *)

Boot ==
  /\ server = "off" /\ server' = "starting"
  /\ UNCHANGED <<drained, draining, client, context, holder, life, task, mishaps>>

(* What a warm-up meets is logged.                                          *)
StartUp ==
  /\ server = "starting" /\ \A t \in Warmers : Over(t)
  /\ server' = "up"
  /\ UNCHANGED <<drained, draining, client, context, holder, life, task, mishaps>>

ShutDown ==
  /\ server = "up" /\ server' = "stopping"
  /\ UNCHANGED <<drained, draining, client, context, holder, life, task, mishaps>>

Closing(a, id) == draining' = a /\ life' = [life EXCEPT ![id] = "closing"] /\ UNCHANGED drained
Passed(a)      == drained' = drained \cup {a} /\ UNCHANGED <<draining, life>>

(* close() up to its await.  The context manager of a client that is still  *)
(* being made, or was not made, cannot be left: that raises, and is logged. *)
CloseClient(a) ==
  /\ server = "stopping" /\ draining = None /\ a \notin drained
  /\ \/ /\ a \in Entered /\ UNCHANGED client
        /\ IF context[a] # None /\ life[context[a]] = "open"
             THEN Closing(a, context[a]) ELSE Passed(a)
     \/ /\ a \notin Entered
        /\ IF client[a] # None THEN Closing(a, client[a]) ELSE Passed(a)
        /\ IF a \in Pooled THEN client' = [client EXCEPT ![a] = None] ELSE UNCHANGED client
  /\ UNCHANGED <<server, context, holder, task, mishaps>>

Closed(a) == life' = [id \in Ids |-> IF Uses[id[1]] = a /\ life[id] = "closing" THEN "closed"
                                                                              ELSE life[id]]

CloseEnds(a) ==
  /\ draining = a /\ \E id \in Ids : Uses[id[1]] = a /\ life[id] = "closing"
  /\ Closed(a) /\ draining' = None /\ drained' = drained \cup {a}
  /\ IF a \in Pooled THEN UNCHANGED client ELSE client' = [client EXCEPT ![a] = None]
  /\ context' = [e \in Entered |-> IF e = a THEN None ELSE context[e]]
  /\ UNCHANGED <<server, holder, task, mishaps>>

(* Mutant: a close that raises ends the shutdown. *)
CloseRaisesOut(a) ==
  /\ draining = a /\ Mishap
  /\ Closed(a) /\ UNCHANGED <<process, client, context, holder, task>>
(* A close that raises is logged; what it was to reset stays (Supermemory   *)
(* resets it all the same, as CloseEnds does).                              *)
CloseRaises(a) ==
  /\ draining = a /\ Mishap
  /\ Closed(a) /\ draining' = None /\ drained' = drained \cup {a}
  /\ UNCHANGED <<server, client, context, holder, task>>

(* The loop ends and cancels what still runs.                               *)
Exit ==
  /\ server = "stopping" /\ drained = Adapters
  /\ server' = "down"
  /\ task' = [t \in Tasks |-> IF Over(t) \/ Comes(t, "idle") THEN task[t]
                              ELSE [pc |-> "failed", n |-> task[t].n, using |-> None]]
  /\ UNCHANGED <<drained, draining, client, context, holder, life, mishaps>>

CallGoesOn(t) ==
  GetClient(t) \/ Acquire(t) \/ ClientOpens(t) \/ OpenFails(t) \/ Answered(t) \/ Misanswered(t) \/ CallFails(t)
Drain == Exit \/ \E a \in Adapters : CloseClient(a) \/ CloseEnds(a) \/ CloseRaises(a)

GoesOn == StartUp \/ Drain \/ \E t \in Tasks : CallGoesOn(t)

ClientsNext == Boot \/ ShutDown \/ GoesOn

(* The loop runs what is ready, and every call has a timeout: as long as    *)
(* anything is under way, something of it goes on.                          *)
ClientsFairness == WF_clientVars(server \notin {"off", "down"} /\ GoesOn)

ClientsSpec == ClientsInit /\ [][ClientsNext]_clientVars /\ ClientsFairness

-----------------------------------------------------------------------------
ClientsTypeOK ==
  /\ server \in {"off", "starting", "up", "stopping", "down"}
  /\ drained \subseteq Adapters /\ draining \in Adapters \cup {None}
  /\ client \in [Adapters -> Ids \cup {None}]
  /\ context \in [Entered -> Ids \cup {None}] /\ holder \in [Entered -> Tasks \cup {None}]
  /\ life \in [Ids -> {"none", "opening", "open", "closing", "closed", "broken"}]
  /\ task \in [Tasks -> Task] /\ mishaps \in 0..MaxMishaps

(* However calls, the startup and the shutdown interleave, and whatever     *)
(* fails, a process has one client of a kind: none is made beside another   *)
(* that is open or being made (the double check under each _init_lock).     *)
Alive(a) == {id \in Ids : Uses[id[1]] = a /\ life[id] \in {"opening", "open"}}
OneClient == \A a \in Adapters : \A x, y \in Alive(a) : x = y

(* Until the process stops, a call fails for a failure of its own, or for   *)
(* two answers that did not fit: a client that did not open, or another     *)
(* task's, takes no other call with it.                                     *)
FailsAlone ==
  server \in {"off", "starting", "up"} =>
    Cardinality({t \in Tasks : Comes(t, "failed") /\ (Uses[t] \in Skilled => task[t].n < 2)}) <= mishaps

(* A skill's answer is of at most two requests, and a task that waits is    *)
(* behind one that is making the client or has: nobody waits for a lock     *)
(* nobody holds on to (skills/base.py:83-114).                              *)
CallsEnd == []<>(\A t \in Tasks : Comes(t, "idle") \/ Over(t))

(* "a failure to drain one client never blocks the others"                  *)
(* (lifespan.py:139-140): a process that stops is done with each of them,   *)
(* and one that starts comes up whatever its warm-ups meet (:57-59).        *)
StartsAndStops == []<>(server \notin {"starting", "stopping"})

(* Together: no failure leaves a call, the startup or the shutdown waiting. *)
NobodyIsLeftWaiting == CallsEnd /\ StartsAndStops

-----------------------------------------------------------------------------
(* What the documents say and the code does not keep; no run checks this.   *)

(* "closing them here ensures the connection pools drain gracefully on      *)
(* uvicorn shutdown instead of leaving sockets to the OS" (lifespan.py:     *)
(* 134-137): a task left running by a turn makes a client anew after its    *)
(* adapter was closed, or is making one when it is.                         *)
Drained == server = "down" => \A a \in Adapters : Alive(a) = {}
=============================================================================
