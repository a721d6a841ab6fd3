------------------------------ MODULE TurnStream ------------------------------
(***************************************************************************)
(* What a Rep hears of a turn.  The turn's retrieval races a deadline and  *)
(* falls back on the context stashed in Redis; the LLM's tokens pass the   *)
(* marker scanner, which runs tools in the middle of the reply, and become *)
(* NDJSON chunks.  An SMS turn waits for its retrieval, collects the reply *)
(* through the same scanner, runs its tools and sends one message.         *)
(*                                                                         *)
(* A reply is a sequence of letters: "t" is text, OpenMark and CloseMark   *)
(* stand for "<<TOOL " and ">>", what is between them for a tool's name    *)
(* and arguments.  It reaches the scanner cut into tokens anywhere.        *)
(***************************************************************************)
EXTENDS Integers, Sequences

CONSTANTS
  Voice,       \* voice turns of the call, numbered in the order they begin
  Texts,       \* its SMS turns, numbered likewise
  Replies,     \* what the LLM may reply
  MaxToken,    \* bound on the letters of a token
  ChunkChars,  \* chunk_chars, 12 in the code
  MaxTroubles  \* bound on failures

OpenMark  == <<"<", "T">>
CloseMark == <<">", ">">>
Letters   == {"t", "<", ">", "T", "d", "c", "e", "x", "m"}
Phrases   == {"bridge", "snag", "gotit", "filler"}  \* the turn's own, each taken for one letter
Words     == Letters \cup Phrases

ASSUME StreamAssumption == /\ Voice \cup Texts \subseteq Nat \ {0} /\ Voice \cap Texts = {}
                           /\ MaxToken \in Nat \ {0} /\ ChunkChars \in Nat \ {0}
                           /\ MaxTroubles \in Nat /\ Replies \subseteq Seq(Letters)

VARIABLES
  stash,    \* prewarm:call:{id}: Broad, or the turn it was retrieved for
  prewarm,  \* the prewarm task
  fetch,    \* the turns' retrieval tasks
  turn,     \* what a turn holds
  troubles

streamVars == <<stash, prewarm, fetch, turn, troubles>>

NoContext == -1
Broad     == 0  \* what the prewarm found, older than any turn's
Contexts  == Voice \cup {Broad, NoContext}
Results   == [says: {<<"bridge">>, <<"snag">>}, ends: BOOLEAN, hangs: BOOLEAN]
Stages    == {"idle", "racing", "reading", "tools", "closing", "closed", "failed", "over"}
Turn      == [pc: Stages,
              held: Contexts,          \* the stash as it was when the turn began
              context: Contexts \cup Texts,
              reply: Seq(Letters),     \* history: all the LLM said
              rest: Seq(Letters),      \* what it has not said yet
              buffer: Seq(Letters),    \* the scanner's
              inMarker: BOOLEAN,
              spoken: Seq(Words),      \* spoken_parts
              out: Seq(Words),         \* the NDJSON writer's
              first: BOOLEAN,          \* its next flush is the first
              calls: Seq(Letters),     \* SMS: tool calls to run
              ran: Seq(Results),
              heard: Seq(Words),       \* the texts of the chunks sent, one after the other
              kinds: Seq({"interim", "final", "hangup"})]  \* of the chunks

NewTurn == [pc |-> "idle", held |-> NoContext, context |-> NoContext, reply |-> <<>>,
            rest |-> <<>>, buffer |-> <<>>, inMarker |-> FALSE, spoken |-> <<>>, out |-> <<>>,
            first |-> TRUE, calls |-> <<>>, ran |-> <<>>, heard |-> <<>>, kinds |-> <<>>]

StreamInit ==
  /\ stash = NoContext /\ prewarm = "idle" /\ troubles = 0
  /\ fetch = [t \in Voice \cup Texts |-> "idle"]
  /\ turn = [t \in Voice \cup Texts |-> NewTurn]

Reaches(t, p) == turn[t].pc = p
Trouble == troubles < MaxTroubles /\ troubles' = troubles + 1
Becomes(t, rec) == turn' = [turn EXCEPT ![t] = rec]
Send(rec, text, kind) == [rec EXCEPT !.heard = @ \o text, !.kinds = Append(@, kind)]

-----------------------------------------------------------------------------
(* Retrieval (orchestrator/retrieval.py, prewarm.py).                       *)

(* The prewarm task ends: it stashes its context, or logs why not.          *)
prewarm_call_context ==
  /\ prewarm = "running"
  /\ \/ prewarm' = "stashed" /\ stash' = Broad /\ UNCHANGED troubles
     \/ prewarm' = "failed" /\ Trouble /\ UNCHANGED stash
  /\ UNCHANGED <<fetch, turn>>

(* The memory search never raises (it answers nothing); the brain's may.    *)
for_turn(t) ==
  /\ fetch[t] = "running"
  /\ \/ fetch' = [fetch EXCEPT ![t] = "landed"] /\ UNCHANGED troubles
     \/ fetch' = [fetch EXCEPT ![t] = "failed"] /\ Trouble
  /\ UNCHANGED <<stash, prewarm, turn>>

(* The callback put on the task after the race writes what it found, also   *)
(* long after the turn; a Redis error is lost with the task.                *)
StashOnCompletion(t) ==
  /\ t \in Voice /\ fetch[t] = "landed" /\ turn[t].pc \notin {"idle", "racing"}
  /\ fetch' = [fetch EXCEPT ![t] = "stashed"]
  /\ \/ stash' = t /\ UNCHANGED troubles
     \/ Trouble /\ UNCHANGED stash
  /\ UNCHANGED <<prewarm, turn>>

(* A turn begins; the first one has just created the call's row, and with   *)
(* it the prewarm task.  AgentPhone is taken to send one turn after another *)
(* (CallSession has them overlap); what those before held is gone with them.*)
BeginTurn(t) ==
  /\ Reaches(t, "idle")
  /\ \A u \in Voice \cup Texts :
       turn[u].pc \in {"closed", "failed", "over"} \cup (IF u < t THEN {} ELSE {"idle"})
  /\ turn' = [u \in Voice \cup Texts |->
       IF u = t THEN [NewTurn EXCEPT !.pc = "racing", !.held = stash]
                ELSE [NewTurn EXCEPT !.pc = IF turn[u].pc = "idle" THEN @ ELSE "over"]]
  /\ fetch' = [fetch EXCEPT ![t] = "running"]
  /\ prewarm' = IF t \in Voice /\ prewarm = "idle" THEN "running" ELSE prewarm
  /\ UNCHANGED <<stash, troubles>>

Prompted(t, c, rec) ==
  \E r \in Replies : Becomes(t, [rec EXCEPT !.pc = "reading", !.context = c, !.reply = r, !.rest = r])
Filled(rec) == Send(rec, <<"filler">>, "interim")

(* The retrieval lands inside the deadline (an SMS turn has none), or       *)
(* raises and takes the turn with it.                                       *)
RetrievalWins(t) ==
  /\ Reaches(t, "racing")
  /\ \/ fetch[t] = "landed" /\ Prompted(t, t, turn[t])
     \/ fetch[t] = "failed" /\ Becomes(t, [turn[t] EXCEPT !.pc = "failed"])
  /\ UNCHANGED <<stash, prewarm, fetch, troubles>>

(* Mutant: the fallback waits for the task it has given up on. *)
FallBackWaits(t) ==
  /\ t \in Voice /\ Reaches(t, "racing") /\ fetch[t] = "landed"
  /\ Prompted(t, t, Filled(turn[t]))
  /\ UNCHANGED <<stash, prewarm, fetch, troubles>>

(* The deadline passes: the turn says a filler and takes what was stashed.  *)
FallBack(t) ==
  /\ t \in Voice /\ Reaches(t, "racing") /\ fetch[t] = "running"
  /\ Prompted(t, turn[t].held, Filled(turn[t]))
  /\ UNCHANGED <<stash, prewarm, fetch, troubles>>

-----------------------------------------------------------------------------
(* The scanner and the NDJSON writer (tool_dispatch.py, streaming.py).      *)

Stands(s, i, mark) == i + Len(mark) <= Len(s) + 1 /\ \A k \in 1..Len(mark) : s[i + k - 1] = mark[k]

(* The first place of s beyond p where the mark stands, or 0.               *)
Place(s, p, mark) ==
  LET P == {i \in (p + 1)..Len(s) : Stands(s, i, mark)}
  IN  IF P = {} THEN 0 ELSE CHOOSE i \in P : \A j \in P : i <= j
After(s, n) == SubSeq(s, n + 1, Len(s))

(* Mutant: nothing is held back. *)
HoldNothing == 0
(* What may be the beginning of a marker is held back.                      *)
Hold == Len(OpenMark) - 1

(* A voice turn flushes its first letter at once, then a chunk at a time;   *)
(* an SMS turn only collects.                                               *)
Say(rec, text) ==
  LET said == [rec EXCEPT !.spoken = @ \o text, !.out = @ \o text] IN
  IF Len(said.out) >= (IF rec.first THEN 1 ELSE ChunkChars)
    THEN [Send(said, said.out, "interim") EXCEPT !.out = <<>>, !.first = FALSE]
    ELSE said
Collect(rec, text) == [rec EXCEPT !.spoken = @ \o text]
Speaks(t, rec, text) == IF t \in Voice THEN Say(rec, text) ELSE Collect(rec, text)

(* What the scanner can do with the buffer before it asks for more.         *)
Sees(t, mark) == Place(turn[t].buffer, 0, mark)
CanEmit(t) == ~turn[t].inMarker /\ Sees(t, OpenMark) = 0 /\ Len(turn[t].buffer) > Hold
CanOpen(t) == ~turn[t].inMarker /\ Sees(t, OpenMark) > 0
CanClose(t) == turn[t].inMarker /\ Sees(t, CloseMark) > 0
Hungry(t) == Reaches(t, "reading") /\ ~CanEmit(t) /\ ~CanOpen(t) /\ ~CanClose(t)

NextToken(t) ==
  LET rec == turn[t] IN
  /\ Hungry(t)
  /\ \E n \in 1..MaxToken :
       /\ n <= Len(rec.rest)
       /\ Becomes(t, [rec EXCEPT !.rest = After(@, n), !.buffer = @ \o SubSeq(rec.rest, 1, n)])
  /\ UNCHANGED <<stash, prewarm, fetch, troubles>>

EmitText(t) ==
  LET rec == turn[t]
      n == Len(rec.buffer) - Hold IN
  /\ Reaches(t, "reading") /\ CanEmit(t)
  /\ Becomes(t, [Speaks(t, rec, SubSeq(rec.buffer, 1, n)) EXCEPT !.buffer = After(@, n)])
  /\ UNCHANGED <<stash, prewarm, fetch, troubles>>

OpenMarker(t) ==
  LET rec == turn[t]
      i == Sees(t, OpenMark)
      ahead == IF i > 1 THEN Speaks(t, rec, SubSeq(rec.buffer, 1, i - 1)) ELSE rec IN
  /\ Reaches(t, "reading") /\ CanOpen(t)
  /\ Becomes(t, [ahead EXCEPT !.buffer = After(@, i - 1 + Len(OpenMark)), !.inMarker = TRUE])
  /\ UNCHANGED <<stash, prewarm, fetch, troubles>>

-----------------------------------------------------------------------------
(* Tools (orchestrator/tools/).                                             *)

Result(says, ends, hangs) == [says |-> says, ends |-> ends, hangs |-> hangs]

(* A decision the Rep waits for ends the turn, an async one does not.       *)
request_manager_decision == {Result(<<"bridge">>, e, FALSE) : e \in BOOLEAN}
(* A correction ends the turn when there is no workspace or no Manager.     *)
request_correction == {Result(<<"bridge">>, e, FALSE) : e \in BOOLEAN}
end_call == {Result(<<"bridge">>, TRUE, TRUE)}
(* The registry raises for an unknown tool; a tool for bad arguments, or    *)
(* whatever it meets.  The voice turn says so and ends.                     *)
Snag == Result(<<"snag">>, TRUE, FALSE)

Named(tool) == CASE tool = "d" -> request_manager_decision
                 [] tool = "c" -> request_correction
                 [] tool = "e" -> end_call
                 [] OTHER -> {}
(* A marker without a name, or whose arguments are no JSON object, is none. *)
Parsed(raw) == raw # <<>> /\ raw # <<"m">>

(* The marker is complete: a voice turn runs its tool, says its bridge and  *)
(* may end there; an SMS turn keeps the call for later.                     *)
CloseMarker(t) ==
  LET rec == turn[t]
      i == Sees(t, CloseMark)
      raw == SubSeq(rec.buffer, 1, i - 1)
      past == [rec EXCEPT !.buffer = After(@, i - 1 + Len(CloseMark)), !.inMarker = FALSE] IN
  /\ Reaches(t, "reading") /\ CanClose(t)
  /\ IF ~Parsed(raw) THEN Becomes(t, past)
     ELSE IF t \in Texts THEN Becomes(t, [past EXCEPT !.calls = Append(@, Head(raw))])
     ELSE \E r \in Named(Head(raw)) \cup {Snag} :
            Becomes(t, [Say(past, r.says) EXCEPT !.ran = Append(@, r),
                                                 !.pc = IF r.ends THEN "closing" ELSE @])
  /\ UNCHANGED <<stash, prewarm, fetch, troubles>>

(* The reply ends: what was held back is text, an open marker is dropped.   *)
EndReply(t) ==
  LET rec == turn[t]
      done == IF rec.inMarker \/ rec.buffer = <<>> THEN rec ELSE Speaks(t, rec, rec.buffer) IN
  /\ Hungry(t) /\ rec.rest = <<>>
  /\ Becomes(t, [done EXCEPT !.pc = IF t \in Voice THEN "closing" ELSE "tools"])
  /\ UNCHANGED <<stash, prewarm, fetch, troubles>>

Hangs(rec) == \E i \in DOMAIN rec.ran : rec.ran[i].hangs
Shut(rec) == [rec EXCEPT !.pc = "closed", !.out = <<>>]

(* Mutant: the stream ends with the last full chunk. *)
CloseStreamUnflushed(t) ==
  LET rec == turn[t] IN
  /\ t \in Voice /\ Reaches(t, "closing")
  /\ Becomes(t, Shut(IF rec.out = <<>> THEN rec ELSE Send(rec, rec.out, "final")))
  /\ UNCHANGED <<stash, prewarm, fetch, troubles>>
(* The final chunk, empty if need be, and the hangup.                       *)
CloseStream(t) ==
  LET rec == turn[t]
      sent == Send(rec, rec.out, "final") IN
  /\ t \in Voice /\ Reaches(t, "closing")
  /\ Becomes(t, Shut(IF Hangs(rec) THEN Send(sent, <<>>, "hangup") ELSE sent))
  /\ UNCHANGED <<stash, prewarm, fetch, troubles>>

(* SMS: only decisions are run; a failure becomes a line of the message.    *)
RunTool(t) ==
  LET rec == turn[t] IN
  /\ Reaches(t, "tools") /\ rec.calls # <<>>
  /\ IF Head(rec.calls) # "d" THEN Becomes(t, [rec EXCEPT !.calls = Tail(@)])
     ELSE \E r \in request_manager_decision \cup {Snag} :
            Becomes(t, [rec EXCEPT !.calls = Tail(@), !.ran = Append(@, r)])
  /\ UNCHANGED <<stash, prewarm, fetch, troubles>>

Bridges(rec) == [i \in DOMAIN rec.ran |-> rec.ran[i].says[1]]

SendReply(t) ==
  LET rec == turn[t]
      body == rec.spoken \o Bridges(rec) IN
  /\ Reaches(t, "tools") /\ rec.calls = <<>>
  /\ Becomes(t, Shut(Send(rec, IF body = <<>> THEN <<"gotit">> ELSE body, "final")))
  /\ UNCHANGED <<stash, prewarm, fetch, troubles>>

(* The LLM's stream raises or times out, or the caller's connection drops.  *)
AbortTurn(t) ==
  /\ turn[t].pc \in {"racing", "reading", "tools", "closing"}
  /\ Trouble /\ Becomes(t, [turn[t] EXCEPT !.pc = "failed"])
  /\ UNCHANGED <<stash, prewarm, fetch>>

TurnGoesOn(t) ==
  \/ RetrievalWins(t) \/ FallBack(t) \/ NextToken(t) \/ EmitText(t) \/ OpenMarker(t)
  \/ CloseMarker(t) \/ EndReply(t) \/ CloseStream(t) \/ RunTool(t) \/ SendReply(t)

StreamNext ==
  \/ prewarm_call_context
  \/ \E t \in Voice \cup Texts : for_turn(t) \/ StashOnCompletion(t)
  \/ \E t \in Voice \cup Texts : BeginTurn(t) \/ TurnGoesOn(t) \/ AbortTurn(t)

(* The event loop runs the turn; the LLM goes on or its client's timeout    *)
(* raises.  Nothing is assumed of the retrieval: it has no timeout.         *)
StreamFairness == \A t \in Voice \cup Texts : WF_streamVars(TurnGoesOn(t))

StreamSpec == StreamInit /\ [][StreamNext]_streamVars /\ StreamFairness

-----------------------------------------------------------------------------
StreamTypeOK ==
  /\ stash \in Contexts /\ prewarm \in {"idle", "running", "stashed", "failed"}
  /\ fetch \in [Voice \cup Texts -> {"idle", "running", "landed", "failed", "stashed"}]
  /\ turn \in [Voice \cup Texts -> Turn] /\ troubles \in 0..MaxTroubles

(* The reply r read at one go, rs being what its tools returned: what is    *)
(* said from place p on when k tools have run.  A tool that has no result   *)
(* was not run, which is told from any word.                                *)
ReadFrom(r, rs) ==
  LET read[p \in 0..Len(r)] == [k \in 0..Len(rs) |->
        LET i == Place(r, p, OpenMark)
            b == i + 1  \* the mark's second letter
            j == Place(r, b, CloseMark)
        IN  IF i = 0 THEN After(r, p)
            ELSE SubSeq(r, p + 1, i - 1) \o
                 (IF j = 0 THEN <<>>
                  ELSE IF ~Parsed(SubSeq(r, b + 1, j - 1)) THEN read[j + 1][k]
                  ELSE IF k = Len(rs) THEN <<"not run">>
                  ELSE IF rs[k + 1].ends THEN rs[k + 1].says
                  ELSE rs[k + 1].says \o read[j + 1][k + 1])]
  IN  read
ReadAtOnce(r, rs) == ReadFrom(r, rs)[0][0]

Silent(r) == [i \in 1..Len(r) |-> Result(<<>>, FALSE, FALSE)]

(* However the reply is cut into tokens and chunks, what the Rep hears of a *)
(* turn is the text around its markers with each tool's words in its place, *)
(* up to the tool that ended the turn, after the filler if the turn fell    *)
(* back; an SMS has all of its text, and the words of the decisions it      *)
(* asked for after it (tool_dispatch.py, streaming.py, turn_loop.py,        *)
(* sms_orchestrator.py).                                                    *)
SpokenIsTheReply ==
  /\ \A t \in Voice : Reaches(t, "closed") =>
       turn[t].heard = (IF turn[t].context = t THEN <<>> ELSE <<"filler">>)
                         \o ReadAtOnce(turn[t].reply, turn[t].ran)
  /\ \A t \in Texts : Reaches(t, "closed") =>
       LET body == ReadAtOnce(turn[t].reply, Silent(turn[t].reply)) \o Bridges(turn[t])
       IN  turn[t].heard = IF body = <<>> THEN <<"gotit">> ELSE body

(* AgentPhone learns of a turn's end once, by its only chunk that is not    *)
(* interim, and is told to hang up after it and for end_call alone          *)
(* (streaming.py:12-15, end_call.py:3-4).                                   *)
ClosedOnce ==
  \A t \in Voice :
    LET kinds == turn[t].kinds
        closing == IF ~Reaches(t, "closed") THEN <<>>
                   ELSE IF Hangs(turn[t]) THEN <<"final", "hangup">> ELSE <<"final">>
        n == Len(kinds) - Len(closing)
    IN  n >= 0 /\ kinds = [i \in 1..n |-> "interim"] \o closing

(* Together: the Rep hears the reply, all of it and then its end.           *)
ReplyIsDelivered == StreamTypeOK /\ SpokenIsTheReply /\ ClosedOnce

(* A voice turn comes to its end even if its retrieval never does, and so   *)
(* does an SMS turn whose retrieval has: again and again no turn is waiting *)
(* for anything but that (turn_loop.py:116-138).                            *)
Unfinished == {t \in Voice \cup Texts :
                 turn[t].pc \in {"reading", "tools", "closing"} \/ (t \in Voice /\ Reaches(t, "racing"))}
EveryTurnCloses == []<>(Unfinished = {})

-----------------------------------------------------------------------------
(* What the documents say and the code does not keep; no run checks these.  *)

(* "(prewarm_starter) also pulls the caller profile up front so the prompt  *)
(* has ambient context from turn 1" (retrieval.py:5-6): only the prewarm's  *)
(* context has a profile, and a turn whose retrieval wins does not read it. *)
KnowsTheCaller ==
  \A t \in Voice : turn[t].held = Broad /\ turn[t].pc \notin {"idle", "racing", "failed", "over"}
                     => turn[t].context = Broad

(* "multi-turn calls converge to fresh context within one turn of lag"      *)
(* (turn_loop.py:137-138): a late prewarm or a late retrieval of an earlier *)
(* turn overwrites what a later one stashed.                                *)
StashStaysFresh == [][stash' >= stash]_stash
=============================================================================
