----------------------------- MODULE ExamSocket -----------------------------
(***************************************************************************)
(* How an answer gets from the exam room's button into object storage over *)
(* a connection that drops: the page (app/exam/[sessionId]/page.tsx), its  *)
(* socket client (ws/exam-socket-client.ts), the durable buffer behind it  *)
(* (persistence/turn-buffer.ts), and the gateway's client pump and         *)
(* background flush (routers/ws_exam.py).                                  *)
(*                                                                         *)
(* A frame is <<press, k>>, the k-th piece of audio of a press.  Turn ids  *)
(* are numbers, of the client's own counter and of the gateway's.          *)
(***************************************************************************)
EXTENDS Integers, Sequences, Functions

CONSTANTS
    MaxPresses, \* bound: answers of the candidate
    MaxFrames,  \* bound: frames of an answer
    MaxDrops,   \* bound: connections lost
    MaxFailures \* bound: flushes that raise

ASSUME RelayAssumption ==
    {MaxPresses, MaxFrames, MaxDrops, MaxFailures} \subseteq Nat

VARIABLES
    (* the page *)
    holding,       \* isPttActive
    spoken,        \* frames spoken so far in each press
    (* ExamSocketClient and TurnBuffer *)
    currentTurnId, \* ExamSocketClient.currentTurnId, 0 for null
    bufferTurnId,  \* TurnBuffer.currentTurnId, 0 for null
    frames,        \* the IndexedDB store: turn id -> its frames in order
    ids,           \* ids handed out by randomUUID
    replay,        \* where replayIncompleteTurn is, and what it has taken
    (* the connection *)
    link,          \* "open" or "down"
    up,            \* messages on their way to the gateway
    acks,          \* turn_complete messages on their way to the client
    connection,    \* number of the connection
    (* ws_exam.py *)
    turn,          \* turn_id of the client pump, 0 for None
    buffer,        \* the audio of that turn
    turns,         \* gateway turn ids handed out
    flushes,       \* tasks of _flush_turn_in_background
    segments,      \* what they have stored
    failures,      \* flushes that have raised
    (* history *)
    acked,         \* presses whose frames a turn_complete has cleared
    careful,       \* see Settled
    alone          \* no press has found another turn in the store

page == <<holding, spoken>>
client == <<currentTurnId, bufferTurnId, frames, ids>>
wire == <<link, up, acks, connection>>
pump == <<turn, buffer, turns>>
storage == <<flushes, segments, failures>>
history == <<acked, careful, alone>>

vars == <<page, client, replay, wire, pump, storage, history>>

----------------------------------------------------------------------------

Start == <<"activity_start">>
End == <<"activity_end">>
Frame == (1 .. MaxPresses) \X (1 .. MaxFrames)
Idle == [pc |-> "idle", took |-> <<>>]

Presses == Len(spoken)

(* All that was said in press p. *)
Whole(p) == [k \in 1 .. spoken[p] |-> <<p, k>>]

(* Nothing is on its way that a new turn could be confused with.           *)
Settled ==
    /\ up = <<>> /\ acks = 0 /\ turn = 0 /\ replay = Idle
    /\ \A f \in flushes : f.connection # connection

(* What a socket that is not open is given is gone. *)
Send(messages) == up' = IF link = "open" THEN up \o messages ELSE up

(* completeTurn, on the store alone. *)
Without(id) == [i \in DOMAIN frames \ {id} |-> frames[i]]

Init ==
    /\ holding = FALSE /\ spoken = <<>>
    /\ currentTurnId = 0 /\ bufferTurnId = 0 /\ frames = <<>> /\ ids = 0
    /\ replay = Idle
    /\ link = "open" /\ up = <<>> /\ acks = 0 /\ connection = 1
    /\ turn = 0 /\ buffer = <<>> /\ turns = 0
    /\ flushes = {} /\ segments = {} /\ failures = 0
    /\ acked = {} /\ careful = TRUE /\ alone = TRUE

----------------------------------------------------------------------------
(* The page *)

(* Mutated form: the buffer stays with the turn it has. *)
PressKeepsTurn ==
    /\ ~holding /\ Presses < MaxPresses
    /\ holding' = TRUE /\ spoken' = Append(spoken, 0)
    /\ ids' = ids + 1 /\ currentTurnId' = ids'
    /\ bufferTurnId' = IF bufferTurnId = 0 THEN ids' ELSE bufferTurnId
    /\ Send(<<Start>>)
    /\ careful' = (careful /\ Settled) /\ alone' = (alone /\ frames = <<>>)
    /\ UNCHANGED <<frames, replay, link, acks, connection, pump, storage, acked>>

(* handlePress and activityStart.  The button is disabled while there is   *)
(* no connection; the timer of scheduleAutoArm looks only when it is set.  *)
Press ==
    /\ ~holding /\ Presses < MaxPresses
    /\ holding' = TRUE /\ spoken' = Append(spoken, 0)
    /\ ids' = ids + 1 /\ currentTurnId' = ids' /\ bufferTurnId' = ids'
    /\ Send(<<Start>>)
    /\ careful' = (careful /\ Settled) /\ alone' = (alone /\ frames = <<>>)
    /\ UNCHANGED <<frames, replay, link, acks, connection, pump, storage, acked>>

(* The worklet's onmessage: sendAudioFrame and appendFrame. *)
Speak ==
    /\ holding /\ spoken[Presses] < MaxFrames
    /\ spoken' = [spoken EXCEPT ![Presses] = @ + 1]
    /\ LET f == <<Presses, spoken'[Presses]>> IN
       /\ frames' = CASE bufferTurnId = 0 -> frames
                      [] bufferTurnId \in DOMAIN frames ->
                           [frames EXCEPT ![bufferTurnId] = Append(@, f)]
                      [] OTHER -> [i \in DOMAIN frames \cup {bufferTurnId} |->
                                     IF i = bufferTurnId THEN <<f>> ELSE frames[i]]
       /\ Send(<<f>>)
    /\ UNCHANGED <<holding, currentTurnId, bufferTurnId, ids, replay,
                   link, acks, connection, pump, storage, history>>

(* handleRelease and activityEnd *)
Release ==
    /\ holding /\ holding' = FALSE
    /\ Send(<<End>>)
    /\ UNCHANGED <<spoken, client, replay, link, acks, connection, pump, storage, history>>

----------------------------------------------------------------------------
(* The connection *)

(* onclose.  What was on its way is lost in both directions, and so is the *)
(* turn the gateway had open; its flushes go on.                           *)
Drop ==
    /\ link = "open" /\ connection <= MaxDrops
    /\ link' = "down" /\ up' = <<>> /\ acks' = 0
    /\ turn' = 0 /\ buffer' = <<>>
    /\ UNCHANGED <<page, client, replay, connection, turns, storage, history>>

(* scheduleReconnect, openSocket and onopen.  The replay of the connection *)
(* before is over by then: reading the buffer is quicker than the backoff. *)
Reconnect ==
    /\ link = "down" /\ replay = Idle
    /\ link' = "open" /\ connection' = connection + 1
    /\ replay' = [Idle EXCEPT !.pc = "reading"]
    /\ careful' = (careful /\ ~holding)
    /\ UNCHANGED <<page, client, up, acks, pump, storage, acked, alone>>

(* Mutated form: the turn is handed out and stays in the store. *)
TakeAndKeep ==
    /\ replay.pc = "reading"
    /\ \/ /\ frames = <<>> /\ replay' = Idle
          /\ UNCHANGED client
       \/ \E id \in DOMAIN frames :
          /\ replay' = [pc |-> "taken", took |-> frames[id]]
          /\ bufferTurnId' = IF bufferTurnId = id THEN 0 ELSE bufferTurnId
          /\ UNCHANGED <<currentTurnId, frames, ids>>
    /\ UNCHANGED <<page, wire, pump, storage, history>>

(* takeIncompleteTurn: the first turn in the order of the ids, which are   *)
(* random, is handed out and cleared.                                      *)
takeIncompleteTurn ==
    /\ replay.pc = "reading"
    /\ \/ /\ frames = <<>> /\ replay' = Idle
          /\ UNCHANGED client
       \/ \E id \in DOMAIN frames :
          /\ replay' = [pc |-> "taken", took |-> frames[id]]
          /\ frames' = Without(id)
          /\ bufferTurnId' = IF bufferTurnId = id THEN 0 ELSE bufferTurnId
          /\ UNCHANGED <<currentTurnId, ids>>
    /\ UNCHANGED <<page, wire, pump, storage, history>>

(* Mutated form: only what is spoken into the microphone is buffered. *)
ReplayUnbuffered ==
    /\ replay.pc = "taken" /\ replay' = Idle
    /\ ids' = ids + 1 /\ currentTurnId' = ids' /\ bufferTurnId' = ids'
    /\ Send(<<Start>> \o replay.took \o <<End>>)
    /\ UNCHANGED <<page, frames, link, acks, connection, pump, storage, history>>

(* Mutated form: the replay goes on in the turn the buffer has. *)
ReplayInTheOpenTurn ==
    /\ replay.pc = "taken" /\ replay' = Idle
    /\ ids' = ids + 1 /\ currentTurnId' = ids'
    /\ bufferTurnId' = IF bufferTurnId = 0 THEN ids' ELSE bufferTurnId
    /\ frames' = [i \in DOMAIN frames \cup {bufferTurnId'} |->
                    IF i # bufferTurnId' THEN frames[i]
                    ELSE (IF i \in DOMAIN frames THEN frames[i] ELSE <<>>) \o replay.took]
    /\ Send(<<Start>> \o replay.took \o <<End>>)
    /\ UNCHANGED <<page, link, acks, connection, pump, storage, history>>

(* Mutated form: the replayed turn is never ended. *)
ReplayWithoutEnd ==
    /\ replay.pc = "taken" /\ replay' = Idle
    /\ ids' = ids + 1 /\ currentTurnId' = ids' /\ bufferTurnId' = ids'
    /\ frames' = [i \in DOMAIN frames \cup {ids'} |->
                    IF i = ids' THEN replay.took ELSE frames[i]]
    /\ Send(<<Start>> \o replay.took)
    /\ UNCHANGED <<page, link, acks, connection, pump, storage, history>>

(* replayIncompleteTurn, once it has the frames: a turn like any other. *)
Replay ==
    /\ replay.pc = "taken" /\ replay' = Idle
    /\ ids' = ids + 1 /\ currentTurnId' = ids' /\ bufferTurnId' = ids'
    /\ frames' = [i \in DOMAIN frames \cup {ids'} |->
                    IF i = ids' THEN replay.took ELSE frames[i]]
    /\ Send(<<Start>> \o replay.took \o <<End>>)
    /\ UNCHANGED <<page, link, acks, connection, pump, storage, history>>

(* handleServerMessage and completeTurn, for a turn_complete: it is taken  *)
(* for that of the current turn, whichever it is of.                       *)
turn_complete ==
    /\ acks > 0 /\ acks' = acks - 1
    /\ IF currentTurnId = 0 THEN UNCHANGED <<client, acked>>
       ELSE /\ frames' = Without(currentTurnId)
            /\ acked' = IF currentTurnId \in DOMAIN frames
                        THEN acked \cup {f[1] : f \in Range(frames[currentTurnId])}
                        ELSE acked
            /\ bufferTurnId' = IF bufferTurnId = currentTurnId THEN 0 ELSE bufferTurnId
            /\ currentTurnId' = 0
            /\ UNCHANGED ids
    /\ UNCHANGED <<page, replay, link, up, connection, pump, storage, careful, alone>>

----------------------------------------------------------------------------
(* The gateway *)

(* pump_client_to_gemini, on the next message. *)
activity_start ==
    /\ Head(up) = Start
    /\ turns' = turns + 1 /\ turn' = turns' /\ buffer' = <<>>
    /\ UNCHANGED flushes

(* Mutated form: the audio is not emptied. *)
EndKeepsBuffer ==
    /\ Head(up) = End
    /\ flushes' = IF turn = 0 THEN flushes ELSE
                  flushes \cup {[turn |-> turn, connection |-> connection, pcm |-> buffer]}
    /\ turn' = 0
    /\ UNCHANGED <<buffer, turns>>

(* It is ignored when no turn is open. *)
activity_end ==
    /\ Head(up) = End
    /\ flushes' = IF turn = 0 THEN flushes ELSE
                  flushes \cup {[turn |-> turn, connection |-> connection, pcm |-> buffer]}
    /\ turn' = 0 /\ buffer' = <<>>
    /\ UNCHANGED turns

(* A frame outside a turn is dropped. *)
audio_frame ==
    /\ Head(up) \in Frame
    /\ buffer' = IF turn = 0 THEN buffer ELSE Append(buffer, Head(up))
    /\ UNCHANGED <<turn, turns, flushes>>

Receive ==
    /\ up # <<>> /\ up' = Tail(up)
    /\ activity_start \/ activity_end \/ audio_frame
    /\ UNCHANGED <<page, client, replay, link, acks, connection, segments, failures, history>>

(* _flush_turn_in_background: object and row, then the message to the      *)
(* connection it began on, if that is still there.                         *)
Flush ==
    \E f \in flushes :
    /\ flushes' = flushes \ {f}
    /\ segments' = segments \cup {f.pcm}
    /\ acks' = IF link = "open" /\ f.connection = connection THEN acks + 1 ELSE acks
    /\ UNCHANGED <<page, client, replay, link, up, connection, pump, failures, history>>

(* The exception is logged and the client hears nothing. *)
FlushRaises ==
    /\ failures < MaxFailures /\ failures' = failures + 1
    /\ \E f \in flushes : flushes' = flushes \ {f}
    /\ UNCHANGED <<page, client, replay, wire, pump, segments, history>>

----------------------------------------------------------------------------

Candidate == Press \/ Speak \/ Release
System == Reconnect \/ takeIncompleteTurn \/ Replay \/ turn_complete \/ Receive \/ Flush

Next == Candidate \/ System \/ Drop \/ FlushRaises

Spec == Init /\ [][Next]_vars

(* The browser, the network and the gateway go on as long as there is      *)
(* something to do: reconnecting never gives up.  Nothing is assumed of    *)
(* the candidate.                                                          *)
FairSpec == Spec /\ WF_vars(System)

----------------------------------------------------------------------------
(* Properties.  `careful' says that the candidate has not pressed while    *)
(* the acknowledgement of an earlier turn, or a replay, could still come,  *)
(* and has not held the button through a reconnect.  The client has no     *)
(* guard against either; what then happens is in the README.               *)

(* Every variable keeps its type, and the store holds no empty turn. *)
TypeOK ==
    /\ {holding, careful, alone} \subseteq BOOLEAN /\ acked \subseteq 1 .. MaxPresses
    /\ spoken \in Seq(0 .. MaxFrames)
    /\ currentTurnId \in 0 .. ids /\ bufferTurnId \in 0 .. ids
    /\ DOMAIN frames \subseteq 1 .. ids
    /\ \A id \in DOMAIN frames : frames[id] \in Seq(Frame) \ {<<>>}
    /\ replay.pc \in {"idle", "reading", "taken"} /\ replay.took \in Seq(Frame)
    /\ (replay.pc = "taken") <=> (replay.took # <<>>)
    /\ link \in {"open", "down"} /\ acks \in Nat /\ connection \in 1 .. MaxDrops + 1
    /\ up \in Seq({Start, End} \cup Frame) /\ (link = "down" => up = <<>>)
    /\ turn \in 0 .. turns /\ buffer \in Seq(Frame) /\ (turn = 0 => buffer = <<>>)
    /\ segments \subseteq Seq(Frame) /\ failures \in 0 .. MaxFailures
    /\ \A f \in flushes : f.turn \in 1 .. turns /\ f.connection \in 1 .. connection
                          /\ f.pcm \in Seq(Frame)

(* Whatever connections are lost and flushes fail, all that a careful      *)
(* candidate has said so far is stored whole, or is whole in the browser,  *)
(* to be sent (turn-buffer.ts, "never silently lost").                     *)
Kept ==
    careful => \A p \in 1 .. Presses :
        spoken[p] > 0 => Whole(p) \in segments \cup Range(frames) \cup {replay.took}

(* What was acknowledged is not kept to be sent again: a careful           *)
(* candidate's answer is stored twice only when its acknowledgement was    *)
(* lost (completeTurn, takeIncompleteTurn).                                *)
AckedIsGone ==
    careful => \A s \in Range(frames) \cup {replay.took} :
        \A f \in Range(s) : f[1] \notin acked

(* A segment of a careful candidate is one answer, all of it: neither a    *)
(* piece of an interrupted one nor two run together (the pump's turn_id    *)
(* and buffer, replayed turns).                                            *)
SegmentIsOneAnswer ==
    careful => \A s \in segments : s # <<>> => \E p \in 1 .. Presses : s = Whole(p)

(* Whatever anybody does, the frames of a segment are in the order they    *)
(* were spoken, none of them twice, replayed or not: what is lost leaves a *)
(* gap and shuffles nothing (beginTurn, replayIncompleteTurn).             *)
SegmentInOrder ==
    \A s \in segments : \A i, j \in DOMAIN s :
        i < j => s[i][1] < s[j][1] \/ (s[i][1] = s[j][1] /\ s[i][2] < s[j][2])

(* A careful candidate's answer reaches storage in the end, unless the     *)
(* gateway fails to store it or a second one comes to wait beside it: a    *)
(* reconnect replays one turn (replayIncompleteTurn).                      *)
Said(p) == p <= Presses /\ (p < Presses \/ ~holding)
AnswerStored ==
    \A p \in 1 .. MaxPresses :
        Said(p) ~> \/ Said(p) /\ (spoken[p] = 0 \/ Whole(p) \in segments)
                   \/ ~careful \/ ~alone \/ failures > 0
============================================================================
