----------------------------- MODULE FsmEngine -----------------------------
(***************************************************************************)
(* The event-sourced engine of the api-gateway (services/fsm_engine.py):   *)
(* the exam_session_events log of one session, the current_phase snapshot  *)
(* of its exam_sessions row, and the database transactions of the tasks    *)
(* that call transition() concurrently.  A transaction reads the log in    *)
(* one step and commits in a later one; in between, other tasks, of the    *)
(* same connection or of another, may commit.  PostgreSQL's READ COMMITTED *)
(* isolation lets them; only UNIQUE(session_id, seq) stands in the way.    *)
(***************************************************************************)
EXTENDS ExamFsm

CONSTANTS
    Writers,    \* the tasks that call fsm_engine.transition
    NoPhase     \* the NULL current_phase of a session with no transition yet

ASSUME NoPhaseAssumption ==
    NoPhase \notin ExamPhase \cup {InvalidTransitionError, "IntegrityError"}

VARIABLES
    log,        \* exam_session_events, row i holding seq i
    snapshot,   \* exam_sessions.current_phase
    txn,        \* the open transaction of each writer
    reply       \* what each writer's latest call ended with

vars == <<log, snapshot, txn, reply>>

----------------------------------------------------------------------------
(* Rows and transactions *)

PHASE_TRANSITION_EVENT_TYPE == "PHASE_TRANSITION"

Row == [event_type : {PHASE_TRANSITION_EVENT_TYPE},
        event : ExamEvent, from : ExamPhase, to : ExamPhase]

(* The row create_session writes at seq 1; the only other type of row. *)
SessionCreated == [event_type |-> "SESSION_CREATED"]

(* Seq 1 is SESSION_CREATED, every later row a PHASE_TRANSITION. *)
IsLog(rows) ==
    /\ rows \in Seq(Row \cup {SessionCreated})
    /\ Len(rows) > 0 /\ rows[1] = SessionCreated
    /\ \A i \in 2..Len(rows) : rows[i] \in Row

(* _fold_phase keeps the PHASE_TRANSITION rows, which are all but row 1. *)
PhaseEvents(rows) == [i \in 1..(Len(rows) - 1) |-> rows[i + 1].event]

_fold_phase(rows) == fold(PhaseEvents(rows))

Idle == [pc |-> "idle"]

(* An open transaction; its mutated form takes the seq of the last row. *)
TakesLastSeq(event, current_phase, next_phase, next_seq) ==
    [pc |-> "loaded", event |-> event, current_phase |-> current_phase,
     next_phase |-> next_phase, next_seq |-> next_seq - 1]

Pending(event, current_phase, next_phase, next_seq) ==
    [pc |-> "loaded", event |-> event, current_phase |-> current_phase,
     next_phase |-> next_phase, next_seq |-> next_seq]

Txn == {Idle} \cup [pc : {"loaded"}, event : ExamEvent, current_phase : ExamPhase,
                     next_phase : ExamPhase, next_seq : Nat]

Replies == ExamPhase \cup {NoPhase, InvalidTransitionError, "IntegrityError"}

----------------------------------------------------------------------------
(* Actions *)

(* What POST /sessions commits: the session's row and its first event.  No *)
(* connection is accepted for a session that does not exist.               *)
Init ==
    /\ log = <<SessionCreated>>
    /\ snapshot = NoPhase
    /\ txn = [w \in Writers |-> Idle]
    /\ reply = [w \in Writers |-> NoPhase]

(* Mutated form of Load: an illegal call opens a transaction all the same. *)
LoadUnchecked(w, event) ==
    /\ txn[w].pc = "idle"
    /\ LET current_phase == _fold_phase(log)
       IN  txn' = [txn EXCEPT ![w] =
                      Pending(event, current_phase, transition(current_phase, event),
                              Len(log) + 1)]
    /\ reply' = [reply EXCEPT ![w] = NoPhase]
    /\ UNCHANGED <<log, snapshot>>

(* transition() reads the whole log, replays it and computes the next      *)
(* phase and the next seq; a call that is not legal raises here.           *)
Load(w, event) ==
    /\ txn[w].pc = "idle"
    /\ LET current_phase == _fold_phase(log)
           next_phase    == transition(current_phase, event)
       IN  IF next_phase = InvalidTransitionError
           THEN /\ reply' = [reply EXCEPT ![w] = InvalidTransitionError]
                /\ txn' = txn
           ELSE /\ txn' = [txn EXCEPT ![w] =
                              Pending(event, current_phase, next_phase, Len(log) + 1)]
                /\ reply' = [reply EXCEPT ![w] = NoPhase]
    /\ UNCHANGED <<log, snapshot>>

(* Mutated forms of the three definitions below: the row records the phase *)
(* it leads to as the one it left, two rows may share a seq, the snapshot  *)
(* is not part of the transaction.                                         *)
RowFromNextPhase(t) ==
    [event_type |-> PHASE_TRANSITION_EVENT_TYPE, event |-> t.event,
     from |-> t.next_phase, to |-> t.next_phase]

SeqNotUnique(t) == t.next_seq > 0

(* The row the transaction inserts, and the snapshot it writes with it. *)
NewRow(t) ==
    [event_type |-> PHASE_TRANSITION_EVENT_TYPE, event |-> t.event,
     from |-> t.current_phase, to |-> t.next_phase]

SeqIsFree(t) == t.next_seq \notin DOMAIN log

WriteRowOnly(t) == log' = Append(log, NewRow(t)) /\ UNCHANGED snapshot

Write(t) ==
    /\ log' = Append(log, NewRow(t))
    /\ snapshot' = t.next_phase

(* INSERT and UPDATE in one commit, when no other row took the seq. *)
Commit(w) ==
    /\ txn[w].pc = "loaded"
    /\ SeqIsFree(txn[w])
    /\ Write(txn[w])
    /\ txn' = [txn EXCEPT ![w] = Idle]
    /\ reply' = [reply EXCEPT ![w] = txn[w].next_phase]

(* uq_session_seq refuses the INSERT; the whole transaction rolls back. *)
Conflict(w) ==
    /\ txn[w].pc = "loaded"
    /\ ~SeqIsFree(txn[w])
    /\ txn' = [txn EXCEPT ![w] = Idle]
    /\ reply' = [reply EXCEPT ![w] = "IntegrityError"]
    /\ UNCHANGED <<log, snapshot>>

(* The calling task is cancelled, or its process dies, before the commit   *)
(* reached the database ...                                                *)
DieBeforeCommit(w) ==
    /\ txn[w].pc = "loaded"
    /\ txn' = [txn EXCEPT ![w] = Idle]
    /\ UNCHANGED <<log, snapshot, reply>>

(* ... or after, with nobody left to hear that it succeeded. *)
DieAfterCommit(w) ==
    /\ txn[w].pc = "loaded"
    /\ SeqIsFree(txn[w])
    /\ Write(txn[w])
    /\ txn' = [txn EXCEPT ![w] = Idle]
    /\ UNCHANGED reply

Next ==
    \E w \in Writers :
        \/ \E event \in ExamEvent : Load(w, event)
        \/ Commit(w)
        \/ Conflict(w)
        \/ DieBeforeCommit(w)
        \/ DieAfterCommit(w)

Spec == Init /\ [][Next]_vars
----------------------------------------------------------------------------
(* Properties *)

TypeOK ==
    /\ IsLog(log)
    /\ snapshot \in ExamPhase \cup {NoPhase}
    /\ reply \in [Writers -> Replies]
    /\ txn \in [Writers -> Txn]

(* The log replays: however the transactions of concurrent callers, their  *)
(* conflicts and their deaths interleave, row by row the phase it was      *)
(* written from and the phase it was written to are the ones that fold()   *)
(* computes at that point of the log, so no replay ever raises.            *)
LogReplays ==
    LET phaseAt == replay(PhaseEvents(log))
    IN  \A i \in 2..Len(log) : /\ log[i].from = phaseAt[i - 2]
                               /\ log[i].to = phaseAt[i - 1]
                               /\ phaseAt[i - 1] \in ExamPhase

(* exam_sessions.current_phase is a cache of fold(events) and never a      *)
(* second source of truth, even between a stale read and its commit.       *)
SnapshotIsFold ==
    snapshot = IF Len(log) = 1 THEN NoPhase ELSE _fold_phase(log)

(* An open transaction read a prefix of the log, and proposes what follows *)
(* that prefix: what makes a stale commit lose by its seq alone.           *)
TxnReadsPrefix ==
    \A w \in Writers :
        txn[w].pc = "loaded" =>
            LET t == txn[w]
            IN  /\ t.next_seq \in 2..(Len(log) + 1)
                /\ t.current_phase = replay(PhaseEvents(log))[t.next_seq - 2]
                /\ t.next_phase = transition(t.current_phase, t.event)

(* Two callers that race for the exit of one phase (the candidate's        *)
(* release and the cutoff watchdog, say) never both succeed: a phase is    *)
(* entered by one call, and what a caller was told is in the log.          *)
ExitWonOnce ==
    \A w \in Writers :
        reply[w] \in ExamPhase =>
            /\ \E i \in 2..Len(log) : log[i].to = reply[w]
            /\ \A v \in Writers \ {w} : reply[v] # reply[w]

(* The log, replayed, climbs the ladder one rung per step. *)
Ladder == INSTANCE PhaseLadder WITH phase <- fold(PhaseEvents(log))

ClimbsLadder == Ladder!Spec
============================================================================
