-------------------------- MODULE FsmEngineProofs --------------------------
(***************************************************************************)
(* Theorems about FsmEngine for any set of writers: its types, that the    *)
(* log always replays, that the snapshot is its fold, that a phase's exit  *)
(* is won once, and that it implements PhaseLadder.                        *)
(***************************************************************************)
EXTENDS FsmEngine, ExamFsmProofs

(* The inductive invariant.  TxnReadsPrefix is what the others need: a     *)
(* transaction whose seq is still free read the whole log.                 *)
IInv == TypeOK /\ TxnReadsPrefix /\ LogReplays /\ SnapshotIsFold /\ ExitWonOnce

(* What a caller may be answered besides a phase is not a phase. *)
LEMMA NotAPhase ==
    /\ InvalidTransitionError \notin ExamPhase
    /\ "IntegrityError" \notin ExamPhase
    /\ NoPhase \notin ExamPhase
    /\ INITIAL_PHASE \in ExamPhase
BY NoPhaseAssumption DEF InvalidTransitionError, ExamPhase, INITIAL_PHASE

(* The PHASE_TRANSITION rows of a log are a list of exit events, one for   *)
(* each row but the first.                                                 *)
LEMMA PhaseEventsType ==
    ASSUME NEW rows, IsLog(rows)
    PROVE  /\ Len(rows) \in Nat \ {0}
           /\ PhaseEvents(rows) \in Seq(ExamEvent)
           /\ Len(PhaseEvents(rows)) = Len(rows) - 1
<1>1. Len(rows) \in Nat \ {0}
  BY DEF IsLog
<1>2. \A i \in 1..(Len(rows) - 1) : rows[i + 1].event \in ExamEvent
  <2> SUFFICES ASSUME NEW i \in 1..(Len(rows) - 1)
               PROVE  rows[i + 1].event \in ExamEvent
    OBVIOUS
  <2>1. i + 1 \in 2..Len(rows)
    BY <1>1
  <2> QED  BY <2>1 DEF IsLog, Row
<1>3. PhaseEvents(rows) \in [1..(Len(rows) - 1) -> ExamEvent]
  BY <1>2 DEF PhaseEvents
<1>4. Len(rows) - 1 \in Nat
  BY <1>1
<1> QED  BY <1>1, <1>3, <1>4

(* The whole of what one INSERT of a row that read the whole log changes.  *)
LEMMA AppendRow ==
    ASSUME NEW rows, NEW row \in Row, IsLog(rows)
    PROVE  LET longer == Append(rows, row)
           IN  /\ IsLog(longer)
               /\ Len(longer) = Len(rows) + 1
               /\ \A i \in 1..Len(rows) : longer[i] = rows[i]
               /\ longer[Len(longer)] = row
               /\ \A n \in 0..(Len(rows) - 1) :
                     replay(PhaseEvents(longer))[n] = replay(PhaseEvents(rows))[n]
               /\ replay(PhaseEvents(longer))[Len(rows)] =
                     transition(fold(PhaseEvents(rows)), row.event)
<1> DEFINE longer == Append(rows, row)
<1>1. Len(rows) \in Nat \ {0} /\ rows \in Seq(Row \cup {SessionCreated})
  BY PhaseEventsType DEF IsLog
<1>2. /\ longer \in Seq(Row \cup {SessionCreated})
      /\ Len(longer) = Len(rows) + 1
      /\ \A i \in 1..Len(rows) : longer[i] = rows[i]
      /\ longer[Len(longer)] = row
  BY <1>1
<1>3. IsLog(longer)
  <2>1. \A i \in 2..Len(longer) : longer[i] \in Row
    BY <1>1, <1>2 DEF IsLog
  <2> QED  BY <1>1, <1>2, <2>1 DEF IsLog
<1> DEFINE s == PhaseEvents(rows)
           t == PhaseEvents(longer)
<1>4. /\ s \in Seq(ExamEvent) /\ Len(s) = Len(rows) - 1
      /\ t \in Seq(ExamEvent) /\ Len(t) = Len(rows)
  <2> HIDE DEF longer
  <2>1. Len(s) = Len(rows) - 1 /\ s \in Seq(ExamEvent)
    BY PhaseEventsType
  <2>2. Len(t) = Len(longer) - 1 /\ t \in Seq(ExamEvent)
    BY <1>3, PhaseEventsType
  <2> QED  BY <1>1, <1>2, <2>1, <2>2
<1>5. \A i \in 1..Len(s) : t[i] = s[i]
  BY <1>1, <1>2, <1>4 DEF PhaseEvents
<1>6. t[Len(rows)] = row.event
  BY <1>1, <1>2 DEF PhaseEvents
<1> HIDE DEF longer, s, t
<1>7. \A n \in 0..Len(s) : replay(t)[n] = replay(s)[n]
  BY <1>1, <1>4, <1>5, ReplayPrefix
<1>8. replay(t)[Len(rows)] = transition(replay(s)[Len(s)], row.event)
  <2>1. /\ Len(rows) \in 1..Len(t)
        /\ Len(rows) - 1 = Len(s) /\ Len(s) \in 0..Len(s)
    BY <1>1, <1>4
  <2>2. replay(t)[Len(rows)] = transition(replay(t)[Len(rows) - 1], t[Len(rows)])
    BY <1>4, <2>1, ReplayStep
  <2> QED  BY <1>6, <1>7, <2>1, <2>2
<1> QED  BY <1>2, <1>3, <1>4, <1>7, <1>8 DEF fold, s, t, longer

(* The log that create_session writes satisfies the invariant. *)
LEMMA InitIInv == Init => IInv
<1> SUFFICES ASSUME Init
             PROVE  IInv
  OBVIOUS
<1>1. TypeOK
  BY DEF Init, TypeOK, IsLog, Txn, Replies
<1>2. TxnReadsPrefix
  BY DEF Init, TxnReadsPrefix, Idle
<1>3. LogReplays /\ SnapshotIsFold
  BY DEF Init, LogReplays, SnapshotIsFold
<1>4. ExitWonOnce
  BY NotAPhase DEF Init, ExitWonOnce
<1> QED  BY <1>1, <1>2, <1>3, <1>4 DEF IInv

(* The replayed phases of a log are phases, and no two rows reach the same. *)
LEMMA LoggedPhases ==
    ASSUME IsLog(log), LogReplays
    PROVE  /\ \A n \in 0..(Len(log) - 1) :
                 /\ replay(PhaseEvents(log))[n] \in ExamPhase
                 /\ Rung(replay(PhaseEvents(log))[n]) = n
           /\ fold(PhaseEvents(log)) = replay(PhaseEvents(log))[Len(log) - 1]
           /\ fold(PhaseEvents(log)) \in ExamPhase
<1> DEFINE s == PhaseEvents(log)
<1>1. Len(log) \in Nat \ {0} /\ s \in Seq(ExamEvent) /\ Len(s) = Len(log) - 1
  BY PhaseEventsType
<1>2. \A n \in 0..(Len(log) - 1) : replay(s)[n] \in ExamPhase
  <2> SUFFICES ASSUME NEW n \in 0..(Len(log) - 1)
               PROVE  replay(s)[n] \in ExamPhase
    OBVIOUS
  <2>1. CASE n = 0
    BY <1>1, <2>1, ReplayStep, NotAPhase
  <2>2. CASE n # 0
    <3>1. n + 1 \in 2..Len(log) /\ (n + 1) - 1 = n
      BY <1>1, <2>2
    <3>2. replay(s)[(n + 1) - 1] \in ExamPhase
      BY <3>1 DEF LogReplays
    <3> QED  BY <3>1, <3>2
  <2> QED  BY <2>1, <2>2
<1>3. \A n \in 0..(Len(log) - 1) : Rung(replay(s)[n]) = n
  BY <1>1, <1>2, ReplayRung
<1> HIDE DEF s
<1>4. fold(s) = replay(s)[Len(log) - 1]
  BY <1>1 DEF fold
<1> QED  BY <1>1, <1>2, <1>3, <1>4 DEF s

(* What a step that leaves the log alone must show. *)
LEMMA SameLog ==
    ASSUME IInv, UNCHANGED <<log, snapshot>>
    PROVE  /\ IsLog(log)' /\ (snapshot \in ExamPhase \cup {NoPhase})'
           /\ LogReplays' /\ SnapshotIsFold'
BY DEF IInv, TypeOK, LogReplays, SnapshotIsFold

(* The commit of a transaction that read the whole log. *)
LEMMA WriteStep ==
    ASSUME IInv, NEW w \in Writers, txn[w].pc = "loaded", SeqIsFree(txn[w]),
           Write(txn[w])
    PROVE  /\ IsLog(log)' /\ (snapshot \in ExamPhase \cup {NoPhase})'
           /\ LogReplays' /\ SnapshotIsFold'
           /\ txn[w].next_phase = transition(fold(PhaseEvents(log)), txn[w].event)
           /\ fold(PhaseEvents(log))' = txn[w].next_phase
           /\ Len(log') = Len(log) + 1
           /\ \A i \in 1..Len(log) : log'[i] = log[i]
           /\ log'[Len(log')].to = txn[w].next_phase
           /\ \A n \in 0..(Len(log) - 1) :
                 replay(PhaseEvents(log'))[n] = replay(PhaseEvents(log))[n]
           /\ \A i \in 2..Len(log) : log[i].to # txn[w].next_phase
<1> DEFINE t == txn[w]
<1>1. /\ t.event \in ExamEvent /\ t.current_phase \in ExamPhase
      /\ t.next_phase \in ExamPhase /\ t.next_seq \in Nat
  BY DEF IInv, TypeOK, Txn, Idle
<1>2. NewRow(t) \in Row
  BY <1>1 DEF NewRow, Row
<1>3. IsLog(log) /\ LogReplays /\ Len(log) \in Nat \ {0}
  BY PhaseEventsType DEF IInv, TypeOK
<1>4. t.next_seq = Len(log) + 1
  <2>1. t.next_seq \in 2..(Len(log) + 1)
    BY DEF IInv, TxnReadsPrefix
  <2>2. DOMAIN log = 1..Len(log)
    BY <1>3 DEF IsLog
  <2> QED  BY <1>3, <2>1, <2>2 DEF SeqIsFree
<1>5. /\ t.current_phase = fold(PhaseEvents(log))
      /\ t.next_phase = transition(fold(PhaseEvents(log)), t.event)
  <2>1. /\ t.current_phase = replay(PhaseEvents(log))[t.next_seq - 2]
        /\ t.next_phase = transition(t.current_phase, t.event)
    BY DEF IInv, TxnReadsPrefix
  <2>2. t.next_seq - 2 = Len(log) - 1
    BY <1>3, <1>4
  <2> QED  BY <1>3, <2>1, <2>2, LoggedPhases
<1>6. /\ IsLog(log')
      /\ Len(log') = Len(log) + 1
      /\ \A i \in 1..Len(log) : log'[i] = log[i]
      /\ log'[Len(log')] = NewRow(t)
      /\ \A n \in 0..(Len(log) - 1) :
            replay(PhaseEvents(log'))[n] = replay(PhaseEvents(log))[n]
      /\ replay(PhaseEvents(log'))[Len(log)] = t.next_phase
  <2>1. log' = Append(log, NewRow(t)) /\ NewRow(t).event = t.event
    BY DEF Write, NewRow
  <2> QED  BY <1>2, <1>3, <1>5, <2>1, AppendRow
<1>7. fold(PhaseEvents(log')) = t.next_phase
  BY <1>3, <1>6, PhaseEventsType DEF fold
<1>8. LogReplays'
  <2> SUFFICES ASSUME NEW i \in 2..Len(log')
               PROVE  /\ log'[i].from = replay(PhaseEvents(log'))[i - 2]
                      /\ log'[i].to = replay(PhaseEvents(log'))[i - 1]
                      /\ replay(PhaseEvents(log'))[i - 1] \in ExamPhase
    BY DEF LogReplays
  <2>1. CASE i \in 2..Len(log)
    <3>1. /\ log[i].from = replay(PhaseEvents(log))[i - 2]
          /\ log[i].to = replay(PhaseEvents(log))[i - 1]
          /\ replay(PhaseEvents(log))[i - 1] \in ExamPhase
      BY <1>3, <2>1 DEF LogReplays
    <3>2. i - 2 \in 0..(Len(log) - 1) /\ i - 1 \in 0..(Len(log) - 1) /\ i \in 1..Len(log)
      BY <1>3, <2>1
    <3> QED  BY <1>6, <3>1, <3>2
  <2>2. CASE i = Len(log')
    <3>1. i - 2 = Len(log) - 1 /\ i - 1 = Len(log) /\ Len(log) - 1 \in 0..(Len(log) - 1)
      BY <1>3, <1>6, <2>2
    <3>2. replay(PhaseEvents(log'))[i - 2] = t.current_phase
      BY <1>3, <1>5, <1>6, <3>1, LoggedPhases
    <3>3. log'[i].from = t.current_phase /\ log'[i].to = t.next_phase
      BY <1>6, <2>2 DEF NewRow
    <3> QED  BY <1>1, <1>6, <3>1, <3>2, <3>3
  <2> QED  BY <1>3, <1>6, <2>1, <2>2
<1>9. SnapshotIsFold' /\ snapshot' \in ExamPhase \cup {NoPhase}
  <2>1. snapshot' = t.next_phase /\ Len(log') # 1
    BY <1>3, <1>6 DEF Write
  <2> QED  BY <1>1, <1>7, <2>1 DEF SnapshotIsFold, _fold_phase
<1>10. \A i \in 2..Len(log) : log[i].to # t.next_phase
  <2> SUFFICES ASSUME NEW i \in 2..Len(log)
               PROVE  log[i].to # t.next_phase
    OBVIOUS
  <2>1. log[i].to = replay(PhaseEvents(log))[i - 1] /\ i - 1 \in 0..(Len(log) - 1)
    BY <1>3 DEF LogReplays
  <2>2. Rung(log[i].to) = i - 1
    BY <1>3, <2>1, LoggedPhases
  <2>3. Rung(t.next_phase) = Len(log)
    <3>1. Len(log) \in 0..(Len(log') - 1)
      BY <1>3, <1>6
    <3>2. PhaseEvents(log') \in Seq(ExamEvent) /\ Len(PhaseEvents(log')) = Len(log') - 1
      BY <1>6, PhaseEventsType
    <3> QED  BY <1>1, <1>6, <3>1, <3>2, ReplayRung
  <2> QED  BY <1>3, <2>2, <2>3
<1> QED  BY <1>5, <1>6, <1>7, <1>8, <1>9, <1>10 DEF NewRow

(* Writing the last row leaves what every other transaction read in place. *)
LEMMA WriteKeepsReads ==
    ASSUME IInv, NEW w \in Writers, txn[w].pc = "loaded", SeqIsFree(txn[w]),
           Write(txn[w]), txn' = [txn EXCEPT ![w] = Idle]
    PROVE  TxnReadsPrefix' /\ txn' \in [Writers -> Txn]
<1>1. txn \in [Writers -> Txn] /\ Len(log) \in Nat \ {0}
  BY PhaseEventsType DEF IInv, TypeOK
<1>2. txn' \in [Writers -> Txn]
  BY <1>1 DEF Txn
<1>3. TxnReadsPrefix'
  <2> SUFFICES ASSUME NEW v \in Writers, txn'[v].pc = "loaded"
               PROVE  /\ txn'[v].next_seq \in 2..(Len(log') + 1)
                      /\ txn'[v].current_phase =
                            replay(PhaseEvents(log'))[txn'[v].next_seq - 2]
                      /\ txn'[v].next_phase =
                            transition(txn'[v].current_phase, txn'[v].event)
    BY DEF TxnReadsPrefix
  <2>1. v # w /\ txn'[v] = txn[v]
    BY <1>1 DEF Idle
  <2>2. /\ txn[v].next_seq \in 2..(Len(log) + 1)
        /\ txn[v].current_phase = replay(PhaseEvents(log))[txn[v].next_seq - 2]
        /\ txn[v].next_phase = transition(txn[v].current_phase, txn[v].event)
    BY <2>1 DEF IInv, TxnReadsPrefix
  <2>3. txn[v].next_seq - 2 \in 0..(Len(log) - 1)
    BY <1>1, <2>2
  <2>4. /\ Len(log') = Len(log) + 1
        /\ \A n \in 0..(Len(log) - 1) :
              replay(PhaseEvents(log'))[n] = replay(PhaseEvents(log))[n]
    BY WriteStep
  <2>5. txn[v].next_seq \in 2..(Len(log') + 1)
    BY <1>1, <2>2, <2>4
  <2>6. txn[v].current_phase = replay(PhaseEvents(log'))[txn[v].next_seq - 2]
    BY <2>2, <2>3, <2>4
  <2> QED  BY <2>1, <2>2, <2>5, <2>6
<1> QED  BY <1>2, <1>3

(* Reading the log keeps the invariant: the transaction read all of it. *)
LEMMA LoadIInv ==
    ASSUME IInv, NEW w \in Writers, NEW event \in ExamEvent, Load(w, event)
    PROVE  IInv'
<1> DEFINE cur == fold(PhaseEvents(log))
           next == transition(cur, event)
<1>1. /\ UNCHANGED <<log, snapshot>>
      /\ Len(log) \in Nat \ {0} /\ IsLog(log) /\ LogReplays
      /\ txn \in [Writers -> Txn] /\ reply \in [Writers -> Replies]
  BY PhaseEventsType DEF IInv, TypeOK, Load
<1>2. /\ IsLog(log)' /\ (snapshot \in ExamPhase \cup {NoPhase})'
      /\ LogReplays' /\ SnapshotIsFold'
  BY <1>1, SameLog
<1>3. CASE next = InvalidTransitionError
  <2>1. txn' = txn /\ reply' = [reply EXCEPT ![w] = InvalidTransitionError]
    BY <1>3 DEF Load, _fold_phase
  <2>2. TypeOK'
    BY <1>1, <1>2, <2>1 DEF TypeOK, Replies
  <2>3. TxnReadsPrefix'
    BY <1>1, <2>1 DEF IInv, TxnReadsPrefix
  <2>4. ExitWonOnce'
    BY <1>1, <2>1, NotAPhase DEF IInv, ExitWonOnce
  <2> QED  BY <1>2, <2>2, <2>3, <2>4 DEF IInv
<1>4. CASE next # InvalidTransitionError
  <2> DEFINE t == Pending(event, cur, next, Len(log) + 1)
  <2>1. txn' = [txn EXCEPT ![w] = t] /\ reply' = [reply EXCEPT ![w] = NoPhase]
    BY <1>4 DEF Load, _fold_phase
  <2>2. cur \in ExamPhase /\ cur = replay(PhaseEvents(log))[Len(log) - 1]
    BY <1>1, LoggedPhases
  <2>3. next \in ExamPhase
    BY <1>4, <2>2, TransitionType
  <2>4. t \in Txn
    BY <1>1, <2>2, <2>3 DEF Txn, Pending
  <2>5. TypeOK'
    BY <1>1, <1>2, <2>1, <2>4 DEF TypeOK, Replies
  <2>6. TxnReadsPrefix'
    <3> SUFFICES ASSUME NEW v \in Writers, txn'[v].pc = "loaded"
                 PROVE  /\ txn'[v].next_seq \in 2..(Len(log) + 1)
                        /\ txn'[v].current_phase =
                              replay(PhaseEvents(log))[txn'[v].next_seq - 2]
                        /\ txn'[v].next_phase =
                              transition(txn'[v].current_phase, txn'[v].event)
      BY <1>1 DEF TxnReadsPrefix
    <3>1. CASE v = w
      <4>1. /\ txn'[v].next_seq = Len(log) + 1 /\ txn'[v].current_phase = cur
            /\ txn'[v].next_phase = next /\ txn'[v].event = event
        BY <1>1, <2>1, <3>1 DEF Pending
      <4>2. (Len(log) + 1) - 2 = Len(log) - 1 /\ Len(log) + 1 \in 2..(Len(log) + 1)
        BY <1>1
      <4> QED  BY <2>2, <4>1, <4>2
    <3>2. CASE v # w
      BY <1>1, <2>1, <3>2 DEF IInv, TxnReadsPrefix
    <3> QED  BY <3>1, <3>2
  <2>7. ExitWonOnce'
    BY <1>1, <2>1, NotAPhase DEF IInv, ExitWonOnce
  <2> QED  BY <1>2, <2>5, <2>6, <2>7 DEF IInv
<1> QED  BY <1>3, <1>4

(* A commit keeps the invariant: its seq was free, so what it read was the *)
(* whole log, and nobody else was answered with its phase before.          *)
LEMMA CommitIInv ==
    ASSUME IInv, NEW w \in Writers, Commit(w)
    PROVE  IInv'
<1> DEFINE p == txn[w].next_phase
<1>1. /\ txn[w].pc = "loaded" /\ SeqIsFree(txn[w]) /\ Write(txn[w])
      /\ txn' = [txn EXCEPT ![w] = Idle] /\ reply' = [reply EXCEPT ![w] = p]
  BY DEF Commit
<1>2. /\ txn \in [Writers -> Txn] /\ reply \in [Writers -> Replies]
      /\ Len(log) \in Nat \ {0} /\ p \in ExamPhase
  BY <1>1, PhaseEventsType DEF IInv, TypeOK, Txn, Idle
<1>3. TxnReadsPrefix' /\ txn' \in [Writers -> Txn]
  BY <1>1, WriteKeepsReads
<1>4. /\ IsLog(log)' /\ (snapshot \in ExamPhase \cup {NoPhase})'
      /\ LogReplays' /\ SnapshotIsFold'
      /\ Len(log') = Len(log) + 1
      /\ \A i \in 1..Len(log) : log'[i] = log[i]
      /\ log'[Len(log')].to = p
      /\ \A i \in 2..Len(log) : log[i].to # p
  BY <1>1, WriteStep
<1>5. TypeOK'
  BY <1>1, <1>2, <1>3, <1>4 DEF TypeOK, Replies
<1>6. ExitWonOnce'
  <2> SUFFICES ASSUME NEW v \in Writers, reply'[v] \in ExamPhase
               PROVE  /\ \E i \in 2..Len(log') : log'[i].to = reply'[v]
                      /\ \A u \in Writers \ {v} : reply'[u] # reply'[v]
    BY DEF ExitWonOnce
  <2>1. \A u \in Writers \ {w} :
          reply'[u] = reply[u] /\ (reply[u] \in ExamPhase => reply[u] # p)
    BY <1>1, <1>2, <1>4 DEF IInv, ExitWonOnce
  <2>2. CASE v = w
    <3>1. reply'[v] = p /\ Len(log') \in 2..Len(log')
      BY <1>1, <1>2, <1>4, <2>2
    <3> QED  BY <1>2, <1>4, <2>1, <2>2, <3>1
  <2>3. CASE v # w
    <3>1. PICK i \in 2..Len(log) : log[i].to = reply[v]
      BY <2>1, <2>3 DEF IInv, ExitWonOnce
    <3>2. i \in 2..Len(log') /\ log'[i].to = reply'[v]
      BY <1>2, <1>4, <2>1, <2>3, <3>1
    <3>3. \A u \in Writers \ {v} : reply'[u] # reply'[v]
      BY <1>1, <1>2, <2>1, <2>3 DEF IInv, ExitWonOnce
    <3> QED  BY <3>2, <3>3
  <2> QED  BY <2>2, <2>3
<1> QED  BY <1>3, <1>4, <1>5, <1>6 DEF IInv

(* So does a commit whose caller dies unanswered. *)
LEMMA DieAfterCommitIInv ==
    ASSUME IInv, NEW w \in Writers, DieAfterCommit(w)
    PROVE  IInv'
<1>1. /\ txn[w].pc = "loaded" /\ SeqIsFree(txn[w]) /\ Write(txn[w])
      /\ txn' = [txn EXCEPT ![w] = Idle] /\ reply' = reply
  BY DEF DieAfterCommit
<1>2. reply \in [Writers -> Replies] /\ Len(log) \in Nat \ {0}
  BY PhaseEventsType DEF IInv, TypeOK
<1>3. TxnReadsPrefix' /\ txn' \in [Writers -> Txn]
  BY <1>1, WriteKeepsReads
<1>4. /\ IsLog(log)' /\ (snapshot \in ExamPhase \cup {NoPhase})'
      /\ LogReplays' /\ SnapshotIsFold'
      /\ Len(log') = Len(log) + 1
      /\ \A i \in 1..Len(log) : log'[i] = log[i]
  BY <1>1, WriteStep
<1>5. TypeOK'
  BY <1>1, <1>2, <1>3, <1>4 DEF TypeOK
<1>6. ExitWonOnce'
  <2> SUFFICES ASSUME NEW v \in Writers, reply[v] \in ExamPhase
               PROVE  \E i \in 2..Len(log') : log'[i].to = reply[v]
    BY <1>1 DEF IInv, ExitWonOnce
  <2>1. PICK i \in 2..Len(log) : log[i].to = reply[v]
    BY DEF IInv, ExitWonOnce
  <2>2. i \in 2..Len(log') /\ log'[i] = log[i]
    BY <1>2, <1>4
  <2> QED  BY <2>1, <2>2
<1> QED  BY <1>3, <1>4, <1>5, <1>6 DEF IInv

(* A transaction that rolls back leaves everything but its own answer. *)
LEMMA GiveUpIInv ==
    ASSUME IInv, NEW w \in Writers, Conflict(w) \/ DieBeforeCommit(w)
    PROVE  IInv'
<1>1. /\ UNCHANGED <<log, snapshot>> /\ txn' = [txn EXCEPT ![w] = Idle]
      /\ reply' = reply \/ reply' = [reply EXCEPT ![w] = "IntegrityError"]
  BY DEF Conflict, DieBeforeCommit
<1>2. txn \in [Writers -> Txn] /\ reply \in [Writers -> Replies]
  BY DEF IInv, TypeOK
<1>3. /\ IsLog(log)' /\ (snapshot \in ExamPhase \cup {NoPhase})'
      /\ LogReplays' /\ SnapshotIsFold'
  BY <1>1, SameLog
<1>4. TypeOK'
  BY <1>1, <1>2, <1>3 DEF TypeOK, Txn, Replies
<1>5. TxnReadsPrefix'
  BY <1>1, <1>2 DEF IInv, TxnReadsPrefix, Idle
<1>6. ExitWonOnce'
  BY <1>1, <1>2, NotAPhase DEF IInv, ExitWonOnce
<1> QED  BY <1>3, <1>4, <1>5, <1>6 DEF IInv

(* Every step of every caller keeps the invariant. *)
LEMMA NextIInv == IInv /\ [Next]_vars => IInv'
<1> SUFFICES ASSUME IInv, [Next]_vars
             PROVE  IInv'
  OBVIOUS
<1>1. CASE UNCHANGED vars
  BY <1>1 DEF vars, IInv, TypeOK, TxnReadsPrefix, LogReplays, SnapshotIsFold, ExitWonOnce
<1>2. ASSUME NEW w \in Writers, NEW event \in ExamEvent, Load(w, event)
      PROVE  IInv'
  BY <1>2, LoadIInv
<1>3. ASSUME NEW w \in Writers, Commit(w)
      PROVE  IInv'
  BY <1>3, CommitIInv
<1>4. ASSUME NEW w \in Writers, Conflict(w) \/ DieBeforeCommit(w)
      PROVE  IInv'
  BY <1>4, GiveUpIInv
<1>5. ASSUME NEW w \in Writers, DieAfterCommit(w)
      PROVE  IInv'
  BY <1>5, DieAfterCommitIInv
<1> QED  BY <1>1, <1>2, <1>3, <1>4, <1>5 DEF Next

(* The invariant holds in every reachable state. *)
LEMMA SpecIInv == Spec => []IInv
BY InitIInv, NextIInv, PTL DEF Spec

(* Every reachable state of the engine has the types TypeOK gives it. *)
THEOREM EngineTypes == Spec => []TypeOK
<1>1. IInv => TypeOK
  BY DEF IInv
<1> QED  BY <1>1, SpecIInv, PTL

(* The log of any number of concurrent callers replays without an error,   *)
(* and each row records the phases that fold() computes around it.         *)
THEOREM EngineLogReplays == Spec => []LogReplays
<1>1. IInv => LogReplays
  BY DEF IInv
<1> QED  BY <1>1, SpecIInv, PTL

(* The current_phase snapshot is the fold of the log in every state. *)
THEOREM EngineSnapshotIsFold == Spec => []SnapshotIsFold
<1>1. IInv => SnapshotIsFold
  BY DEF IInv
<1> QED  BY <1>1, SpecIInv, PTL

(* What an open transaction read is still the beginning of the log: rows  *)
(* are added behind it, never changed, so its phase is that of its seq.    *)
THEOREM EngineTxnReadsPrefix == Spec => []TxnReadsPrefix
<1>1. IInv => TxnReadsPrefix
  BY DEF IInv
<1> QED  BY <1>1, SpecIInv, PTL

(* No two callers are ever told that they made the same transition. *)
THEOREM EngineExitWonOnce == Spec => []ExitWonOnce
<1>1. IInv => ExitWonOnce
  BY DEF IInv
<1> QED  BY <1>1, SpecIInv, PTL

(* The engine implements the ladder: seen through fold(), a commit climbs  *)
(* one rung and everything else stutters.                                  *)
THEOREM EngineClimbsLadder == Spec => ClimbsLadder
<1> DEFINE rung == fold(PhaseEvents(log))
<1>1. Init => Ladder!Init
  <2> SUFFICES ASSUME Init
               PROVE  rung = INITIAL_PHASE
    BY DEF Ladder!Init, Ladder!INITIAL_PHASE, INITIAL_PHASE
  <2>1. IsLog(log) /\ Len(log) = 1
    BY DEF Init, IsLog
  <2>2. PhaseEvents(log) \in Seq(ExamEvent) /\ Len(PhaseEvents(log)) = Len(log) - 1
    BY <2>1, PhaseEventsType
  <2>3. Len(PhaseEvents(log)) = 0
    BY <2>1, <2>2
  <2> QED  BY <2>2, <2>3, ReplayStep DEF fold
<1>2. IInv /\ [Next]_vars => [Ladder!Next]_rung
  <2> SUFFICES ASSUME IInv, [Next]_vars
               PROVE  rung' = rung \/ Ladder!Next
    OBVIOUS
  <2>1. CASE log' = log
    BY <2>1
  <2>2. ASSUME NEW w \in Writers, Commit(w) \/ DieAfterCommit(w)
        PROVE  Ladder!Next
    <3>1. txn[w].pc = "loaded" /\ SeqIsFree(txn[w]) /\ Write(txn[w])
      BY <2>2 DEF Commit, DieAfterCommit
    <3>2. txn[w].event \in ExamEvent /\ txn[w].next_phase \in ExamPhase
      BY <3>1 DEF IInv, TypeOK, Txn, Idle
    <3>3. /\ txn[w].next_phase = transition(rung, txn[w].event)
          /\ rung' = txn[w].next_phase
      BY <3>1, WriteStep
    <3>4. Ladder!transition(rung, txn[w].event) = transition(rung, txn[w].event)
      BY DEF Ladder!transition, transition, Ladder!Lookup, Lookup,
             Ladder!TRANSITIONS, TRANSITIONS, Ladder!ExamPhase, ExamPhase,
             Ladder!ExamEvent, ExamEvent,
             Ladder!InvalidTransitionError, InvalidTransitionError
    <3>5. Ladder!ExamPhase = ExamPhase /\ Ladder!ExamEvent = ExamEvent
      BY DEF Ladder!ExamPhase, ExamPhase, Ladder!ExamEvent, ExamEvent
    <3> HIDE DEF rung
    <3>6. Ladder!Climb(txn[w].event)
      BY <3>2, <3>3, <3>4, <3>5 DEF Ladder!Climb, rung
    <3> QED  BY <3>2, <3>5, <3>6 DEF Ladder!Next
  <2> QED  BY <2>1, <2>2 DEF Next, vars, Load, Conflict, DieBeforeCommit
<1>3. QED
  BY <1>1, <1>2, SpecIInv, PTL DEF Spec, ClimbsLadder, Ladder!Spec
============================================================================
