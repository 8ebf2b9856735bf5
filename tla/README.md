# A formal model of the virtual IELTS speaking exam

This directory holds TLA+ specifications of the exam's server, of the browser's
side of its socket, and of the worker that grades the recording: the tasks that
race to move an exam from phase to phase, what a dropped connection or a lost
process leaves behind, how an answer reaches storage, and what a chain of tasks
that may run twice makes of it. TLC checks the models on small instances; TLAPS
proves the safety properties of the five that are state machines for every
value of their constants. `PROJECT.json` maps every definition to the lines it
stands for.

## 1. Inventory of the system

| Component | State it keeps | Operations | Talks to | Hard behaviour | What makes it correct |
|---|---|---|---|---|---|
| `packages/exam-fsm` | none | `transition`, `fold` | `fsm_engine` | none (pure) | a linear ladder of 14 phases, every other (phase, event) refused |
| `services/fsm_engine.py` | `exam_session_events`, `exam_sessions.current_phase` | `get_current_phase`, `transition` | PostgreSQL; called by every task of a connection | stale read before commit, `IntegrityError`, death around a commit | the log always replays; the snapshot is its fold; one winner per phase |
| `services/exam_orchestrator.py` | cached phase, turn counts, topic sets, cue card, pending flushes, directive queue | `start`, `close`, `on_activity_end`, `on_gemini_turn_complete`, `on_cue_card_ack`, `_advance`, `_on_enter_phase`, five watchdogs | `fsm_engine`, `timers`, bridge, outbox, broker | all of these interleave at every `await`; its fields die with the connection | cache agrees with the log, timed phases end, nothing is sealed or graded too early |
| `services/timers.py` | Redis deadlines and phase starts | set, get, clear, three wait loops | Redis, `fsm_engine`, bridge | phase read before, acted on after, an `await`; key TTLs | a phase never ends early, and always ends |
| `routers/ws_exam.py` | the current turn, its audio buffer | client pump, Gemini pump, background flushes, teardown | browser, bridge, orchestrator, storage | first pump to end kills the other; flushes outlive the connection | every released turn is stored once, under the phase it was spoken in |
| `services/gemini_bridge.py` | the Live socket, `muted` | connect, audio, directives, mute | Gemini Live | resumption handles, events out of step | muted exactly in prep and after the cutoff |
| directive queue (in the orchestrator) | queue, `_gemini_turn_complete` | `_queue_directive`, `_dispatch_directives` | bridge | one boolean for several replies in flight, 10 s timeout | one question at a time |
| `routers/sessions.py` | sessions, video uploads | create, video URL, confirm | PostgreSQL, storage | overlapping uploads | the confirmed row is the uploaded object |
| `services/media_tap.py` | audio objects | `persist_turn_audio` | storage | retried writes | one segment per (session, turn, seq) |
| worker: `grading_pipeline`, `job_status`, `tasks/*` | job rows, transcripts, feature vectors, reports, audio | chain, chord, finalize, transcribe, compute, synthesize, sweep | broker, PostgreSQL, storage | redelivery after a lost worker, two chains, a failed chord member | no report from partial media, raw audio swept only when nobody needs it |
| worker: `reconciliation`, scoring | none / reports | reconcile two passes, round | judge models | numeric boundaries | disagreement over the threshold is always flagged |
| web: `exam-socket-client.ts`, `turn-buffer.ts` | current turn, IndexedDB frames | reconnect, replay, complete | gateway | acknowledgements that name no turn, async appends | an interrupted turn is never silently lost |
| worker: transcript and features (`tasks/media.py`, `tasks/asr.py`, `tasks/nlp`) | transcripts, feature vectors | stitch, attribute words, pauses, runs, T-units | `grading_pipeline` | one gap compared in several loops, words on a boundary, parts against the whole | figures of the session and of its parts agree |
| worker: calibration | none | report, ranks, kappa, agreement | corpus of rated cases, judge | ties, no variance, an id used twice | each figure is its own case's, and what its definition says |
| worker: providers | none | two chains with a fallback | recognisers | a confidence on the floor, two accounts of one gate | the dry run names the cases the live chains fall back for |
| web pages, auth, observability, infra | presentation, tokens, metrics | | | no concurrent state of their own | only the exam page's button and microphone are modelled |

The pieces meet as follows. The browser's websocket gives one connection: an
`ExamOrchestrator`, a `GeminiLiveBridge`, a client pump and a Gemini pump. Both
pumps and every watchdog call `_advance`, which calls `fsm_engine.transition`,
caches the phase it returns, and runs the phase's on-enter effects, among them
the next watchdog. Entering COMPLETE enqueues the worker's grading chain.

## 2. Plan

In order of importance. What exists:

1. `ExamFsm`, `PhaseLadder`: the phases, and the abstract promise of the exam.
2. `FsmEngine` with `FsmEngineProofs` and `ExamFsmProofs`: concurrent
   transactions over one log, refining `PhaseLadder`.
3. `ExamOrchestrator`: one connection at a time, drops, crashes and resumes.
4. `DirectiveDispatch`, refining `DirectiveChannel`: the directive queue, its
   one-boolean gate, several replies in flight, the timeout.
5. `ExamSocket`: the browser's turn buffer against a gateway that acknowledges
   late, over a connection that drops.
6. `GradingPipeline`: chain, chord, redelivery, retries, re-runs, the sweep.
7. `TranscriptEvidence`, `BandScores`, `ConfidenceGates` and `CalibrationReport`: the
   worker's pure computations.

What is left:

8. `TurnCapture`: the phase label of a turn held across a cutoff, composed with
   the orchestrator's accounting of flushes.
9. `ExamRoom`: two overlapping connections over one log and one Redis.
10. `VideoUpload` and Part 3's clamp.

Each of them has a module of proofs beside it (section 5).

## 3. Modules

### `ExamFsm`, `PhaseLadder`

`ExamFsm` holds the table of `packages/exam-fsm` as a set of triples.
`transition` is a lookup in it, with `InvalidTransitionError` as a value that no
key starts from; `replay` is the loop of `fold()` as a recursive function, giving
the phase after every prefix of a list of events. `PhaseLadder` is the abstract
specification: a phase that climbs one rung at a time.

### `FsmEngine`

State: the rows of `exam_session_events` for one session (`log`), the
`current_phase` column (`snapshot`), each caller's open transaction (`txn`) and
what its latest call ended with (`reply`). `Load` is everything `transition()`
does up to the insert: read the log, replay it, compute the next phase and seq,
or raise. `Commit` inserts the row and updates the snapshot together, if
`UNIQUE(session_id, seq)` lets it; `Conflict` is the `IntegrityError`. A caller
may die before its commit or between the commit and its return. Callers are
arbitrary: any event, any time, any number of them, of one connection or of many.

### `ExamOrchestrator`

One session, one connection at a time. A step is what a task does between two
awaits, so an `_advance` is four of them: `Load`, `Commit` (or `Conflict`),
`Return` (the cached phase, and the microphone, which on-enter switches before
its first await) and `Enter` (the rest of `_on_enter_phase`; on entering Part 1
two steps, as the start is marked before the ceiling is set). The tasks are
`start()`, the two pumps, one watchdog per named deadline and the finalizing
watchdog.

| State | Code |
|---|---|
| `logged` | the phase that the log folds to; `FsmEngine` justifies it: a commit succeeds exactly when what it read is still the log |
| `status`, `sealedBy`, `graded` | `exam_sessions.status`, the reason of FINALIZE_COMPLETE, calls of `enqueue_grading` that reached the broker |
| `deadline`, `marked` | Redis keys of the deadlines, and of `part1_start` |
| `due`, `floor` | the clock: which deadlines have passed, whether `part1_min_seconds` have |
| `conn`, `orch`, `muted`, `task` | the connection, the orchestrator's fields, the bridge's flag, each task's next step |
| `flushing`, `stray`, `orphans`, `lost` | background flushes of this connection (released before FINALIZING, or later), of earlier ones, and turns that have none |
| `severed` | history: whether the topic sets, or the cue card, were chosen and still to be used when a connection was lost |
| `cardShown`, `part3`, `drops` | the client's card, how Part 3 was opened, the bound on drops |

An exception in `_advance` (`Raise`) ends the connection when a pump or `start()`
called it, and only the task when a watchdog did. `Drop` and `Crash` end a
connection at any step; flush tasks survive the one and not the other. Because
`Commit` and `Return` are separate steps, a drop between them is the cancelled
caller whose commit had reached the database.

Topic sets and cue card are known to the orchestrator that chose them and to no
later one. `ContentKept` says that nothing else loses them: content is missing
only if a connection was lost between the choice of that very content (`Held`)
and its use. A drop in INTRO excuses a missing topic and not a missing card.
That the later connection goes on without them, where the documents promise a
resume without loss, is shown by `Part3Linked` for the card; a later connection
that enters a topic of Part 1 without topic sets raises and ends.

Clocks: `ClockStartsOnce` says that a reconnect starts no clock again. The
documents ask for more, that Part 2's countdowns stand still while the candidate
is away (`docs/SPEC_01_SYSTEM_ARCHITECTURE.md:252`); the code has nothing of the
kind, and prep may run out while the connection is down.

Abstractions, and why they are safe for the properties checked:
- Time is only whether a deadline that was set has passed. It may pass at any
  moment, so every order of a deadline and another event is explored. A passing
  that nobody can observe any more is left out (`Matters`). `part1_max` passes
  after the floor because its duration is longer.
- A key's TTL runs out only between connections: it is 30 s past the deadline,
  which a live watchdog sees within a quarter of a second.
- A watchdog reads its deadline key when it is spawned, not one step later: only
  the connection that spawns it writes the key. One whose key is missing returns
  at once and is not spawned.
- `activity_start` is not a step: it changes nothing the orchestrator reads.
- The directive queue, transcripts and audio frames are not here; they are the
  subject of `DirectiveDispatch`, `TranscriptEvidence` and `ExamSocket`.
- `wait_for_long_turn_cutoff` takes the remaining time before the read of the
  phase and the model at it; a deadline that passes in between is seen by the
  next poll either way. Its muting is a step of its own after the read.
- Teardown is one step. A watchdog that `_watchdog_task` no longer names is not
  cancelled by `close()`; it is one whose phase is over, and its next poll or its
  next transition ends it.
- Database and Redis failures other than death and conflict are not modelled.
- The client acknowledges a card it was shown. The gateway's protocol and tests
  do that; the pages under `apps/web` do not send `cue_card_ack` yet.

### `DirectiveChannel`, `DirectiveDispatch`

`DirectiveChannel` is what a caller of `_queue_directive` counts on: a directive
is told to Gemini, once, after those asked for before it. It knows nothing of
gates. `DirectiveDispatch` implements it, with `asked` and `told` as history.

| State | Code |
|---|---|
| `directive_queue`, `gate` | `_directive_queue`, and whether `_gemini_turn_complete` is set |
| `dispatcher` | `_dispatch_directives`: at `get`, in `wait_for` with a text, or past it (`go`) with nothing but the injection left |
| `ptt` | the button; `released` until `on_activity_end` clears the gate; then the phase that the turn's `_advance` is leaving |
| `watchdog` | of the phase: polling; `expired` between a ceiling's directive and its transition; `warning`, `warned`, `stopping` and `stopped` in the long turn |
| `unanswered`, `arriving` | Gemini: inputs it has yet to reply to, TurnComplete messages the pump has yet to read |

`Wake` and `Inject` are two steps because the task runs on some time after the
event was set, whatever has become of the event by then. A press interrupts the
reply being spoken, and Gemini may or may not send a TurnComplete for it. The
long turn's watchdog reads the phase in one step (`LongTurnGoesOn`) and speaks in
another, when the candidate may have ended the long turn; what it has left to do
then it does before Part 3's ceiling, minutes later, is reached. Which
turn ends a phase (a budget, a minimum) is a choice here: `ExamOrchestrator` has
the budgets. `quiet` records that nobody gave Gemini an input while something
else was being said, sent or queued, that the watchdog did not speak of a long
turn that was over, and that the dispatcher never timed out. `OneQuestionAtATime`
is what the gate is worth then; section 4 says what happens otherwise.

### `ExamSocket`

The page, `ExamSocketClient`, `TurnBuffer`, the wire, the gateway's client pump
and its background flushes. A frame is `<<press, k>>`, so that a segment shows
which pieces of which answers it holds. `currentTurnId` and `bufferTurnId` are
two variables, as they are two fields in two classes. Messages are ordered
within a connection and lost with it; a flush goes on after its connection, and
its `turn_complete` is sent only if that connection is still there.

`careful` is the candidate who does not press while an acknowledgement or a
replay could still come, and does not hold the button through a reconnect;
`alone` says that no press found another turn in the store. The client has no
guard against the opposite of either. When it happens:
- a `turn_complete` names its turn but the client does not look: a late one
  completes whichever turn is current, and the frames of that are cleared;
- what was spoken before a drop is replayed while the button is still held, as
  a turn of its own, and the rest of the hold goes to a turn the gateway closed;
- a press during a replay takes the turn over, and its first frames with it.

So "a turn interrupted by a socket drop is never silently lost"
(`turn-buffer.ts:9-14`) holds for the careful candidate, which is `Kept`, and not
for every candidate: after a late acknowledgement has cleared the frames of the
answer being spoken, a connection that drops takes the only copy with it.

Abstractions: appending a frame and clearing a turn are single steps (IndexedDB
runs the requests of a client in order; the first opening of the database is
left out); a `send` on a socket that is still connecting throws and has the same
effect as a lost message; reading the store is over before the next reconnect's
backoff is; a reload of the page and a half-open old connection are left out.

### `GradingPipeline`

A lane is one run through the chain: the root's, one that continues beside it
from a task that was delivered twice, or a task an operator runs again. A lane
has a place in the chain, the point its task has reached, its retries, and what
the task has read so far; at the chord, `member` has the same for each task. A
step is one database transaction or one storage call. Content is what the
properties tell apart: audio is the set of turns in it, a transcription is what it
heard in which audio and which turns it took the words to be of, a feature vector
is the transcriptions it was computed from.

A word's slot is what the unique key says, `(turn, seq)` with seq counted within
the turn. How many words a transcription finds in each turn (none, in any or all
of them) is `Found` of its `Hearing`, chosen anew each time. So two that overlap
meet at the unique key only if both have words in one turn: then one of them
commits nothing, and the words of a turn are always all of one transcription's
(`TurnOneTake`). Where they found words in different turns both commit, and the
transcript as a whole is a mixture (`TranscriptOneTake`, which fails). Two
transcriptions that hear the same are told apart, by refusing one that equals a
take still in the transcript or in a task's hands (`Held`).

`finalize_media` reads its rows, then all objects (`FinalizeFetch`), then writes
the stitched file (`FinalizeStitch`), then its result; a sweep may come between
any two.

`Return` acknowledges late: a worker lost after its task returned has it
delivered again, so that two lanes run on. `WorkerLost` is one lost in the
middle, `TimeLimit` the hard limit, which skips the task's `except` clause, and
`Fail` any exception in the `try` block, with `self.retry` or the last failure.
`Forced` failures (a missing object, a unique key) are not bounded;
the others, which nothing in the model forces, are bounded by `MaxFaults`.

Abstractions:
- A late flush stores object and row in one step. All turns are of scored phases.
- The four rows of one criterion are written one after the other and differ in
  what part they cover; here they are one row.
- The judge's input is read in two queries, here in one step.
- A chord member that is delivered again after it returned is counted once, as
  the result backend's key for it is.
- `finalize_media` reads its objects in one step: a sweep that comes among those
  reads fails them as one that comes before does.
- A task killed by the time limit is acknowledged.
- The sweep's deletion of a prefix is one step.
- An operator runs again only what failed, and the callback only after every
  member; the documents ask for no more.

What the code does against its comments and documents:
- A flush that ends after `finalize_media` has read the rows is swept with the
  rest and is in no canonical file, so `EvidenceKept` leaves such turns out; one
  that ends after the sweep leaves raw audio for good.
- A chord whose member was given up sends no callback, and `GradedOrGivenUp` counts
  it as given up: the partial grading of `docs/SPEC_03_ASYNC_GRADING_ENGINE.md:86` does not happen.
- "Safe to re-run" (`:85`) is not so for `compute_pronunciation_scores` after the
  sweep, which finds no recording (no run shows this), and two lanes side by side
  may mix two transcriptions in one report; `OneRunCoherent` states what holds when
  no worker was lost.

### `TranscriptEvidence`, `BandScores`, `ConfidenceGates`, `CalibrationReport`

Pure functions; the variables are their inputs, which grow one answer, word,
token or case at a time, so that TLC visits every input within the bounds.
Properties compare a function with an independent definition, or two functions
that must agree. Times are milliseconds, bands are counted in halves. `Loops` has
what Python's loops over lists come to: `sum`, the rows a loop keeps (`Those`) and
the order of a stable sort (`sorted`). Words have a positive length, so that no
two start together: `ORDER BY start_ms` promises no order for those that do.

`TranscriptEvidence` has the stitched timeline, the attribution of words to
turns (without the branch for an offset before the first turn, which starts at 0), the chunks, pauses, filled pauses and repeated words (repetition is the
only self-repair modelled: the other markers are a lookup), and the T-unit heads
of a parse, which is an input because spaCy makes it. The published figures are
ratios of these counts. Two things the counts show are the code's choice: a
bigram or a repetition is counted across two turns while a pause never is, and
answers are stitched in the order their flushes were stored.

`BandScores` has the reconciliation of two judge passes (a criterion that one
of them lacks is flagged and not scored; the average rounds to even) and the
calibration's ranks, agreement and quadratic kappa. The judge's bands are
assumed to be multiples of one half, which `_round_to_half` makes of the result.
A case without any scored criterion has 0.0 as its overall band.

`ConfidenceGates` has the two fallback chains. What a provider answers is a set,
empty when it raises; confidences are hundredths. An answer below the floor is
discarded before the second provider is asked, so the task fails when that one
raises. Pronunciation falls back on a noisy segment too. `FallbackForetold`
relates the chains to the calibration's dry run, which is written the other way
round; it is a conjunct of `ReportSpeaksForItsCases`.

`CalibrationReport` composes the two over a corpus: a file whose ids are not
unique is refused, the scripted judge tells a case's first pass from its second
by counting calls for its id, and a real judge (`live`) may leave out criteria,
which the file may not. The property is that every band in the report comes from
its own case's passes; without the refusal, two cases of one id take each other's.

## 4. Runs

| Run | What it shows | Bounds |
|---|---|---|
| `engine` | `LogReplays`, `SnapshotIsFold`, `TxnReadsPrefix`, `ExitWonOnce`, and that the log climbs `PhaseLadder` | three interchangeable callers; the log is bounded by the ladder itself (13 transitions) |
| `reconnect` | `CacheAgrees`, `MicFollowsPhase`, `SealedAfterFlush`, `GradedOnce`, `ContentKept`, `ClockStartsOnce`, `PrepNeverCutShort`, `Part1Floor` | one drop or crash at any step, besides the teardowns that lost races cause; one flush in flight; two turns per topic and in Part 3, one elsewhere |
| `live` | `TimedPhaseEnds`, `FinalizingEnds` | no drop from outside; one turn per phase |
| `dispatch` | `OneQuestionAtATime`, and that the queue implements `DirectiveChannel` | connections that start in INTRO, before the end of Part 1, or in Part 3; two turns of the candidate |
| `relay` | `Kept`, `AckedIsGone`, `SegmentIsOneAnswer`, `SegmentInOrder`, `AnswerStored` | two answers of up to two frames, two lost connections, one failed flush |
| `grading` | `SweptAfterReport`, `EvidenceKept`, `TranscribeFindsMedia`, `TurnOneTake`, `OneRunCoherent`, `GradedOrGivenUp` | two turns, one of them flushed late; two hearings: words in both turns, or fewer and in the first only; fluency and pronunciation; two lanes; one retry, one lost worker, one unforced failure |
| `figures` | `WordsFollowTheAudio`, `PausesBreakRuns`, `PartsMakeTheSession`, `TUnitsLeadToRoot`, `ReconciledFairly`, `AgreementMeasured`, `ReportSpeaksForItsCases` | three answers, three words of two, gaps on and between the thresholds; three tokens; two criteria, three neighbouring bands, four cases; a corpus of two cases with two bands, of one with a real judge; two recordings with confidences on and around the floor |

Three callers are enough for a reader, a winner and a loser at once. One drop
splits the exam into two connections, and a second drop finds the second
connection as the first one found the first. A turn budget matters only for
whether it is reached. One flush in flight tells a drained exam from one that is
not.

In `dispatch`, two turns put the candidate's reply, a queued directive and a
watchdog's in flight at once; the three starts cover every phase with its
directives. In `relay`, a second answer is what a late acknowledgement or a
replay can be confused with, the second frame tells a whole answer from a piece,
and the second drop interrupts a replay. In `grading`, one lost worker makes the
second lane; of the two hearings, one leaves out words of one turn and all of the
other's, so that a shorter transcription may follow or meet a longer one.
`transcript_replaced` has a third, of the last turn alone, which shares no turn
with the first turn's and is silence to a run that knows only that; for `TurnOneTake`
the theorem of section 5 covers every hearing. A failure
and a retry can fall on either lane, and a re-run takes the place of the second
lane. The text criteria differ in nothing the model keeps, so one stands for the
three. In `figures`, three answers put a part between two others, and three words
a neighbour on both sides; three tokens are a chain of coordinations in every
order; ties of two and of three need four cases; two cases are
enough to share an id.

**Fairness.** The engine's and `reconnect`'s properties are safety properties. In
`live` (`FairSpec`) the only assumption is that the gateway does not stop: as long
as some task can take a step, a deadline can pass or the client can reconnect,
one of those eventually happens. That is one weak fairness condition for all of
them together, weaker than fairness for each task, and it is what an event loop,
a clock and the browser's endless reconnect loop give. Nothing is assumed of the
candidate, Gemini, storage or the broker. `dispatch` assumes the same of the
dispatcher alone, whose `wait_for` has a timeout: a Gemini that never completes a
turn does not hold the queue up. `relay` assumes it of the browser, the network
and the gateway together (`System`), as reconnecting never gives up. `grading`
assumes nothing: a task is retried `MaxRetries` times at most and the chain has no
loop, so that workers who go on come to a state where they have nothing left to
do, and `GradedOrGivenUp` is about those states (`~ ENABLED Work`).

The other runs each check one statement of the documents or comments that the
code does not keep, and TLC gives the shortest history against it:

| Run | Statement | What happens |
|---|---|---|
| `heard_after_long_turn` | no turn after the long turn is dropped | the cutoff mutes on a phase read before the candidate's release unmuted |
| `turn_lost` | no audio segment is lost | a pump that loses a transition dies before it starts the turn's flush |
| `part3_linked` | Part 3 is linked to Part 2's topic, also on a resumed connection | the card was known to the connection that was lost in Part 2 |
| `transcript_replaced` | a re-run replaces the whole transcript | two overlapping transcriptions with words in different turns both commit |
| `survives_drop` | any phase resumes without loss | `start()` has no branch for ID_VERIFICATION, a card not yet sent, FINALIZING or an unmarked COMPLETE; prep's deadline key is missing after a crash next to a commit or a long outage |

These runs allow one drop, or one lost worker, where the history needs it, and
are no larger than it needs: one turn per phase in the exam, and no unforced
failure in the grading. `survives_drop` assumes the fairness of `live`.

More statements of the documents and comments do not hold. The models have the
steps that lead there, and no run shows them:

- Part 1 ends at its ceiling (`_run_part1_watchdog`): the watchdog clears its key,
  loses one hop to the candidate's turn and dies; only turns end Part 1 then.
- CLOSE ends once the closing statement was delivered
  (`exam_orchestrator.py:187`): the TurnComplete of the reply to the last answer
  ends it, if it comes before the closing directive was sent. And CLOSE has no
  watchdog: a Gemini that never completes the closing turn leaves the exam there.
- No directive is sent while a reply is in flight (`exam_orchestrator.py:533-535`):
  the TurnComplete of a reply that the candidate interrupted opens the gate for the
  next directive while the candidate's own turn is unanswered. It is also sent when
  the dispatcher times out, which its code means to do, and the candidate and
  the long turn's watchdog speak past the queue.
- FINALIZING ends when every upload is acknowledged
  (`docs/SPEC_02_IELTS_FLOW_STATE_MACHINE.md:30`): a flush that an earlier
  connection began is not waited for.
- Topics, countdowns, the impatient candidate, late turns, the chord's callback and
  re-runs: section 3, at their modules.
- What is spoken in prep can neither reach Gemini nor be scored
  (`exam_orchestrator.py:438-441`): it is recorded and graded.

## 5. Proofs

Every safety property of the passing runs of section 4, but `GradedOrGivenUp`, is a
theorem of its module's specification, for every value of the constants that the
module's assumption admits. TLC found each inductive invariant to hold on the runs' instances, or on
ones one size larger, before it was proved.

| Module | Theorems | For every |
|---|---|---|
| `FsmEngineProofs` | `EngineTypes`, `EngineLogReplays`, `EngineSnapshotIsFold`, `EngineTxnReadsPrefix`, `EngineExitWonOnce`, `EngineClimbsLadder` | set of `Writers`, and `NoPhase` that is not a phase or an error (`NoPhaseAssumption`) |
| `DirectiveDispatchProofs` | `DispatchTypeOK`, `DispatchOneQuestion`, `DispatchImplementsChannel` | number of turns, and set of phases but COMPLETE to start in (`DispatchAssumption`) |
| `ExamOrchestratorProofs` | `OrchestratorTypeOK`, `CacheFollowsLog`, `MicIsRight`, `SealWaits`, `GradedAtMostOnce`, `ContentIsKept`, `ClocksStartOnce`, `PrepLasts`, `Part1Lasts` | positive turn budgets, number of drops, and positive number of flushes in flight (`SettingsAssumption`) |
| `ExamSocketProofs` | `SocketTypeOK`, `SocketSegmentInOrder`, `SocketKept`, `SocketAckedIsGone`, `SocketSegmentIsOneAnswer` | number of answers, frames, lost connections and failed flushes (`RelayAssumption`) |
| `GradingPipelineProofs` | `GradingTypeOK`, `GradingKeepsEvidence`, `GradingFindsMedia`, `TranscriptIsOneTakes`, `ReportIsOneRuns`, `RawOutlivesReport` | set of turns of which some are stored in time, text criteria, lanes, retries, lost workers and faults (`GradingAssumption`) |
| `GradingFiguresProofs` | `TranscriptInOrder`, `RunsEndAtPauses`, `SessionMadeOfParts`, `TUnitsCounted` (of `EvidenceSpec`), `FairlyReconciled`, `AgreementSound` (of `BandSpec`), `CalibrationSound` (of `CorpusSpec`) | set of phases, lengths and gaps of no negative time, positive length of a word, vocabulary; finite non-empty set of criteria, whole bands from 0 to 18 halves, threshold; set of ids, confidences and floor; and number of answers, words, tokens and cases (`EvidenceAssumption`, `BandAssumption`, `CorpusAssumption`, `GatesAssumption`) |

**The engine.** The invariant is `IInv`, the conjunction of the run's five
invariants. None of the others is inductive without `TxnReadsPrefix`: a commit
is judged by its seq alone, and it is this invariant that says a transaction
whose seq is free read the whole log. `ExitWonOnce` further needs that no phase
is entered twice, which `ReplayRung` gives: the phase after n events stands on
rung n. `WriteStep` says what a commit does to the log and its replay, `SameLog`
what everything else leaves alone, and each action has its lemma (`LoadIInv`,
`CommitIInv`, ...).

`ExamFsmProofs` holds the facts on `replay`. That the recursive definition does
define a function (`ReplayDef`) and the induction over its argument are proved
from the least element of a set of naturals (`LeastElement`), itself from the
well-foundedness of strict inclusion of finite sets: the library's induction
schemata take an operator as a parameter and cannot be cited here.

**The directive queue.** `DispatchImplementsChannel` is the safety part of the
run's refinement: initial states and steps, from `Delivery`, which says that
what was asked is what was told, followed by the dispatcher's directive and the
queue. `OneQuestionAtATime` looks at one moment; `GateHolds` adds why the next
is no worse: while Gemini owes a reply, the dispatcher is not past its wait, and
if the gate is open all the same there is nothing that could be sent before it
is cleared.

**The orchestrator.** The tasks' program counters carry the argument. `Cached`
says that the cached phase is the logged one but for at most one task that is
between its commit and its return; `Behind`, that no task works for a phase
ahead of the cache, so that a stale one loses its commit; `Once`, that a
transition is followed up only by the task that made it. These three are needed
for everything else, since on-enter effects (deadlines, microphone, seal,
grading) are right only if they happen once and not late. Then `Clocks` says
that a phase's clock is untouched until the phase is entered, `Mic` how the mute
follows the cache, `Counting` and `Sealed` which flushes are in flight,
`Grading` that the enqueueing call is the one that sealed the row, `Floored`
that whoever ends Part 1 knew when it began, and `Carded` where the client has
the card. `Linked` says that card and topic sets are known to the orchestrator
from their choice to their use, unless a connection was lost in between
(`ContentKept`); `Clocks` and `Once` give `ClockStartsOnce`, as the entry of a
phase is worked off by one task and once. `PrepNeverCutShort` and `Part1Floor` are
action properties that follow from a step out of `IInv`; for the last two a step
that changes the log is a commit (`Part1Lasts`, `PrepLasts` pick its task), and
`Legal` gives the phase that its event ends.

**The socket.** There are two invariants. `Orderly` holds whatever the candidate
does: pieces of an answer are in order in the store, on the wire, in the
gateway's buffer and in each flush, and what is on the wire of a turn comes after
what is in the buffer. It gives `SegmentInOrder`. `Tracking` holds while the
candidate is `careful`: the connection has one turn, which is somewhere between
its first message and its acknowledgement (`Beginning`, `Underway`, `Ended`,
`Stored`), and its messages are those of the store's current entry (`OneTurn`);
what is stored, flushed, taken for replay or in the browser is the whole of an
answer (`Contents`), each in one place (`Single`), and none in no place (`Safe`).
Without `OneTurn` an acknowledgement, which names no turn that the client looks
at, could clear another answer's frames, as it does for the candidate who is not
careful.

**Grading.** Each property has the part of the invariant that it needs.
`SweepInv`: a lane at the judge or past it has a vector for every criterion.
`MediaInv`: a lane past `finalize_media` has a recording and a result, and raw
audio is missing only if there is a recording of it. `TakeInv`: in every
turn, what is in the transcript and what a transcription has seen before its
delete is all of one take or nothing (`WholeTurns`), so that the unique key
refuses the second of two that overlap in a turn (`TurnsApart`,
`CommitKeepsTurns`). `RunInv`, while no worker was lost:
the root's run is alone on its way through the chain (`RunsApart`), its media,
transcription and take are each made from the one before (`RootRun`), and all
that is computed later is computed from that take (`Computed`).

**The figures.** The invariants are easily kept: `Spoken` (words come one after
the other), `Series`, `Corpus`, and sequences of answers, tokens and bands. All
else is about what the functions compute for every input, by induction over data.
The library's induction schemata take an operator as a parameter and cannot be
cited, so `FoldLemmas` states its own with sets: a set of naturals that holds 0
and with a number the next is `Nat` (`Counting`), one of sequences that holds the
empty one and with each what a term more makes of it is `Seq` (`Growing`), and one
of subsets that can be emptied one element at a time (`FoldInduction`).
`FoldDefined` shows that the community modules' folds, which choose a function
that satisfies a recursion, do choose one, for any operation. From these come the
sums (`SumByImage`, by which a sum is taken over what its summands are led to;
`SumSwap`, by rows or by columns; `SumShuffled`), what a loop keeps
(`ThoseGrows`, `ThoseInOrder`, `ThoseOfThose`), sorting (`Sorted`,
`OrderTakesAll`), flattening, and counts of terms and of neighbours, which add up
but for the seam (`TallyJoins`, `CouplesJoin`).

- `TUnitsCounted`: after m passes all that leads to a root in m + 1 tokens is
  found (`ChainFound`), and a chain without repetition is no longer than the
  tokens are many (`Chained`).
- `TranscriptInOrder`: turns do not fall along the words (`RowsFiled`), since the
  starts rise and the answers' intervals follow each other (`Timeline`).
- `RunsEndAtPauses`: chunks number one more than the pauses and changes of turn
  (`SegmentHolds`), turns one more than the changes (`TurnsChange`), as the words
  of a turn are together (`Grouped`); sequences without a common turn are cut
  separately (`SegmentSplits`).
- `SessionMadeOfParts`: no turn is in two parts (`PartsOrderly`), so each figure
  of the session is the sum of the parts' (`FiguresAddUp`), but for neighbours at
  the seams, of which there are fewer than parts with words (`SeamsBounded`).
  Words of a turn do not overlap, so they take no longer than it (`SpokenInTurn`).
  An answer's words are all in one part (`SaidInItsPart`), which the scorer of
  pronunciation finds in its own table of phases (`TablesAgree`).
- `FairlyReconciled`: rounding is monotone and does not leave whole numbers
  (`RoundRises`, `RoundWithin`), and so the overall band stays within and follows
  the criteria's (`OverallWithin`, `OverallRises`).
- `AgreementSound`: the sums over classes, weighted by histograms, are sums over
  cases (`PerClass`, `KappaIs`), and the ranks are those of the positions, shared
  out among equal values (`RanksFollow`).
- `CalibrationSound`: in a corpus that is not refused, every id is one case's, so
  the counter of calls gives it its own passes (`JudgedByItsOwn`).

**Only model-checked.** Liveness and `ENABLED` are out of the prover's reach:
`TimedPhaseEnds`, `FinalizingEnds`, `AnswerStored`, `GradedOrGivenUp`, and that a
directive is told in the end, which is the fairness of `DirectiveChannel`.

## 6. Not modelled

- Lexical diversity and collocations, CEFR bands, the grammar checker's rules and
  the pronunciation figures: real-valued arithmetic, or tables and libraries that
  decide the result. When their tasks run, and on what, is in `GradingPipeline`.
- The recognisers, the judge, Gemini, storage and the broker: external; the
  modules say what the code expects of them.
- Gemini's setup, session resumption and the relay of its audio and captions.
- Which topics and cue card are drawn, and the text of prompts and directives.
- The video upload (`VideoUpload` is planned: every clip of a session is uploaded
  to the one key that docs/SPEC_01 gives the full recording, and a confirmation
  marks the newest row), two overlapping connections
  (`ExamRoom` is planned), a reload of the exam page.
- Authentication, observability, migrations, deployment: no state that the
  properties depend on.

`PROJECT.json` gives each component its status and reason, and its hazards say
which property covers them or why none does.
