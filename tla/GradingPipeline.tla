-------------------------- MODULE GradingPipeline --------------------------
(***************************************************************************)
(* The grading of one closed session (apps/worker): grade_exam_session     *)
(* runs finalize_media, transcribe_full_session, a chord of the feature    *)
(* tasks with synthesize_band_scores as its callback, and the sweep of the *)
(* raw audio.  The broker delivers a task again when its worker is lost    *)
(* before the late acknowledgement, tasks retry, and any task may be run   *)
(* again on its own.                                                       *)
(*                                                                         *)
(* A lane is one run through the chain: the root's, one that continues     *)
(* beside it from a task that was delivered twice, or a re-run.  A step is *)
(* what a task does in one database transaction or one storage call.       *)
(***************************************************************************)
EXTENDS Naturals, FiniteSets

CONSTANTS
    Segment,       \* the turns, all of scored phases, whose audio is or will be stored
    Late,          \* those whose flush ends only after grading was enqueued
    TextCriteria,  \* the criteria computed from the transcript alone
    Lane, Root,    \* runs through the chain, and the one of the root task
    MaxRetries,    \* max_retries of every task
    MaxLost,       \* bound: workers lost
    MaxFaults,     \* bound: failures that nothing in the model forces
    Hearing,       \* what a transcription may hear ...
    Found          \* ... and how many words of each turn that is

ASSUME GradingAssumption ==
    /\ Late \subseteq Segment /\ Late # Segment
    /\ Root \in Lane
    /\ "pronunciation" \notin TextCriteria
    /\ MaxRetries \in Nat /\ MaxLost \in Nat /\ MaxFaults \in Nat
    /\ Found \in [Hearing -> [Segment -> Nat]]

VARIABLES
    (* PostgreSQL *)
    audio_segments,     \* rows: turns that were flushed
    status,             \* grading_jobs.status, "none" when there is no row
    result,             \* finalize_media's result: the turns stitched, {} for NULL
    transcripts,        \* rows: one word each
    feature_vectors,    \* criterion |-> what its four rows were computed from
    band_score_reports, \* at most one row
    (* object storage *)
    raw,                \* per-turn audio objects
    canonical,          \* the turns stitched in canonical.flac, {} for none
    (* the broker and its workers *)
    lane,               \* where each run is and what its task has read
    member,             \* the same for the tasks of its chord
    lost,               \* workers lost
    faults              \* failures that nothing forced

jobs == <<status, result>>
storage == <<raw, canonical>>
outputs == <<transcripts, feature_vectors, band_score_reports>>
mishaps == <<lost, faults>>
work == <<lane, member, mishaps>>

vars == <<audio_segments, jobs, outputs, storage, work>>

----------------------------------------------------------------------------
(* Data *)

JobTask == {"finalize_media", "transcribe_full_session",
            "synthesize_band_scores", "sweep_expired_raw_audio"}

CRITERIA == TextCriteria \cup {"pronunciation"}

(* A transcription: what it heard, of which audio, and attributed to which *)
(* turns.  A word's slot is its (turn_id, seq), seq counting from the      *)
(* turn's first word.  A transcription may find no word in a turn, or none *)
(* at all.                                                                 *)
Take == [heard : Hearing, audio : SUBSET Segment, turns : SUBSET Segment]
Word == [slot : Segment \X Nat, take : Take]

WordsIn(take, s) == {[slot |-> <<s, i>>, take |-> take] : i \in 1 .. Found[take.heard][s]}

WordsOf(take) == UNION {WordsIn(take, s) : s \in take.turns}

Slots(rows) == {r.slot : r \in rows}
Takes(rows) == {r.take : r \in rows}

(* What a task has read so far. *)
Nothing == [turns |-> {}, takes |-> {}, rows |-> {}, vectors |-> <<>>]

(* The chain.  The chord is the stage "features".                          *)
Successor ==
    [root |-> "finalize_media",
     finalize_media |-> "transcribe_full_session",
     transcribe_full_session |-> "features",
     features |-> "synthesize_band_scores",
     synthesize_band_scores |-> "sweep_expired_raw_audio",
     sweep_expired_raw_audio |-> "done"]

Stage == DOMAIN Successor \cup {"idle", "done"}

Off == [pc |-> "off", retries |-> 0, got |-> Nothing]

(* A message for the task waits in its queue. *)
Queued(stage, solo) ==
    [at |-> stage, pc |-> "queued", solo |-> solo, retries |-> 0,
     counted |-> {}, got |-> Nothing]

Returned == [pc |-> "done", retries |-> 0, got |-> Nothing]

QueuedMember == [pc |-> "queued", retries |-> 0, got |-> Nothing]

Free(l) == lane[l].at = "idle"

Init ==
    /\ audio_segments = Segment \ Late /\ raw = Segment \ Late
    /\ status = [t \in JobTask |-> "none"] /\ result = {}
    /\ transcripts = {} /\ feature_vectors = <<>> /\ band_score_reports = {}
    /\ canonical = {}
    /\ lane = [l \in Lane |-> Queued(IF l = Root THEN "root" ELSE "idle", FALSE)]
    /\ member = [l \in Lane |-> [c \in CRITERIA |-> Off]]
    /\ lost = 0 /\ faults = 0

----------------------------------------------------------------------------
(* The broker and the worker *)

(* Where a lane goes when its task returns: on along the chain, unless the *)
(* task was run on its own.                                                *)
After(l) == IF lane[l].solo THEN "done" ELSE Successor[lane[l].at]

(* Lane l is sent on; at the chord its header is sent out. *)
SendOn(l) ==
    member' = IF After(l) = "features"
              THEN [member EXCEPT ![l] = [c \in CRITERIA |-> QueuedMember]]
              ELSE member

(* Lane l's task has returned and the next message is out.  If the worker  *)
(* is lost before it acknowledges, the same task is delivered once more,   *)
(* and a second lane runs on from it.                                      *)
Return(l) ==
    LET next == Queued(After(l), lane[l].solo)
        again == [Queued(lane[l].at, lane[l].solo) EXCEPT !.retries = lane[l].retries]
    IN /\ SendOn(l)
       /\ \/ lane' = [lane EXCEPT ![l] = next] /\ UNCHANGED lost
          \/ \E m \in Lane :
                /\ Free(m) /\ lost < MaxLost
                /\ lane' = [lane EXCEPT ![l] = next, ![m] = again]
                /\ lost' = lost + 1

(* Lane l's task is at pc. *)
Doing(l, task, pc) == lane[l].at = task /\ lane[l].pc = pc

Step(l, pc, got) == lane' = [lane EXCEPT ![l].pc = pc, ![l].got = got]

Running(l) == lane[l].at \in JobTask /\ lane[l].pc \notin {"queued", "failed"}

MemberRunning(l, c) == member[l][c].pc = "loaded"

(* Mutated form: the message was acknowledged on receipt. *)
LostForGood(run) == [run EXCEPT !.pc = "off", !.got = Nothing]

Requeued(run) == [run EXCEPT !.pc = "queued", !.got = Nothing]

GivenUp(run) == [run EXCEPT !.pc = "failed", !.retries = 0, !.got = Nothing]

(* A worker is lost in the middle of a task: an open transaction is rolled *)
(* back and the message is delivered again.                                *)
WorkerLost(l) ==
    /\ lost < MaxLost /\ lost' = lost + 1
    /\ \/ /\ Running(l)
          /\ lane' = [lane EXCEPT ![l] = Requeued(@)]
          /\ UNCHANGED member
       \/ \E c \in CRITERIA :
            /\ MemberRunning(l, c)
            /\ member' = [member EXCEPT ![l][c] = Requeued(@)]
            /\ UNCHANGED lane
    /\ UNCHANGED <<audio_segments, jobs, outputs, storage, faults>>

(* Mutated form: it never gives up. *)
RetriedForEver(run) == [run EXCEPT !.pc = "queued", !.retries = @ + 1, !.got = Nothing]

(* self.retry: the task is queued again, or fails once its retries are     *)
(* used up; then nothing after it runs.                                    *)
Retried(run) ==
    IF run.retries < MaxRetries
    THEN [Requeued(run) EXCEPT !.retries = @ + 1]
    ELSE GivenUp(run)

(* Mutated form of mark_failed: the row is written as a whole. *)
FailedWithoutResult(t) ==
    /\ status' = [status EXCEPT ![t] = "FAILED"]
    /\ result' = IF t = "finalize_media" THEN {} ELSE result

mark_running(t) == status' = [status EXCEPT ![t] = "RUNNING"] /\ UNCHANGED result
mark_failed(t) == status' = [status EXCEPT ![t] = "FAILED"] /\ UNCHANGED result
mark_succeeded(t) == status' = [status EXCEPT ![t] = "SUCCEEDED"]

NewRows(l) == UNION {WordsOf(take) : take \in lane[l].got.takes}

(* Rows that were committed after lane l's DELETE, and whether their slots *)
(* collide with its inserts (uq_transcript_word_key).                      *)
LeftRows(l) == transcripts \ lane[l].got.rows

Conflicts(l) == Slots(NewRows(l)) \cap Slots(LeftRows(l)) # {}

(* What a task needs is missing: it can only raise. *)
Forced(l) ==
    LET turns == lane[l].got.turns
    IN \/ Doing(l, "finalize_media", "begun") /\ (turns = {} \/ ~(turns \subseteq raw))
       \/ Doing(l, "transcribe_full_session", "begun") /\ (turns = {} \/ canonical = {})
       \/ Doing(l, "transcribe_full_session", "deleted") /\ Conflicts(l)

ForcedMember(l, c) == member[l][c].pc = "loaded" /\ ~(member[l][c].got.turns \subseteq raw)

(* Besides, any call in a task's try block may raise: storage, a vendor,   *)
(* the database.                                                           *)
Counts(forced) ==
    \/ forced /\ UNCHANGED faults
    \/ ~forced /\ faults < MaxFaults /\ faults' = faults + 1

Fail(l) ==
    /\ Running(l) /\ Counts(Forced(l))
    /\ mark_failed(lane[l].at)
    /\ lane' = [lane EXCEPT ![l] = Retried(@)]
    /\ UNCHANGED <<audio_segments, outputs, storage, member, lost>>

FailMember(l, c) ==
    /\ MemberRunning(l, c) /\ Counts(ForcedMember(l, c))
    /\ member' = [member EXCEPT ![l][c] = Retried(@)]
    /\ UNCHANGED <<audio_segments, jobs, outputs, storage, lane, lost>>

(* The hard time limit kills a task without its except clause: it is       *)
(* acknowledged, not retried, and its row stays RUNNING.                   *)
TimeLimit(l) ==
    /\ Counts(FALSE)
    /\ \/ /\ Running(l)
          /\ lane' = [lane EXCEPT ![l] = GivenUp(@)]
          /\ UNCHANGED member
       \/ \E c \in CRITERIA :
            /\ MemberRunning(l, c)
            /\ member' = [member EXCEPT ![l][c] = GivenUp(@)]
            /\ UNCHANGED lane
    /\ UNCHANGED <<audio_segments, jobs, outputs, storage, lost>>

(* mark_running is called before the try block: when it raises, the task   *)
(* fails and is not retried.                                               *)
BeginRaises(l) ==
    /\ Counts(FALSE)
    /\ lane[l].at \in JobTask /\ lane[l].pc = "queued"
    /\ lane' = [lane EXCEPT ![l] = GivenUp(@)]
    /\ UNCHANGED <<audio_segments, jobs, outputs, storage, member, lost>>

----------------------------------------------------------------------------
(* The gateway's flushes that are still under way *)

(* The object is stored and its row inserted; the moment between the two   *)
(* is left out.                                                            *)
LateFlush(s) ==
    /\ s \in Late \ audio_segments
    /\ audio_segments' = audio_segments \cup {s}
    /\ raw' = raw \cup {s}
    /\ UNCHANGED <<jobs, outputs, canonical, work>>

----------------------------------------------------------------------------
(* grade_exam_session *)

grade_exam_session(l) ==
    /\ Doing(l, "root", "queued")
    /\ Return(l)
    /\ UNCHANGED <<audio_segments, jobs, outputs, storage, faults>>

----------------------------------------------------------------------------
(* finalize_media *)

FinalizeBegin(l) ==
    /\ Doing(l, "finalize_media", "queued")
    /\ mark_running("finalize_media")
    /\ Step(l, "begun", [Nothing EXCEPT !.turns = audio_segments])
    /\ UNCHANGED <<audio_segments, outputs, storage, member, mishaps>>

(* Mutated form: objects that are missing are left out. *)
FetchWhatIsThere(l) ==
    /\ Doing(l, "finalize_media", "begun")
    /\ lane[l].got.turns # {}
    /\ Step(l, "fetched", [Nothing EXCEPT !.turns = lane[l].got.turns \cap raw])
    /\ UNCHANGED <<audio_segments, jobs, outputs, storage, member, mishaps>>

(* Every turn's object is read, which is one step here.  It raises when    *)
(* there is no segment or an object is gone.                               *)
FinalizeFetch(l) ==
    /\ Doing(l, "finalize_media", "begun")
    /\ lane[l].got.turns # {} /\ lane[l].got.turns \subseteq raw
    /\ Step(l, "fetched", lane[l].got)
    /\ UNCHANGED <<audio_segments, jobs, outputs, storage, member, mishaps>>

FinalizeStitch(l) ==
    /\ Doing(l, "finalize_media", "fetched")
    /\ canonical' = lane[l].got.turns
    /\ Step(l, "written", lane[l].got)
    /\ UNCHANGED <<audio_segments, jobs, outputs, raw, member, mishaps>>

(* Mutated form: the boundaries are read again for the result. *)
FinalizeReadsAgain(l) ==
    /\ Doing(l, "finalize_media", "written")
    /\ mark_succeeded("finalize_media")
    /\ result' = audio_segments
    /\ Return(l)
    /\ UNCHANGED <<audio_segments, outputs, storage, faults>>

FinalizeFinish(l) ==
    /\ Doing(l, "finalize_media", "written")
    /\ mark_succeeded("finalize_media")
    /\ result' = lane[l].got.turns
    /\ Return(l)
    /\ UNCHANGED <<audio_segments, outputs, storage, faults>>

----------------------------------------------------------------------------
(* transcribe_full_session *)

TranscribeBegin(l) ==
    /\ Doing(l, "transcribe_full_session", "queued")
    /\ mark_running("transcribe_full_session")
    /\ Step(l, "begun", [Nothing EXCEPT !.turns = result])
    /\ UNCHANGED <<audio_segments, outputs, storage, member, mishaps>>

(* The takes that the transcript or a task under way still holds. *)
Held == Takes(transcripts) \cup
        UNION {lane[l].got.takes \cup Takes(lane[l].got.rows) : l \in Lane}

(* A transcription of the recording that is there now, of the turns lane l *)
(* read.                                                                   *)
TakeOf(l, heard) == [heard |-> heard, audio |-> canonical, turns |-> lane[l].got.turns]

(* It raises without a result or an object.  Two transcriptions of one     *)
(* recording are two takes, and may differ in any turn.                    *)
TranscribeFetch(l) ==
    /\ Doing(l, "transcribe_full_session", "begun")
    /\ lane[l].got.turns # {} /\ canonical # {}
    /\ \E heard \in Hearing :
          /\ TakeOf(l, heard) \notin Held
          /\ Step(l, "fetched", [lane[l].got EXCEPT !.takes = {TakeOf(l, heard)}])
    /\ UNCHANGED <<audio_segments, jobs, outputs, storage, member, mishaps>>

(* DELETE sees the rows committed when it runs. *)
TranscribeDelete(l) ==
    /\ Doing(l, "transcribe_full_session", "fetched")
    /\ Step(l, "deleted", [lane[l].got EXCEPT !.rows = transcripts])
    /\ UNCHANGED <<audio_segments, jobs, outputs, storage, member, mishaps>>

(* Mutated form: one upsert per word, nothing deleted. *)
UpsertWords(l) ==
    /\ Doing(l, "transcribe_full_session", "deleted")
    /\ transcripts' = NewRows(l) \cup {r \in transcripts : r.slot \notin Slots(NewRows(l))}
    /\ Step(l, "written", Nothing)
    /\ UNCHANGED <<audio_segments, jobs, feature_vectors, band_score_reports,
                   storage, member, mishaps>>

TranscribeCommit(l) ==
    /\ Doing(l, "transcribe_full_session", "deleted") /\ ~Conflicts(l)
    /\ transcripts' = LeftRows(l) \cup NewRows(l)
    /\ Step(l, "written", Nothing)
    /\ UNCHANGED <<audio_segments, jobs, feature_vectors, band_score_reports,
                   storage, member, mishaps>>

TranscribeFinish(l) ==
    /\ Doing(l, "transcribe_full_session", "written")
    /\ mark_succeeded("transcribe_full_session") /\ UNCHANGED result
    /\ Return(l)
    /\ UNCHANGED <<audio_segments, outputs, storage, faults>>

----------------------------------------------------------------------------
(* The chord: compute_fluency_metrics and its like, and                    *)
(* compute_pronunciation_scores.                                           *)

MemberStep(l, c, pc, got) ==
    member' = [member EXCEPT ![l][c].pc = pc, ![l][c].got = got]

(* The rows of the three parts and of the session are written one after    *)
(* the other, from the same words: they stand here for one.                *)
write_feature_vector(c, takes) ==
    feature_vectors' = [d \in DOMAIN feature_vectors \cup {c} |->
                            IF d = c THEN takes ELSE feature_vectors[d]]

load_words == [Nothing EXCEPT !.takes = Takes(transcripts)]

(* The words, and the turns whose recordings are scored. *)
_load_scoreable_segments == [load_words EXCEPT !.turns = audio_segments]

Load(l, c) ==
    /\ member[l][c].pc = "queued"
    /\ MemberStep(l, c, "loaded", IF c = "pronunciation" THEN _load_scoreable_segments
                                                         ELSE load_words)
    /\ UNCHANGED <<audio_segments, jobs, outputs, storage, lane, mishaps>>

(* Mutated form: a member that was given up counts as one that returned. *)
CountedOrGivenUp(l, c) ==
    lane[l].counted \cup {c} \cup {d \in CRITERIA : member[l][d].pc = "failed"}

(* The members of lane l that have returned when c does. *)
Counted(l, c) == lane[l].counted \cup {c}

(* Pronunciation raises when the recording of a turn is gone.  The last    *)
(* member to return sends the callback; a worker lost before it            *)
(* acknowledges runs the member again.                                     *)
Compute(l, c) ==
    /\ member[l][c].pc = "loaded" /\ ~ForcedMember(l, c)
    /\ write_feature_vector(c, member[l][c].got.takes)
    /\ \/ member' = [member EXCEPT ![l][c] = Returned] /\ UNCHANGED lost
       \/ /\ lost < MaxLost /\ lost' = lost + 1
          /\ MemberStep(l, c, "queued", Nothing)
    /\ lane' = [lane EXCEPT ![l] =
                   IF lane[l].at # "features" THEN @
                   ELSE IF lane[l].solo \/ Counted(l, c) = CRITERIA
                        THEN Queued(After(l), lane[l].solo)
                        ELSE [@ EXCEPT !.counted = Counted(l, c)]]
    /\ UNCHANGED <<audio_segments, jobs, transcripts, band_score_reports, storage, faults>>

----------------------------------------------------------------------------
(* synthesize_band_scores.  _build_judge_input reads vectors and words one *)
(* after the other, which is one step here.                                *)

SynthesizeBegin(l) ==
    /\ Doing(l, "synthesize_band_scores", "queued")
    /\ mark_running("synthesize_band_scores")
    /\ Step(l, "judged", [Nothing EXCEPT !.vectors = feature_vectors,
                                         !.takes = Takes(transcripts)])
    /\ UNCHANGED <<audio_segments, outputs, storage, member, mishaps>>

write_band_score_report(l) ==
    /\ Doing(l, "synthesize_band_scores", "judged")
    /\ band_score_reports' = {[words |-> lane[l].got.takes, vectors |-> lane[l].got.vectors]}
    /\ Step(l, "written", Nothing)
    /\ UNCHANGED <<audio_segments, jobs, transcripts, feature_vectors,
                   storage, member, mishaps>>

SynthesizeFinish(l) ==
    /\ Doing(l, "synthesize_band_scores", "written")
    /\ mark_succeeded("synthesize_band_scores") /\ UNCHANGED result
    /\ Return(l)
    /\ UNCHANGED <<audio_segments, outputs, storage, faults>>

----------------------------------------------------------------------------
(* sweep_expired_raw_audio *)

SweepBegin(l) ==
    /\ Doing(l, "sweep_expired_raw_audio", "queued")
    /\ mark_running("sweep_expired_raw_audio")
    /\ Step(l, "begun", Nothing)
    /\ UNCHANGED <<audio_segments, outputs, storage, member, mishaps>>

(* Whatever is under the session's prefix goes. *)
SweepDelete(l) ==
    /\ Doing(l, "sweep_expired_raw_audio", "begun")
    /\ raw' = {}
    /\ Step(l, "written", Nothing)
    /\ UNCHANGED <<audio_segments, jobs, outputs, canonical, member, mishaps>>

SweepFinish(l) ==
    /\ Doing(l, "sweep_expired_raw_audio", "written")
    /\ mark_succeeded("sweep_expired_raw_audio") /\ UNCHANGED result
    /\ Return(l)
    /\ UNCHANGED <<audio_segments, outputs, storage, faults>>

----------------------------------------------------------------------------
(* The operator *)

(* A task that failed is run again on its own (task.delay); the chain does *)
(* not go on from it.                                                      *)
Rerun(l, t) ==
    /\ Free(l)
    /\ \E m \in Lane : lane[m].at = t /\ lane[m].pc = "failed"
    /\ lane' = [lane EXCEPT ![l] = Queued(t, TRUE)]
    /\ UNCHANGED <<audio_segments, jobs, outputs, storage, member, mishaps>>

RerunMember(l, c) ==
    /\ Free(l)
    /\ \E m \in Lane : lane[m].at = "features" /\ member[m][c].pc = "failed"
    /\ lane' = [lane EXCEPT ![l] = Queued("features", TRUE)]
    /\ member' = [member EXCEPT ![l][c] = QueuedMember]
    /\ UNCHANGED <<audio_segments, jobs, outputs, storage, mishaps>>

(* A chord that is stuck never sends its callback: once every member has   *)
(* been run again, the callback is run by hand.                            *)
RunCallback(l) ==
    /\ lane[l].at = "idle" \/ (lane[l].at = "done" /\ lane[l].solo)
    /\ band_score_reports = {}
    /\ \E m \in Lane, c \in CRITERIA : lane[m].at = "features" /\ member[m][c].pc = "failed"
    /\ \A c \in CRITERIA : c \in DOMAIN feature_vectors
    /\ lane' = [lane EXCEPT ![l] = Queued("synthesize_band_scores", TRUE)]
    /\ UNCHANGED <<audio_segments, jobs, outputs, storage, member, mishaps>>

----------------------------------------------------------------------------

LaneWork(l) ==
    \/ grade_exam_session(l)
    \/ FinalizeBegin(l) \/ FinalizeFetch(l) \/ FinalizeStitch(l) \/ FinalizeFinish(l)
    \/ TranscribeBegin(l) \/ TranscribeFetch(l) \/ TranscribeDelete(l)
    \/ TranscribeCommit(l) \/ TranscribeFinish(l)
    \/ \E c \in CRITERIA : Load(l, c) \/ Compute(l, c) \/ FailMember(l, c)
    \/ SynthesizeBegin(l) \/ write_band_score_report(l)
    \/ SynthesizeFinish(l)
    \/ SweepBegin(l) \/ SweepDelete(l) \/ SweepFinish(l)
    \/ Fail(l)

Work == \E l \in Lane : LaneWork(l)

Mishap(l) == WorkerLost(l) \/ TimeLimit(l) \/ BeginRaises(l)

Operator(l) ==
    \/ \E t \in JobTask : Rerun(l, t)
    \/ \E c \in CRITERIA : RerunMember(l, c)
    \/ RunCallback(l)

Next ==
    \/ Work
    \/ \E l \in Lane : Mishap(l) \/ Operator(l)
    \/ \E s \in Late : LateFlush(s)

Spec == Init /\ [][Next]_vars

----------------------------------------------------------------------------
(* Properties *)

RunType(run) ==
    /\ run.retries \in 0 .. MaxRetries
    /\ run.got.turns \subseteq Segment /\ run.got.takes \subseteq Take
    /\ run.got.rows \subseteq Word
    /\ DOMAIN run.got.vectors \subseteq CRITERIA

(* Every variable keeps its type; no task is retried more often than       *)
(* max_retries says (tasks/*.py), whatever is lost or killed.              *)
TypeOK ==
    /\ audio_segments \subseteq Segment /\ raw \subseteq Segment
    /\ canonical \subseteq Segment /\ result \subseteq Segment
    /\ status \in [JobTask -> {"none", "RUNNING", "SUCCEEDED", "FAILED"}]
    /\ transcripts \subseteq Word
    /\ DOMAIN feature_vectors \subseteq CRITERIA
    /\ Cardinality(band_score_reports) \leq 1
    /\ \A l \in Lane :
        /\ lane[l].at \in Stage /\ lane[l].solo \in BOOLEAN
        /\ lane[l].counted \subseteq CRITERIA /\ RunType(lane[l])
        /\ \A c \in CRITERIA : RunType(member[l][c])
    /\ lost \in 0 .. MaxLost /\ faults \in 0 .. MaxFaults

Complete(report) == \A c \in CRITERIA : c \in DOMAIN report.vectors

(* Raw audio is deleted only when there is a report, and one that the      *)
(* judge gave with every criterion's vector before it: neither a second    *)
(* chain nor a chord with a member that was given up sweeps early          *)
(* (grading_pipeline.py, sweep_expired_raw_audio).                         *)
SweptAfterReport ==
    [][raw \subseteq raw' \/ \E r \in band_score_reports : Complete(r)]_vars

(* Whatever runs twice, fails or is killed, the recording of every turn    *)
(* that was stored before grading began is still a raw object or in the    *)
(* canonical file: a finalize_media that comes after the sweep does not    *)
(* put a shorter file in its place.                                        *)
EvidenceKept == Segment \ Late \subseteq raw \cup canonical

(* A chain that has got to transcribe_full_session finds a result and a    *)
(* recording there: a second finalize_media that fails leaves those of the *)
(* first alone (job_status.mark_failed).                                   *)
TranscribeFindsMedia ==
    \A l \in Lane :
        lane[l].at \in {"transcribe_full_session", "features"} /\ ~lane[l].solo
        => result # {} /\ canonical # {}

InTurn(rows, s) == {r \in rows : r.slot[1] = s}

(* The words of a turn are those that one transcription found there, all   *)
(* of them and no other's: a shorter re-run strands none, and of two that  *)
(* overlap in the turn one commits nothing (asr._persist_words,            *)
(* uq_transcript_word_key).                                                *)
TurnOneTake ==
    \A r \in transcripts :
        InTurn(transcripts, r.slot[1]) = InTurn(WordsOf(r.take), r.slot[1])

(* The transcript as a whole is that of one transcription: a re-run is a   *)
(* full replace (asr._persist_words).                                      *)
TranscriptOneTake == Cardinality(Takes(transcripts)) \leq 1

(* When no worker was lost, the report's transcript and all of its vectors *)
(* stem from one transcription, whose audio is the audio its words were    *)
(* attributed to, whatever failed, was retried or was run again.           *)
OneRunCoherent ==
    lost = 0 =>
        \A r \in band_score_reports :
            /\ Cardinality(r.words) \leq 1
            /\ \A take \in r.words : take.audio = take.turns
            /\ \A k \in DOMAIN r.vectors : r.vectors[k] = r.words

(* Lane l is through, or some task of it was given up for good. *)
Settled(l) ==
    \/ lane[l].at = "done" \/ lane[l].pc = "failed"
    \/ lane[l].at = "features" /\ \E c \in CRITERIA : member[l][c].pc = "failed"

(* Every run through the chain that is begun gets to its end or to a task  *)
(* that was given up (celery_app.py): when the workers have nothing left   *)
(* to do, no lost worker and no killed task has left a run waiting.        *)
GradedOrGivenUp ==
    ~ ENABLED Work => \A l \in Lane : lane[l].at # "idle" => Settled(l)
============================================================================
