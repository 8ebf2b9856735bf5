----------------------- MODULE GradingPipelineProofs -----------------------
(***************************************************************************)
(* Theorems about GradingPipeline for any number of turns, criteria, runs  *)
(* through the chain, retries, lost workers and failures: its types, that  *)
(* raw audio outlives the report, that no recording is lost, that every    *)
(* turn of the transcript is one take's, and what the report of a run      *)
(* without lost workers is made of.                                        *)
(***************************************************************************)
EXTENDS GradingPipeline, FiniteSetTheorems, TLAPS

----------------------------------------------------------------------------
(* The types of the records *)

Pc == {"queued", "begun", "written", "fetched", "deleted", "judged", "failed"}

(* What some of the criteria were computed from. *)
Vectors == UNION {[D -> SUBSET Take] : D \in SUBSET CRITERIA}

Got == [turns : SUBSET Segment, takes : SUBSET Take, rows : SUBSET Word, vectors : Vectors]

LaneRun == [at : Stage, pc : Pc, solo : BOOLEAN, retries : 0 .. MaxRetries,
            counted : SUBSET CRITERIA, got : Got]

MemberRun == [pc : {"off", "queued", "loaded", "done", "failed"},
              retries : 0 .. MaxRetries, got : Got]

Types ==
    /\ audio_segments \in SUBSET Segment /\ raw \in SUBSET Segment
    /\ canonical \in SUBSET Segment /\ result \in SUBSET Segment
    /\ status \in [JobTask -> {"none", "RUNNING", "SUCCEEDED", "FAILED"}]
    /\ transcripts \in SUBSET Word
    /\ feature_vectors \in Vectors
    /\ band_score_reports \in SUBSET [words : SUBSET Take, vectors : Vectors]
    /\ \A r, s \in band_score_reports : r = s
    /\ lane \in [Lane -> LaneRun]
    /\ member \in [Lane -> [CRITERIA -> MemberRun]]
    /\ lost \in 0 .. MaxLost /\ faults \in 0 .. MaxFaults

----------------------------------------------------------------------------
(* The invariants *)

(* Every criterion has its vector. *)
AllVectors == CRITERIA \subseteq DOMAIN feature_vectors

(* A run counts the members that returned by the vectors they wrote; what  *)
(* a run past its chord stands on is there, and a run past the judge has a *)
(* report.                                                                 *)
SweepLane(l) ==
    /\ lane[l].counted \subseteq DOMAIN feature_vectors
    /\ lane[l].at \in {"synthesize_band_scores", "sweep_expired_raw_audio"} => AllVectors
    /\ Doing(l, "synthesize_band_scores", "judged") => CRITERIA \subseteq DOMAIN lane[l].got.vectors
    /\ \/ Doing(l, "synthesize_band_scores", "written")
       \/ lane[l].at = "sweep_expired_raw_audio"
       => band_score_reports # {}

SweepInv ==
    /\ \A r \in band_score_reports : Complete(r)
    /\ \A l \in Lane : SweepLane(l)

(* The turns that were stored when grading began. *)
Stored == Segment \ Late

AfterMedia == {"transcribe_full_session", "features", "synthesize_band_scores",
               "sweep_expired_raw_audio"}

(* What a run of finalize_media has read holds the stored turns, and a run *)
(* past it finds a recording and a result.                                 *)
MediaLane(l) ==
    /\ lane[l].at = "finalize_media" /\ lane[l].pc \in {"begun", "fetched", "written"}
       => Stored \subseteq lane[l].got.turns
    /\ Doing(l, "finalize_media", "written") => canonical # {}
    /\ lane[l].at \in AfterMedia => canonical # {} /\ result # {}

MediaInv ==
    /\ Stored \subseteq audio_segments
    /\ canonical = {} \/ Stored \subseteq canonical
    /\ Stored \subseteq raw \/ canonical # {}
    /\ \A l \in Lane : MediaLane(l)

(* In every turn, no rows or all of one transcription's. *)
WholeTurns(rows) ==
    \A r \in rows : InTurn(rows, r.slot[1]) = InTurn(WordsOf(r.take), r.slot[1])

TakeLane(l) ==
    lane[l].at = "transcribe_full_session" =>
        /\ lane[l].pc = "deleted" => WholeTurns(lane[l].got.rows)
        /\ lane[l].pc \in {"fetched", "deleted"} =>
               \E take \in Take : lane[l].got.takes = {take}

TakeInv == WholeTurns(transcripts) /\ \A l \in Lane : TakeLane(l)

(* While no worker is lost, the root's run alone goes through the chain.   *)
(* Beside it tasks are run on their own: the media tasks only when it has  *)
(* failed there, the others only when it is past transcription.            *)
PastTranscribe == {"features", "synthesize_band_scores", "sweep_expired_raw_audio", "done"}

RootPast == lane[Root].at \in PastTranscribe

RunsApart ==
    /\ lane[Root].at # "idle" /\ ~lane[Root].solo
    /\ \A l \in Lane \ {Root} :
        /\ lane[l].at = "idle" \/ lane[l].solo
        /\ lane[l].at # "root"
        /\ lane[l].at \in {"finalize_media", "transcribe_full_session"} =>
               lane[Root].at = lane[l].at /\ lane[Root].pc = "failed"
        /\ lane[l].at \in PastTranscribe \ {"done"} => RootPast

(* A take of the audio that its words are attributed to. *)
Coherent(take) == take.audio = take.turns

(* What the root's run has gathered on its way. *)
RootRun ==
    LET got == lane[Root].got
    IN  /\ Doing(Root, "finalize_media", "written") => canonical = got.turns
        /\ lane[Root].at \in {"transcribe_full_session"} \cup PastTranscribe => result = canonical
        /\ lane[Root].at = "transcribe_full_session" =>
            /\ lane[Root].pc \in {"begun", "fetched", "deleted"} => got.turns = result
            /\ lane[Root].pc \in {"fetched", "deleted"} =>
                   \E take \in Take : got.takes = {take} /\ Coherent(take)
            /\ lane[Root].pc = "deleted" => got.rows = transcripts
        /\ Doing(Root, "transcribe_full_session", "written") \/ RootPast =>
               \E take \in Take : transcripts = WordsOf(take) /\ Coherent(take)

(* All that was computed after the transcription was computed from it. *)
FromTranscript(vectors) == \A c \in DOMAIN vectors : vectors[c] = Takes(transcripts)

Computed ==
    /\ ~RootPast => /\ band_score_reports = {} /\ DOMAIN feature_vectors = {}
                    /\ \A l \in Lane, c \in CRITERIA : member[l][c].pc = "off"
    /\ FromTranscript(feature_vectors)
    /\ \A r \in band_score_reports : r.words = Takes(transcripts) /\ FromTranscript(r.vectors)
    /\ \A l \in Lane :
        /\ \A c \in CRITERIA : member[l][c].pc = "loaded" =>
                                   member[l][c].got.takes = Takes(transcripts)
        /\ Doing(l, "synthesize_band_scores", "judged") =>
               /\ lane[l].got.takes = Takes(transcripts)
               /\ FromTranscript(lane[l].got.vectors)

RunInv == lost = 0 => RunsApart /\ RootRun /\ Computed

IInv == Types /\ SweepInv /\ MediaInv /\ TakeInv /\ RunInv

----------------------------------------------------------------------------
(* Records, and what a step makes of them *)

(* Nothing is what a task that has read nothing has got. *)
LEMMA NothingType ==
    /\ Nothing \in Got
    /\ Nothing.turns = {} /\ Nothing.takes = {} /\ Nothing.rows = {}
    /\ DOMAIN Nothing.vectors = {}
<1>1. <<>> \in [{} -> SUBSET Take] /\ DOMAIN <<>> = {}
  OBVIOUS
<1>2. <<>> \in Vectors
  BY <1>1 DEF Vectors
<1> QED  BY <1>1, <1>2 DEF Nothing, Got

(* The stages of the chain and their order. *)
LEMMA Stages ==
    /\ JobTask \subseteq Stage /\ JobTask \subseteq DOMAIN Successor
    /\ {"root", "features", "idle", "done"} \subseteq Stage
    /\ \A at \in DOMAIN Successor : Successor[at] \in Stage
    /\ Successor["root"] = "finalize_media"
    /\ Successor["finalize_media"] = "transcribe_full_session"
    /\ Successor["transcribe_full_session"] = "features"
    /\ Successor["features"] = "synthesize_band_scores"
    /\ Successor["synthesize_band_scores"] = "sweep_expired_raw_audio"
    /\ Successor["sweep_expired_raw_audio"] = "done"
BY DEF Stage, Successor, JobTask

(* A message is a run, and so is a task that is queued again or given up.  *)
LEMMA QueuedType ==
    ASSUME NEW at \in Stage, NEW solo \in BOOLEAN
    PROVE  Queued(at, solo) \in LaneRun
BY NothingType, GradingAssumption DEF Queued, LaneRun, Pc

(* A stalled run waits where it was, or has failed there. *)
Stalls(run, next) ==
    /\ next.at = run.at /\ next.solo = run.solo /\ next.counted = run.counted
    /\ next.pc \in {"queued", "failed"}

(* A task that is queued again, given up or retried stalls its run.        *)
LEMMA LaneStalls ==
    ASSUME NEW run \in LaneRun
    PROVE  /\ Requeued(run) \in LaneRun /\ Stalls(run, Requeued(run))
           /\ GivenUp(run) \in LaneRun /\ Stalls(run, GivenUp(run))
           /\ Retried(run) \in LaneRun /\ Stalls(run, Retried(run))
<1>1. Requeued(run) \in LaneRun /\ Stalls(run, Requeued(run))
  BY NothingType DEF Requeued, LaneRun, Pc, Stalls
<1>2. GivenUp(run) \in LaneRun /\ Stalls(run, GivenUp(run))
  <2>1. 0 \in 0 .. MaxRetries
    BY GradingAssumption
  <2>2. GivenUp(run) \in LaneRun
    BY <2>1, NothingType DEF GivenUp, LaneRun, Pc
  <2> QED  BY <2>2 DEF GivenUp, LaneRun, Stalls
<1>3. Retried(run) \in LaneRun /\ Stalls(run, Retried(run))
  <2>1. CASE run.retries < MaxRetries
    <3>1. run.retries + 1 \in 0 .. MaxRetries
      BY <2>1, GradingAssumption DEF LaneRun
    <3>2. Requeued(run).retries = run.retries
      BY DEF Requeued, LaneRun
    <3>3. Retried(run) = [Requeued(run) EXCEPT !.retries = run.retries + 1]
      BY <2>1, <3>2 DEF Retried
    <3> QED  BY <1>1, <3>1, <3>3 DEF LaneRun, Stalls
  <2>2. CASE ~(run.retries < MaxRetries)
    BY <1>2, <2>2 DEF Retried
  <2> QED  BY <2>1, <2>2
<1> QED  BY <1>1, <1>2, <1>3

(* The same of the runs in a chord. *)
LEMMA MemberStalls ==
    ASSUME NEW run \in MemberRun
    PROVE  /\ Requeued(run) \in MemberRun /\ Requeued(run).pc = "queued"
           /\ GivenUp(run) \in MemberRun /\ GivenUp(run).pc = "failed"
           /\ Retried(run) \in MemberRun /\ Retried(run).pc \in {"queued", "failed"}
<1>1. Requeued(run) \in MemberRun /\ Requeued(run).pc = "queued"
  BY NothingType DEF Requeued, MemberRun
<1>2. GivenUp(run) \in MemberRun /\ GivenUp(run).pc = "failed"
  <2>1. 0 \in 0 .. MaxRetries
    BY GradingAssumption
  <2> QED  BY <2>1, NothingType DEF GivenUp, MemberRun
<1>3. Retried(run) \in MemberRun /\ Retried(run).pc \in {"queued", "failed"}
  <2>1. CASE run.retries < MaxRetries
    <3>1. run.retries + 1 \in 0 .. MaxRetries
      BY <2>1, GradingAssumption DEF MemberRun
    <3>2. Requeued(run).retries = run.retries
      BY DEF Requeued, MemberRun
    <3>3. Retried(run) = [Requeued(run) EXCEPT !.retries = run.retries + 1]
      BY <2>1, <3>2 DEF Retried
    <3> QED  BY <1>1, <3>1, <3>3 DEF MemberRun
  <2>2. CASE ~(run.retries < MaxRetries)
    BY <1>2, <2>2 DEF Retried
  <2> QED  BY <2>1, <2>2
<1> QED  BY <1>1, <1>2, <1>3

(* What a run of the chord starts and ends with. *)
LEMMA MemberMessages ==
    Off \in MemberRun /\ QueuedMember \in MemberRun /\ Returned \in MemberRun
BY NothingType, GradingAssumption DEF Off, QueuedMember, Returned, MemberRun

(* Lane l goes to pc with got; the other lanes stay. *)
Moves(l, pc, got) ==
    /\ lane'[l].at = lane[l].at /\ lane'[l].solo = lane[l].solo
    /\ lane'[l].counted = lane[l].counted
    /\ lane'[l].pc = pc /\ lane'[l].got = got
    /\ \A m \in Lane \ {l} : lane'[m] = lane[m]

(* Step is such a move.                                                    *)
LEMMA StepEffect ==
    ASSUME Types, NEW l \in Lane, NEW pc \in Pc, NEW got \in Got, Step(l, pc, got)
    PROVE  lane' \in [Lane -> LaneRun] /\ Moves(l, pc, got)
BY DEF Types, Step, Moves, LaneRun

(* Lane l's task has returned.  Another lane may have become its second    *)
(* delivery.                                                               *)
HandsOn(l) ==
    /\ lane'[l].at = After(l) /\ lane'[l].pc = "queued"
    /\ lane'[l].solo = lane[l].solo /\ lane'[l].counted = {}
    /\ \A m \in Lane \ {l} :
        \/ lane'[m] = lane[m]
        \/ /\ lane[m].at = "idle" /\ lost' # 0
           /\ lane'[m].at = lane[l].at /\ lane'[m].pc = "queued"
           /\ lane'[m].solo = lane[l].solo /\ lane'[m].counted = {}
    /\ \A m \in Lane, c \in CRITERIA :
        \/ member'[m][c] = member[m][c]
        \/ m = l /\ After(l) = "features" /\ member'[m][c] = QueuedMember

(* Return is such a handing on, and keeps the types.                       *)
LEMMA ReturnEffect ==
    ASSUME Types, NEW l \in Lane, lane[l].at \in DOMAIN Successor, Return(l)
    PROVE  /\ lane' \in [Lane -> LaneRun]
           /\ member' \in [Lane -> [CRITERIA -> MemberRun]]
           /\ lost' \in 0 .. MaxLost
           /\ lost' = 0 => lost = 0
           /\ HandsOn(l)
<1> DEFINE next == Queued(After(l), lane[l].solo)
           again == [Queued(lane[l].at, lane[l].solo) EXCEPT !.retries = lane[l].retries]
<1>1. lane[l] \in LaneRun /\ lane[l].at # "idle" /\ lost \in Nat
  BY GradingAssumption DEF Types, Successor
<1>2. After(l) \in Stage /\ lane[l].at \in Stage
  BY Stages DEF After, Stage
<1>3. next \in LaneRun /\ again \in LaneRun
  BY <1>1, <1>2, QueuedType DEF LaneRun
<1>4. /\ next.at = After(l) /\ next.pc = "queued" /\ next.solo = lane[l].solo
      /\ next.counted = {}
      /\ again.at = lane[l].at /\ again.pc = "queued" /\ again.solo = lane[l].solo
      /\ again.counted = {}
  BY DEF Queued
<1>5. /\ member' \in [Lane -> [CRITERIA -> MemberRun]]
      /\ \A m \in Lane, c \in CRITERIA :
            \/ member'[m][c] = member[m][c]
            \/ m = l /\ After(l) = "features" /\ member'[m][c] = QueuedMember
  BY MemberMessages DEF Return, SendOn, Types
<1>6. \/ lane' = [lane EXCEPT ![l] = next] /\ UNCHANGED lost
      \/ \E m \in Lane :
            /\ Free(m) /\ lost < MaxLost
            /\ lane' = [lane EXCEPT ![l] = next, ![m] = again]
            /\ lost' = lost + 1
  BY DEF Return
<1> HIDE DEF next, again
<1>7. CASE lane' = [lane EXCEPT ![l] = next] /\ UNCHANGED lost
  <2>1. /\ lane' \in [Lane -> LaneRun] /\ lane'[l] = next
        /\ \A m \in Lane \ {l} : lane'[m] = lane[m]
    BY <1>3, <1>7 DEF Types
  <2>2. HandsOn(l)
    BY <1>4, <1>5, <2>1 DEF HandsOn
  <2> QED  BY <1>5, <1>7, <2>1, <2>2 DEF Types
<1>8. ASSUME NEW m \in Lane, Free(m), lost < MaxLost, lost' = lost + 1,
             lane' = [lane EXCEPT ![l] = next, ![m] = again]
      PROVE  /\ lane' \in [Lane -> LaneRun] /\ HandsOn(l)
             /\ lost' \in 0 .. MaxLost /\ lost' # 0
  <2>1. m # l /\ lane[m].at = "idle"
    BY <1>1, <1>8 DEF Free
  <2>2. /\ lane' \in [Lane -> LaneRun] /\ lane'[l] = next /\ lane'[m] = again
        /\ \A k \in Lane \ {l, m} : lane'[k] = lane[k]
    BY <1>3, <1>8, <2>1 DEF Types
  <2>3. lost' \in 0 .. MaxLost /\ lost' # 0
    BY <1>1, <1>8, GradingAssumption
  <2>4. HandsOn(l)
    BY <1>4, <1>5, <2>1, <2>2, <2>3 DEF HandsOn
  <2> QED  BY <2>2, <2>3, <2>4
<1> QED  BY <1>5, <1>6, <1>7, <1>8

(* Whatever stalls, nothing that was stored is changed. *)
Stalled ==
    /\ UNCHANGED <<audio_segments, result, outputs, storage>>
    /\ \A m \in Lane :
        \/ lane'[m] = lane[m]
        \/ lane[m].at \in JobTask /\ lane[m].pc # "failed" /\ Stalls(lane[m], lane'[m])
    /\ \A m \in Lane, c \in CRITERIA :
        \/ member'[m][c] = member[m][c]
        \/ member'[m][c].pc \in {"queued", "failed"} /\ member[m][c].pc = "loaded"
    /\ lost' = 0 => lost = 0

(* One lane that stalls keeps the types and leaves the others.             *)
LEMMA OneLaneStalls ==
    ASSUME Types, NEW l \in Lane, NEW run \in LaneRun, Stalls(lane[l], run),
           lane[l].at \in JobTask, lane[l].pc # "failed",
           lane' = [lane EXCEPT ![l] = run]
    PROVE  /\ lane' \in [Lane -> LaneRun]
           /\ \A m \in Lane :
                \/ lane'[m] = lane[m]
                \/ lane[m].at \in JobTask /\ lane[m].pc # "failed" /\ Stalls(lane[m], lane'[m])
BY DEF Types

(* So does one member of a chord.                                          *)
LEMMA OneMemberStalls ==
    ASSUME Types, NEW l \in Lane, NEW c \in CRITERIA, NEW run \in MemberRun,
           run.pc \in {"queued", "failed"}, MemberRunning(l, c),
           member' = [member EXCEPT ![l][c] = run]
    PROVE  /\ member' \in [Lane -> [CRITERIA -> MemberRun]]
           /\ \A m \in Lane, d \in CRITERIA :
                \/ member'[m][d] = member[m][d]
                \/ member'[m][d].pc \in {"queued", "failed"} /\ member[m][d].pc = "loaded"
<1>1. member \in [Lane -> [CRITERIA -> MemberRun]] /\ member[l][c].pc = "loaded"
  BY DEF Types, MemberRunning
<1>2. \A m \in Lane, d \in CRITERIA :
        member'[m][d] = IF m = l /\ d = c THEN run ELSE member[m][d]
  BY <1>1
<1>3. member' \in [Lane -> [CRITERIA -> MemberRun]]
  BY <1>1
<1> QED  BY <1>1, <1>2, <1>3

(* Counting a failure keeps the bound, losing a worker its own. *)
LEMMA MishapTypes ==
    ASSUME Types
    PROVE  /\ \A forced \in BOOLEAN : Counts(forced) => faults' \in 0 .. MaxFaults
           /\ lost < MaxLost /\ lost' = lost + 1 => lost' \in 0 .. MaxLost /\ lost' # 0
<1>1. lost \in Nat /\ faults \in Nat /\ faults <= MaxFaults
  BY DEF Types
<1>2. lost < MaxLost /\ lost' = lost + 1 => lost' \in 0 .. MaxLost /\ lost' # 0
  BY <1>1, GradingAssumption
<1>3. ASSUME NEW forced \in BOOLEAN, Counts(forced)
      PROVE  faults' \in 0 .. MaxFaults
  <2>1. faults' = faults \/ (faults < MaxFaults /\ faults' = faults + 1)
    BY <1>3 DEF Counts
  <2> QED  BY <1>1, <2>1, GradingAssumption
<1> QED  BY <1>2, <1>3

(* Failures, time limits and lost workers only stall.                      *)
LEMMA StallEffect ==
    ASSUME Types, NEW l \in Lane,
           \/ WorkerLost(l) \/ TimeLimit(l) \/ BeginRaises(l) \/ Fail(l)
           \/ \E c \in CRITERIA : FailMember(l, c)
    PROVE  Types' /\ Stalled
<1> USE DEF Types, outputs, storage, jobs
<1>0. lane[l] \in LaneRun /\ \A c \in CRITERIA : member[l][c] \in MemberRun
  OBVIOUS
<1>1. CASE WorkerLost(l)
  <2>1. /\ UNCHANGED <<audio_segments, jobs, outputs, storage, faults>>
        /\ lost' \in 0 .. MaxLost /\ lost' # 0
    BY <1>1, MishapTypes DEF WorkerLost
  <2>2. CASE Running(l) /\ lane' = [lane EXCEPT ![l] = Requeued(@)] /\ UNCHANGED member
    <3>1. lane[l].at \in JobTask /\ lane[l].pc # "failed"
      BY <2>2 DEF Running
    <3>2. lane' = [lane EXCEPT ![l] = Requeued(lane[l])]
      BY <2>2
    <3>3. Requeued(lane[l]) \in LaneRun /\ Stalls(lane[l], Requeued(lane[l]))
      BY <1>0, LaneStalls
    <3> QED  BY <2>1, <2>2, <3>1, <3>2, <3>3, OneLaneStalls DEF Stalled
  <2>3. ASSUME NEW c \in CRITERIA, MemberRunning(l, c), UNCHANGED lane,
               member' = [member EXCEPT ![l][c] = Requeued(@)]
        PROVE  Types' /\ Stalled
    <3>1. member' = [member EXCEPT ![l][c] = Requeued(member[l][c])]
      BY <2>3
    <3>2. Requeued(member[l][c]) \in MemberRun /\ Requeued(member[l][c]).pc = "queued"
      BY <1>0, MemberStalls
    <3> QED  BY <2>1, <2>3, <3>1, <3>2, OneMemberStalls DEF Stalled
  <2> QED  BY <1>1, <2>2, <2>3 DEF WorkerLost
<1>2. CASE TimeLimit(l)
  <2>1. /\ UNCHANGED <<audio_segments, jobs, outputs, storage, lost>>
        /\ faults' \in 0 .. MaxFaults
    BY <1>2, MishapTypes DEF TimeLimit
  <2>2. CASE Running(l) /\ lane' = [lane EXCEPT ![l] = GivenUp(@)] /\ UNCHANGED member
    <3>1. lane[l].at \in JobTask /\ lane[l].pc # "failed"
      BY <2>2 DEF Running
    <3>2. lane' = [lane EXCEPT ![l] = GivenUp(lane[l])]
      BY <2>2
    <3>3. GivenUp(lane[l]) \in LaneRun /\ Stalls(lane[l], GivenUp(lane[l]))
      BY <1>0, LaneStalls
    <3> QED  BY <2>1, <2>2, <3>1, <3>2, <3>3, OneLaneStalls DEF Stalled
  <2>3. ASSUME NEW c \in CRITERIA, MemberRunning(l, c), UNCHANGED lane,
               member' = [member EXCEPT ![l][c] = GivenUp(@)]
        PROVE  Types' /\ Stalled
    <3>1. member' = [member EXCEPT ![l][c] = GivenUp(member[l][c])]
      BY <2>3
    <3>2. GivenUp(member[l][c]) \in MemberRun /\ GivenUp(member[l][c]).pc = "failed"
      BY <1>0, MemberStalls
    <3> QED  BY <2>1, <2>3, <3>1, <3>2, OneMemberStalls DEF Stalled
  <2> QED  BY <1>2, <2>2, <2>3 DEF TimeLimit
<1>3. CASE BeginRaises(l)
  <2>1. /\ UNCHANGED <<audio_segments, jobs, outputs, storage, member, lost>>
        /\ faults' \in 0 .. MaxFaults
    BY <1>3, MishapTypes DEF BeginRaises
  <2>2. /\ lane[l].at \in JobTask /\ lane[l].pc # "failed"
        /\ lane' = [lane EXCEPT ![l] = GivenUp(lane[l])]
    BY <1>3 DEF BeginRaises
  <2>3. GivenUp(lane[l]) \in LaneRun /\ Stalls(lane[l], GivenUp(lane[l]))
    BY <1>0, LaneStalls
  <2> QED  BY <2>1, <2>2, <2>3, OneLaneStalls DEF Stalled
<1>4. CASE Fail(l)
  <2>1. UNCHANGED <<audio_segments, outputs, storage, member, lost, result>>
    BY <1>4 DEF Fail, mark_failed
  <2>2. /\ lane[l].at \in JobTask /\ lane[l].pc # "failed"
        /\ lane' = [lane EXCEPT ![l] = Retried(lane[l])]
    BY <1>4 DEF Fail, Running
  <2>3. status' \in [JobTask -> {"none", "RUNNING", "SUCCEEDED", "FAILED"}]
    BY <1>4, <2>2 DEF Fail, mark_failed
  <2>4. Retried(lane[l]) \in LaneRun /\ Stalls(lane[l], Retried(lane[l]))
    BY <1>0, LaneStalls
  <2>5. faults' \in 0 .. MaxFaults
    <3>1. Forced(l) \in BOOLEAN
      BY DEF Forced, Doing, Conflicts
    <3> QED  BY <1>4, <3>1, MishapTypes DEF Fail
  <2> QED  BY <2>1, <2>2, <2>3, <2>4, <2>5, OneLaneStalls DEF Stalled
<1>5. ASSUME NEW c \in CRITERIA, FailMember(l, c)
      PROVE  Types' /\ Stalled
  <2>1. /\ UNCHANGED <<audio_segments, jobs, outputs, storage, lane, lost>>
        /\ MemberRunning(l, c)
        /\ member' = [member EXCEPT ![l][c] = Retried(member[l][c])]
    BY <1>5 DEF FailMember
  <2>2. Retried(member[l][c]) \in MemberRun /\ Retried(member[l][c]).pc \in {"queued", "failed"}
    BY <1>0, MemberStalls
  <2>3. faults' \in 0 .. MaxFaults
    <3>1. ForcedMember(l, c) \in BOOLEAN
      BY DEF ForcedMember
    <3> QED  BY <1>5, <3>1, MishapTypes DEF FailMember
  <2> QED  BY <2>1, <2>2, <2>3, OneMemberStalls DEF Stalled
<1> QED  BY <1>1, <1>2, <1>3, <1>4, <1>5

(* The operator opens lane l for a task that has failed, or for a callback *)
(* that never came.                                                        *)
Opened(l) ==
    /\ UNCHANGED <<audio_segments, jobs, outputs, storage, mishaps>>
    /\ lane[l].at = "idle" \/ (lane[l].at = "done" /\ lane[l].solo)
    /\ lane'[l].pc = "queued" /\ lane'[l].solo /\ lane'[l].counted = {}
    /\ \E k \in Lane :
        \/ lane[k].at = lane'[l].at /\ lane[k].at \in JobTask /\ lane[k].pc = "failed"
        \/ lane[k].at = "features" /\ lane'[l].at = "features"
        \/ lane[k].at = "features" /\ lane'[l].at = "synthesize_band_scores" /\ AllVectors
    /\ \A m \in Lane \ {l} : lane'[m] = lane[m]
    /\ \A m \in Lane, c \in CRITERIA :
        \/ member'[m][c] = member[m][c]
        \/ member'[m][c] = QueuedMember /\ \E k \in Lane : lane[k].at = "features"

(* All that the operator does is to open a lane.                           *)
LEMMA OperatorEffect ==
    ASSUME Types, NEW l \in Lane, Operator(l)
    PROVE  Types' /\ Opened(l)
<1> USE DEF Types, outputs, storage, jobs, mishaps
<1>1. ASSUME NEW t \in JobTask, Rerun(l, t)
      PROVE  Types' /\ Opened(l)
  <2>1. Queued(t, TRUE) \in LaneRun
    BY QueuedType, Stages
  <2>2. /\ lane' = [lane EXCEPT ![l] = Queued(t, TRUE)] /\ lane[l].at = "idle"
        /\ \E m \in Lane : lane[m].at = t /\ lane[m].pc = "failed"
        /\ UNCHANGED <<audio_segments, jobs, outputs, storage, member, mishaps>>
    BY <1>1 DEF Rerun, Free
  <2>3. lane'[l].at = t /\ lane'[l].pc = "queued" /\ lane'[l].solo /\ lane'[l].counted = {}
    BY <2>2 DEF Queued
  <2> QED  BY <2>1, <2>2, <2>3 DEF Opened
<1>2. ASSUME NEW c \in CRITERIA, RerunMember(l, c)
      PROVE  Types' /\ Opened(l)
  <2>1. Queued("features", TRUE) \in LaneRun
    BY QueuedType, Stages
  <2>2. /\ lane' = [lane EXCEPT ![l] = Queued("features", TRUE)] /\ lane[l].at = "idle"
        /\ member' = [member EXCEPT ![l][c] = QueuedMember]
        /\ \E m \in Lane : lane[m].at = "features"
        /\ UNCHANGED <<audio_segments, jobs, outputs, storage, mishaps>>
    BY <1>2 DEF RerunMember, Free
  <2>3. /\ lane'[l].at = "features" /\ lane'[l].pc = "queued" /\ lane'[l].solo
        /\ lane'[l].counted = {}
    BY <2>2 DEF Queued
  <2>4. Types'
    BY <2>1, <2>2, MemberMessages
  <2> QED  BY <2>2, <2>3, <2>4 DEF Opened
<1>3. CASE RunCallback(l)
  <2>1. Queued("synthesize_band_scores", TRUE) \in LaneRun
    BY QueuedType, Stages DEF JobTask
  <2>2. /\ lane' = [lane EXCEPT ![l] = Queued("synthesize_band_scores", TRUE)]
        /\ lane[l].at = "idle" \/ (lane[l].at = "done" /\ lane[l].solo)
        /\ \E m \in Lane : lane[m].at = "features"
        /\ AllVectors
        /\ UNCHANGED <<audio_segments, jobs, outputs, storage, member, mishaps>>
    BY <1>3 DEF RunCallback, AllVectors
  <2>3. /\ lane'[l].at = "synthesize_band_scores" /\ lane'[l].pc = "queued"
        /\ lane'[l].solo /\ lane'[l].counted = {}
    BY <2>2 DEF Queued
  <2> QED  BY <2>1, <2>2, <2>3 DEF Opened
<1> QED  BY <1>1, <1>2, <1>3 DEF Operator

----------------------------------------------------------------------------
(* The types, task by task *)

(* The fields that a task fills in of what it has got. *)
LEMMA GotTypes ==
    ASSUME NEW got \in Got
    PROVE  /\ \A turns \in SUBSET Segment : [got EXCEPT !.turns = turns] \in Got
           /\ \A takes \in SUBSET Take : [got EXCEPT !.takes = takes] \in Got
           /\ \A rows \in SUBSET Word : [got EXCEPT !.rows = rows] \in Got
           /\ \A takes \in SUBSET Take, vectors \in Vectors :
                [got EXCEPT !.vectors = vectors, !.takes = takes] \in Got
BY DEF Got

(* What lane l has got is well typed. *)
LEMMA LaneGot ==
    ASSUME Types, NEW l \in Lane
    PROVE  lane[l].got \in Got /\ lane[l].solo \in BOOLEAN /\ lane[l].at \in Stage
BY DEF Types, LaneRun

(* Rows are Words of takes that are Takes. *)
LEMMA RowTypes ==
    ASSUME Types
    PROVE  /\ Takes(transcripts) \in SUBSET Take
           /\ \A take \in Take : WordsOf(take) \in SUBSET Word
<1>1. Takes(transcripts) \in SUBSET Take
  BY DEF Types, Takes, Word
<1>2. ASSUME NEW take \in Take
      PROVE  WordsOf(take) \in SUBSET Word
  <2>1. ASSUME NEW s \in take.turns
        PROVE  WordsIn(take, s) \subseteq Word
    <3>1. s \in Segment /\ Found[take.heard][s] \in Nat
      BY GradingAssumption DEF Take
    <3>2. \A i \in 1 .. Found[take.heard][s] : <<s, i>> \in Segment \X Nat
      BY <3>1
    <3> QED  BY <3>2 DEF WordsIn, Word
  <2> QED  BY <2>1 DEF WordsOf
<1> QED  BY <1>1, <1>2

(* The status rows keep their type. *)
LEMMA StatusTypes ==
    ASSUME Types, NEW t \in JobTask, mark_running(t) \/ mark_succeeded(t)
    PROVE  status' \in [JobTask -> {"none", "RUNNING", "SUCCEEDED", "FAILED"}]
BY DEF Types, mark_running, mark_succeeded

(* grade_exam_session hands on.                                            *)
LEMMA RootTypes ==
    ASSUME Types, NEW l \in Lane, grade_exam_session(l)
    PROVE  Types' /\ HandsOn(l) /\ (lost' = 0 => lost = 0)
<1>1. lane[l].at \in DOMAIN Successor /\ Return(l)
  BY Stages DEF grade_exam_session, Doing, Successor
<1>2. UNCHANGED <<audio_segments, jobs, outputs, storage, faults>>
  BY DEF grade_exam_session
<1> QED  BY <1>1, <1>2, ReturnEffect DEF Types, jobs, outputs, storage

(* The steps of finalize_media.                                            *)
LEMMA FinalizeTypes ==
    ASSUME Types, NEW l \in Lane
    PROVE  /\ FinalizeBegin(l) =>
               Types' /\ Moves(l, "begun", [Nothing EXCEPT !.turns = audio_segments])
           /\ FinalizeFetch(l) => Types' /\ Moves(l, "fetched", lane[l].got)
           /\ FinalizeStitch(l) => Types' /\ Moves(l, "written", lane[l].got)
           /\ FinalizeFinish(l) => Types' /\ HandsOn(l) /\ (lost' = 0 => lost = 0)
<1> USE DEF outputs, storage, jobs, mishaps
<1>1. ASSUME FinalizeBegin(l)
      PROVE  Types' /\ Moves(l, "begun", [Nothing EXCEPT !.turns = audio_segments])
  <2>1. [Nothing EXCEPT !.turns = audio_segments] \in Got
    BY NothingType, GotTypes DEF Types
  <2>2. status' \in [JobTask -> {"none", "RUNNING", "SUCCEEDED", "FAILED"}]
    BY <1>1, StatusTypes DEF FinalizeBegin, JobTask
  <2>3. lane' \in [Lane -> LaneRun] /\ Moves(l, "begun", [Nothing EXCEPT !.turns = audio_segments])
    BY <1>1, <2>1, StepEffect DEF FinalizeBegin, Pc
  <2> QED  BY <1>1, <2>2, <2>3 DEF FinalizeBegin, mark_running, Types
<1>2. ASSUME FinalizeStitch(l)
      PROVE  Types' /\ Moves(l, "written", lane[l].got)
  <2>1. lane' \in [Lane -> LaneRun] /\ Moves(l, "written", lane[l].got)
    BY <1>2, LaneGot, StepEffect DEF FinalizeStitch, Pc
  <2>2. canonical' \in SUBSET Segment
    BY <1>2, LaneGot DEF FinalizeStitch, Got
  <2> QED  BY <1>2, <2>1, <2>2 DEF FinalizeStitch, Types
<1>4. ASSUME FinalizeFetch(l)
      PROVE  Types' /\ Moves(l, "fetched", lane[l].got)
  <2>1. lane' \in [Lane -> LaneRun] /\ Moves(l, "fetched", lane[l].got)
    BY <1>4, LaneGot, StepEffect DEF FinalizeFetch, Pc
  <2> QED  BY <1>4, <2>1 DEF FinalizeFetch, Types
<1>3. ASSUME FinalizeFinish(l)
      PROVE  Types' /\ HandsOn(l) /\ (lost' = 0 => lost = 0)
  <2>1. lane[l].at \in DOMAIN Successor /\ Return(l)
    BY <1>3, Stages DEF FinalizeFinish, Doing, JobTask
  <2>2. status' \in [JobTask -> {"none", "RUNNING", "SUCCEEDED", "FAILED"}]
    BY <1>3, StatusTypes DEF FinalizeFinish, JobTask
  <2>3. result' \in SUBSET Segment
    BY <1>3, LaneGot DEF FinalizeFinish, Got
  <2>4. UNCHANGED <<audio_segments, outputs, storage, faults>>
    BY <1>3 DEF FinalizeFinish
  <2> QED  BY <2>1, <2>2, <2>3, <2>4, ReturnEffect DEF Types
<1> QED  BY <1>1, <1>2, <1>3, <1>4

(* Lane l fetches the take that heard what is given. *)
Fetches(l, heard) ==
    /\ TakeOf(l, heard) \in Take
    /\ Moves(l, "fetched", [lane[l].got EXCEPT !.takes = {TakeOf(l, heard)}])

(* The steps of transcribe_full_session.                                   *)
LEMMA TranscribeTypes ==
    ASSUME Types, NEW l \in Lane
    PROVE  /\ TranscribeBegin(l) =>
               Types' /\ Moves(l, "begun", [Nothing EXCEPT !.turns = result])
           /\ TranscribeFetch(l) => Types' /\ \E heard \in Hearing : Fetches(l, heard)
           /\ TranscribeDelete(l) =>
               Types' /\ Moves(l, "deleted", [lane[l].got EXCEPT !.rows = transcripts])
           /\ TranscribeCommit(l) => Types' /\ Moves(l, "written", Nothing)
           /\ TranscribeFinish(l) => Types' /\ HandsOn(l) /\ (lost' = 0 => lost = 0)
<1> USE DEF outputs, storage, jobs, mishaps
<1>0. lane[l].got \in Got
  BY LaneGot
<1>1. ASSUME TranscribeBegin(l)
      PROVE  Types' /\ Moves(l, "begun", [Nothing EXCEPT !.turns = result])
  <2>1. [Nothing EXCEPT !.turns = result] \in Got
    BY NothingType, GotTypes DEF Types
  <2>2. status' \in [JobTask -> {"none", "RUNNING", "SUCCEEDED", "FAILED"}]
    BY <1>1, StatusTypes DEF TranscribeBegin, JobTask
  <2>3. lane' \in [Lane -> LaneRun] /\ Moves(l, "begun", [Nothing EXCEPT !.turns = result])
    BY <1>1, <2>1, StepEffect DEF TranscribeBegin, Pc
  <2> QED  BY <1>1, <2>2, <2>3 DEF TranscribeBegin, mark_running, Types
<1>2. ASSUME TranscribeFetch(l)
      PROVE  Types' /\ \E heard \in Hearing : Fetches(l, heard)
  <2>1. PICK heard \in Hearing :
          Step(l, "fetched", [lane[l].got EXCEPT !.takes = {TakeOf(l, heard)}])
    BY <1>2 DEF TranscribeFetch
  <2>2. TakeOf(l, heard) \in Take
    BY <1>0 DEF Got, Types, TakeOf, Take
  <2> DEFINE got == [lane[l].got EXCEPT !.takes = {TakeOf(l, heard)}]
  <2>3. got \in Got
    BY <1>0, <2>2, GotTypes
  <2>4. Step(l, "fetched", got)
    BY <2>1
  <2> HIDE DEF got
  <2>5. lane' \in [Lane -> LaneRun] /\ Moves(l, "fetched", got)
    BY <2>3, <2>4, StepEffect DEF Pc
  <2>6. Fetches(l, heard)
    BY <2>2, <2>5 DEF Fetches, got
  <2> QED  BY <1>2, <2>5, <2>6 DEF TranscribeFetch, Types
<1>3. ASSUME TranscribeDelete(l)
      PROVE  Types' /\ Moves(l, "deleted", [lane[l].got EXCEPT !.rows = transcripts])
  <2> DEFINE got == [lane[l].got EXCEPT !.rows = transcripts]
  <2>1. got \in Got
    BY <1>0, GotTypes DEF Types
  <2>2. Step(l, "deleted", got)
    BY <1>3 DEF TranscribeDelete
  <2> HIDE DEF got
  <2>3. lane' \in [Lane -> LaneRun] /\ Moves(l, "deleted", got)
    BY <2>1, <2>2, StepEffect DEF Pc
  <2> QED  BY <1>3, <2>3 DEF TranscribeDelete, Types, got
<1>4. ASSUME TranscribeCommit(l)
      PROVE  Types' /\ Moves(l, "written", Nothing)
  <2>1. lane' \in [Lane -> LaneRun] /\ Moves(l, "written", Nothing)
    BY <1>4, NothingType, StepEffect DEF TranscribeCommit, Pc
  <2>2. transcripts' \in SUBSET Word
    <3>1. NewRows(l) \subseteq Word
      BY <1>0, RowTypes DEF NewRows, Got
    <3> QED  BY <1>4, <3>1 DEF TranscribeCommit, LeftRows, Types
  <2> QED  BY <1>4, <2>1, <2>2 DEF TranscribeCommit, Types
<1>5. ASSUME TranscribeFinish(l)
      PROVE  Types' /\ HandsOn(l) /\ (lost' = 0 => lost = 0)
  <2>1. lane[l].at \in DOMAIN Successor /\ Return(l)
    BY <1>5, Stages DEF TranscribeFinish, Doing, JobTask
  <2>2. status' \in [JobTask -> {"none", "RUNNING", "SUCCEEDED", "FAILED"}]
    BY <1>5, StatusTypes DEF TranscribeFinish, JobTask
  <2>3. UNCHANGED <<audio_segments, outputs, storage, faults, result>>
    BY <1>5 DEF TranscribeFinish
  <2> QED  BY <2>1, <2>2, <2>3, ReturnEffect DEF Types
<1> QED  BY <1>1, <1>2, <1>3, <1>4, <1>5

(* A vector is written over the one of its criterion, beside the others. *)
LEMMA VectorWritten ==
    ASSUME Types, NEW c \in CRITERIA, NEW takes \in SUBSET Take,
           write_feature_vector(c, takes)
    PROVE  /\ feature_vectors' \in Vectors
           /\ DOMAIN feature_vectors' = DOMAIN feature_vectors \cup {c}
           /\ \A d \in DOMAIN feature_vectors' :
                feature_vectors'[d] = IF d = c THEN takes ELSE feature_vectors[d]
<1>1. PICK D \in SUBSET CRITERIA : feature_vectors \in [D -> SUBSET Take]
  BY DEF Types, Vectors
<1>2. D \cup {c} \in SUBSET CRITERIA /\ feature_vectors' \in [D \cup {c} -> SUBSET Take]
  BY <1>1 DEF write_feature_vector
<1>3. feature_vectors' \in Vectors
  BY <1>2 DEF Vectors
<1> QED  BY <1>3 DEF write_feature_vector

(* One member of lane l's chord changes. *)
MemberMoves(l, c, pc, got) ==
    /\ member'[l][c].pc = pc /\ member'[l][c].got = got
    /\ \A m \in Lane, d \in CRITERIA : m # l \/ d # c => member'[m][d] = member[m][d]

(* MemberStep is such a change.                                            *)
LEMMA MemberStepEffect ==
    ASSUME Types, NEW l \in Lane, NEW c \in CRITERIA, NEW got \in Got,
           NEW pc \in {"queued", "loaded"}, MemberStep(l, c, pc, got)
    PROVE  member' \in [Lane -> [CRITERIA -> MemberRun]] /\ MemberMoves(l, c, pc, got)
<1>1. member \in [Lane -> [CRITERIA -> MemberRun]]
  BY DEF Types
<1> DEFINE run == [member[l][c] EXCEPT !.pc = pc, !.got = got]
<1>2. run \in MemberRun /\ run.pc = pc /\ run.got = got
  <2>1. \A old \in MemberRun :
          LET new == [old EXCEPT !.pc = pc, !.got = got]
          IN  new \in MemberRun /\ new.pc = pc /\ new.got = got
    BY DEF MemberRun
  <2>2. member[l][c] \in MemberRun
    BY <1>1
  <2> QED  BY <2>1, <2>2
<1>3. member' = [member EXCEPT ![l] = [member[l] EXCEPT ![c] = run]]
  BY <1>1 DEF MemberStep
<1> HIDE DEF run
<1>4. member' \in [Lane -> [CRITERIA -> MemberRun]]
  BY <1>1, <1>2, <1>3
<1>5. \A m \in Lane, d \in CRITERIA :
        member'[m][d] = IF m = l /\ d = c THEN run ELSE member[m][d]
  BY <1>1, <1>3
<1> QED  BY <1>2, <1>4, <1>5 DEF MemberMoves

(* Of lane l, Compute counts the member or sends the callback.             *)
CountsOrCalls(l, c) ==
    /\ \A m \in Lane \ {l} : lane'[m] = lane[m]
    /\ \/ lane'[l] = lane[l]
       \/ /\ lane[l].at = "features" /\ lane'[l].at = "features"
          /\ lane'[l].pc = lane[l].pc /\ lane'[l].solo = lane[l].solo
          /\ lane'[l].counted = lane[l].counted \cup {c}
       \/ /\ lane[l].at = "features" /\ lane'[l].at = After(l)
          /\ lane'[l].pc = "queued" /\ lane'[l].solo = lane[l].solo
          /\ lane'[l].counted = {}
          /\ lane[l].solo \/ lane[l].counted \cup {c} = CRITERIA

(* The steps of a member of the chord.                                     *)
LEMMA ChordTypes ==
    ASSUME Types, NEW l \in Lane, NEW c \in CRITERIA
    PROVE  /\ Load(l, c) =>
               /\ Types'
               /\ \E got \in Got : /\ got.takes = Takes(transcripts)
                                   /\ MemberMoves(l, c, "loaded", got)
           /\ Compute(l, c) =>
               /\ Types' /\ CountsOrCalls(l, c) /\ (lost' = 0 => lost = 0)
               /\ member[l][c].got.takes \in SUBSET Take
               /\ member'[l][c].pc \in {"done", "queued"}
               /\ \A m \in Lane, d \in CRITERIA : m # l \/ d # c => member'[m][d] = member[m][d]
<1> USE DEF outputs, storage, jobs, mishaps
<1>0. member[l][c] \in MemberRun /\ member[l][c].got \in Got
  BY DEF Types, MemberRun
<1>1. ASSUME Load(l, c)
      PROVE  /\ Types'
             /\ \E got \in Got : /\ got.takes = Takes(transcripts)
                                 /\ MemberMoves(l, c, "loaded", got)
  <2> DEFINE got == IF c = "pronunciation" THEN _load_scoreable_segments ELSE load_words
  <2>1. load_words \in Got /\ load_words.takes = Takes(transcripts)
    BY NothingType, GotTypes, RowTypes DEF load_words, Got
  <2>2. /\ _load_scoreable_segments \in Got
        /\ _load_scoreable_segments.takes = Takes(transcripts)
    BY <2>1, GotTypes DEF _load_scoreable_segments, Got, Types
  <2>3. got \in Got /\ got.takes = Takes(transcripts) /\ MemberStep(l, c, "loaded", got)
    BY <1>1, <2>1, <2>2 DEF Load
  <2> HIDE DEF got
  <2>4. member' \in [Lane -> [CRITERIA -> MemberRun]] /\ MemberMoves(l, c, "loaded", got)
    BY <2>3, MemberStepEffect
  <2>5. Types'
    BY <1>1, <2>4 DEF Load, Types
  <2> QED  BY <2>3, <2>4, <2>5
<1>2. ASSUME Compute(l, c)
      PROVE  /\ Types' /\ CountsOrCalls(l, c) /\ (lost' = 0 => lost = 0)
             /\ member[l][c].got.takes \in SUBSET Take
             /\ member'[l][c].pc \in {"done", "queued"}
             /\ \A m \in Lane, d \in CRITERIA : m # l \/ d # c => member'[m][d] = member[m][d]
  <2>1. member[l][c].got.takes \in SUBSET Take
    BY <1>0 DEF Got
  <2>2. feature_vectors' \in Vectors
    BY <1>2, <2>1, VectorWritten DEF Compute
  <2>3. /\ member' \in [Lane -> [CRITERIA -> MemberRun]]
        /\ member'[l][c].pc \in {"done", "queued"}
        /\ \A m \in Lane, d \in CRITERIA : m # l \/ d # c => member'[m][d] = member[m][d]
        /\ lost' \in 0 .. MaxLost /\ (lost' = 0 => lost = 0)
    <3>1. CASE member' = [member EXCEPT ![l][c] = Returned] /\ UNCHANGED lost
      <4>1. member \in [Lane -> [CRITERIA -> MemberRun]] /\ lost \in 0 .. MaxLost
        BY DEF Types
      <4>2. Returned \in MemberRun /\ Returned.pc = "done"
        BY MemberMessages DEF Returned
      <4> QED  BY <3>1, <4>1, <4>2
    <3>2. CASE lost < MaxLost /\ lost' = lost + 1 /\ MemberStep(l, c, "queued", Nothing)
      <4>1. member' \in [Lane -> [CRITERIA -> MemberRun]] /\ MemberMoves(l, c, "queued", Nothing)
        BY <3>2, NothingType, MemberStepEffect
      <4>2. lost' \in 0 .. MaxLost /\ lost' # 0
        BY <3>2, MishapTypes
      <4> QED  BY <4>1, <4>2 DEF MemberMoves
    <3> QED  BY <1>2, <3>1, <3>2 DEF Compute
  <2>4. lane' \in [Lane -> LaneRun] /\ CountsOrCalls(l, c)
    <3> DEFINE called == Queued(After(l), lane[l].solo)
               counted == [lane[l] EXCEPT !.counted = lane[l].counted \cup {c}]
    <3>1. lane \in [Lane -> LaneRun]
      BY DEF Types
    <3>2. counted \in LaneRun
      BY <3>1 DEF LaneRun
    <3>3. \/ lane' = [lane EXCEPT ![l] = lane[l]]
          \/ lane[l].at = "features" /\ lane' = [lane EXCEPT ![l] = counted]
          \/ /\ lane[l].at = "features" /\ lane' = [lane EXCEPT ![l] = called]
             /\ lane[l].solo \/ lane[l].counted \cup {c} = CRITERIA
      BY <1>2 DEF Compute, Counted
    <3>4. lane[l].at = "features" => After(l) \in Stage
      BY Stages DEF After, JobTask
    <3>5. lane[l].at = "features" => called \in LaneRun
      BY <3>4, LaneGot, QueuedType
    <3>6. /\ counted.at = lane[l].at /\ counted.pc = lane[l].pc
          /\ counted.solo = lane[l].solo /\ counted.counted = lane[l].counted \cup {c}
          /\ called.at = After(l) /\ called.pc = "queued"
          /\ called.solo = lane[l].solo /\ called.counted = {}
      BY <3>1 DEF Queued, LaneRun
    <3> HIDE DEF called, counted
    <3>7. CASE lane' = [lane EXCEPT ![l] = lane[l]]
      BY <3>1, <3>7 DEF CountsOrCalls
    <3>8. CASE lane[l].at = "features" /\ lane' = [lane EXCEPT ![l] = counted]
      <4>1. lane' \in [Lane -> LaneRun] /\ lane'[l] = counted
        BY <3>1, <3>2, <3>8
      <4>2. \A m \in Lane \ {l} : lane'[m] = lane[m]
        BY <3>1, <3>8
      <4> QED  BY <3>6, <3>8, <4>1, <4>2 DEF CountsOrCalls
    <3>9. CASE /\ lane[l].at = "features" /\ lane' = [lane EXCEPT ![l] = called]
               /\ lane[l].solo \/ lane[l].counted \cup {c} = CRITERIA
      <4>1. lane' \in [Lane -> LaneRun] /\ lane'[l] = called
        BY <3>1, <3>5, <3>9
      <4>2. \A m \in Lane \ {l} : lane'[m] = lane[m]
        BY <3>1, <3>9
      <4> QED  BY <3>6, <3>9, <4>1, <4>2 DEF CountsOrCalls
    <3> QED  BY <3>3, <3>7, <3>8, <3>9
  <2>5. Types'
    BY <1>2, <2>2, <2>3, <2>4 DEF Compute, Types
  <2> QED  BY <2>1, <2>3, <2>4, <2>5
<1> QED  BY <1>1, <1>2

(* The report that lane l's judge gives. *)
ReportOf(l) == [words |-> lane[l].got.takes, vectors |-> lane[l].got.vectors]

(* The steps of synthesize_band_scores.                                    *)
LEMMA SynthesizeTypes ==
    ASSUME Types, NEW l \in Lane
    PROVE  /\ SynthesizeBegin(l) =>
               /\ Types'
               /\ Moves(l, "judged", [Nothing EXCEPT !.vectors = feature_vectors,
                                                     !.takes = Takes(transcripts)])
           /\ write_band_score_report(l) =>
               Types' /\ Moves(l, "written", Nothing)
           /\ SynthesizeFinish(l) => Types' /\ HandsOn(l) /\ (lost' = 0 => lost = 0)
<1> USE DEF outputs, storage, jobs, mishaps
<1>1. ASSUME SynthesizeBegin(l)
      PROVE  /\ Types'
             /\ Moves(l, "judged", [Nothing EXCEPT !.vectors = feature_vectors,
                                                   !.takes = Takes(transcripts)])
  <2> DEFINE got == [Nothing EXCEPT !.vectors = feature_vectors, !.takes = Takes(transcripts)]
  <2>1. got \in Got
    <3>1. feature_vectors \in Vectors
      BY DEF Types
    <3> QED  BY <3>1, NothingType, GotTypes, RowTypes
  <2>2. Step(l, "judged", got)
    BY <1>1 DEF SynthesizeBegin
  <2> HIDE DEF got
  <2>3. lane' \in [Lane -> LaneRun] /\ Moves(l, "judged", got)
    BY <2>1, <2>2, StepEffect DEF Pc
  <2>4. status' \in [JobTask -> {"none", "RUNNING", "SUCCEEDED", "FAILED"}]
    BY <1>1, StatusTypes DEF SynthesizeBegin, JobTask
  <2> QED  BY <1>1, <2>3, <2>4 DEF SynthesizeBegin, mark_running, Types, got
<1>2. ASSUME write_band_score_report(l)
      PROVE  Types' /\ Moves(l, "written", Nothing)
  <2>1. lane' \in [Lane -> LaneRun] /\ Moves(l, "written", Nothing)
    BY <1>2, NothingType, StepEffect DEF write_band_score_report, Pc
  <2>2. ReportOf(l) \in [words : SUBSET Take, vectors : Vectors]
    BY LaneGot DEF Got, ReportOf
  <2>3. band_score_reports' = {ReportOf(l)}
    BY <1>2 DEF write_band_score_report, ReportOf
  <2> QED  BY <1>2, <2>1, <2>2, <2>3 DEF write_band_score_report, Types
<1>3. ASSUME SynthesizeFinish(l)
      PROVE  Types' /\ HandsOn(l) /\ (lost' = 0 => lost = 0)
  <2>1. lane[l].at \in DOMAIN Successor /\ Return(l)
    BY <1>3, Stages DEF SynthesizeFinish, Doing, JobTask
  <2>2. status' \in [JobTask -> {"none", "RUNNING", "SUCCEEDED", "FAILED"}]
    BY <1>3, StatusTypes DEF SynthesizeFinish, JobTask
  <2>3. UNCHANGED <<audio_segments, outputs, storage, faults, result>>
    BY <1>3 DEF SynthesizeFinish
  <2> QED  BY <2>1, <2>2, <2>3, ReturnEffect DEF Types
<1> QED  BY <1>1, <1>2, <1>3

(* The steps of sweep_expired_raw_audio.                                   *)
LEMMA SweepTypes ==
    ASSUME Types, NEW l \in Lane
    PROVE  /\ SweepBegin(l) => Types' /\ Moves(l, "begun", Nothing)
           /\ SweepDelete(l) => Types' /\ Moves(l, "written", Nothing)
           /\ SweepFinish(l) => Types' /\ HandsOn(l) /\ (lost' = 0 => lost = 0)
<1> USE DEF outputs, storage, jobs, mishaps
<1>1. ASSUME SweepBegin(l)
      PROVE  Types' /\ Moves(l, "begun", Nothing)
  <2>1. lane' \in [Lane -> LaneRun] /\ Moves(l, "begun", Nothing)
    BY <1>1, NothingType, StepEffect DEF SweepBegin, Pc
  <2>2. status' \in [JobTask -> {"none", "RUNNING", "SUCCEEDED", "FAILED"}]
    BY <1>1, StatusTypes DEF SweepBegin, JobTask
  <2> QED  BY <1>1, <2>1, <2>2 DEF SweepBegin, mark_running, Types
<1>2. ASSUME SweepDelete(l)
      PROVE  Types' /\ Moves(l, "written", Nothing)
  <2>1. lane' \in [Lane -> LaneRun] /\ Moves(l, "written", Nothing)
    BY <1>2, NothingType, StepEffect DEF SweepDelete, Pc
  <2> QED  BY <1>2, <2>1 DEF SweepDelete, Types
<1>3. ASSUME SweepFinish(l)
      PROVE  Types' /\ HandsOn(l) /\ (lost' = 0 => lost = 0)
  <2>1. lane[l].at \in DOMAIN Successor /\ Return(l)
    BY <1>3, Stages DEF SweepFinish, Doing, JobTask
  <2>2. status' \in [JobTask -> {"none", "RUNNING", "SUCCEEDED", "FAILED"}]
    BY <1>3, StatusTypes DEF SweepFinish, JobTask
  <2>3. UNCHANGED <<audio_segments, outputs, storage, faults, result>>
    BY <1>3 DEF SweepFinish
  <2> QED  BY <2>1, <2>2, <2>3, ReturnEffect DEF Types
<1> QED  BY <1>1, <1>2, <1>3

(* Every step keeps the types. *)
LEMMA NextTypes == Types /\ [Next]_vars => Types'
<1> SUFFICES ASSUME Types, [Next]_vars PROVE Types'
  OBVIOUS
<1>1. ASSUME NEW l \in Lane, LaneWork(l) PROVE Types'
  BY <1>1, RootTypes, FinalizeTypes, TranscribeTypes, ChordTypes, SynthesizeTypes,
     SweepTypes, StallEffect DEF LaneWork
<1>2. ASSUME NEW l \in Lane, Mishap(l) PROVE Types'
  BY <1>2, StallEffect DEF Mishap
<1>3. ASSUME NEW l \in Lane, Operator(l) PROVE Types'
  BY <1>3, OperatorEffect
<1>4. ASSUME NEW s \in Late, LateFlush(s) PROVE Types'
  BY <1>4, GradingAssumption DEF LateFlush, Types, jobs, outputs, work, mishaps
<1>5. CASE UNCHANGED vars
  BY <1>5 DEF vars, jobs, outputs, storage, work, mishaps, Types
<1> QED  BY <1>1, <1>2, <1>3, <1>4, <1>5 DEF Next, Work

(* The types hold at first.                                                *)
LEMMA InitTypes == Init => Types
<1> SUFFICES ASSUME Init PROVE Types
  OBVIOUS
<1>1. lane \in [Lane -> LaneRun]
  <2>1. /\ "root" \in Stage /\ "idle" \in Stage /\ FALSE \in BOOLEAN
    BY Stages
  <2>2. Queued("root", FALSE) \in LaneRun /\ Queued("idle", FALSE) \in LaneRun
    BY <2>1, QueuedType
  <2> QED  BY <2>2 DEF Init
<1>2. member \in [Lane -> [CRITERIA -> MemberRun]]
  BY MemberMessages DEF Init
<1>3. feature_vectors \in Vectors
  <2>1. Nothing.vectors = <<>>
    BY DEF Nothing
  <2> QED  BY <2>1, NothingType DEF Init, Got
<1>4. lost \in 0 .. MaxLost /\ faults \in 0 .. MaxFaults
  BY GradingAssumption DEF Init
<1>5. status \in [JobTask -> {"none", "RUNNING", "SUCCEEDED", "FAILED"}]
  BY DEF Init
<1> QED  BY <1>1, <1>2, <1>3, <1>4, <1>5 DEF Init, Types

(* What Types says of the runs is what TypeOK does, and more. *)
LEMMA TypesImplyTypeOK == Types => TypeOK
<1> SUFFICES ASSUME Types PROVE TypeOK
  OBVIOUS
<1>1. \A v \in Vectors : DOMAIN v \subseteq CRITERIA
  BY DEF Vectors
<1>2. \A run : run.retries \in 0 .. MaxRetries /\ run.got \in Got => RunType(run)
  BY <1>1 DEF Got, RunType
<1>3. \A l \in Lane :
        /\ lane[l].at \in Stage /\ lane[l].solo \in BOOLEAN
        /\ lane[l].counted \subseteq CRITERIA
        /\ lane[l].retries \in 0 .. MaxRetries /\ lane[l].got \in Got
  BY DEF Types, LaneRun
<1>4. \A l \in Lane, c \in CRITERIA :
        member[l][c].retries \in 0 .. MaxRetries /\ member[l][c].got \in Got
  BY DEF Types, MemberRun
<1>5. Cardinality(band_score_reports) <= 1
  <2>1. CASE band_score_reports = {}
    BY <2>1, FS_EmptySet
  <2>2. ASSUME NEW r \in band_score_reports
        PROVE  Cardinality(band_score_reports) <= 1
    <3>1. band_score_reports = {r}
      BY DEF Types
    <3>2. Cardinality({r}) = 1
      BY FS_Singleton
    <3> QED  BY <3>1, <3>2
  <2> QED  BY <2>1, <2>2
<1> QED  BY <1>1, <1>2, <1>3, <1>4, <1>5 DEF Types, TypeOK

----------------------------------------------------------------------------
(* The sweep *)

(* A lane that stays keeps its part while vectors and reports stay.        *)
LEMMA SweepStays ==
    ASSUME SweepInv, NEW m \in Lane, lane'[m] = lane[m],
           DOMAIN feature_vectors \subseteq DOMAIN feature_vectors',
           band_score_reports # {} => band_score_reports' # {}
    PROVE  SweepLane(m)'
BY DEF SweepInv, SweepLane, AllVectors, Doing

(* So does one that stalls. *)
LEMMA SweepStalls ==
    ASSUME SweepInv, Stalled
    PROVE  SweepInv'
<1>1. feature_vectors' = feature_vectors /\ band_score_reports' = band_score_reports
  BY DEF Stalled, outputs
<1>2. ASSUME NEW m \in Lane
      PROVE  SweepLane(m)'
  <2>1. CASE lane'[m] = lane[m]
    BY <1>1, <2>1, SweepStays
  <2>2. CASE Stalls(lane[m], lane'[m])
    BY <1>1, <2>2 DEF SweepInv, SweepLane, AllVectors, Doing, Stalls
  <2> QED  BY <2>1, <2>2 DEF Stalled
<1> QED  BY <1>1, <1>2 DEF SweepInv

(* A lane that is opened is at a stage that another has got to. *)
LEMMA SweepOpened ==
    ASSUME SweepInv, NEW l \in Lane, Opened(l)
    PROVE  SweepInv'
<1>1. feature_vectors' = feature_vectors /\ band_score_reports' = band_score_reports
  BY DEF Opened, outputs
<1>2. \A m \in Lane \ {l} : SweepLane(m)'
  BY <1>1, SweepStays DEF Opened
<1>3. SweepLane(l)'
  <2>1. lane'[l].pc = "queued" /\ lane'[l].counted = {}
    BY DEF Opened
  <2>2. PICK k \in Lane :
          \/ lane[k].at = lane'[l].at /\ lane[k].at \in JobTask /\ lane[k].pc = "failed"
          \/ lane[k].at = "features" /\ lane'[l].at = "features"
          \/ lane[k].at = "features" /\ lane'[l].at = "synthesize_band_scores" /\ AllVectors
    BY DEF Opened
  <2>3. SweepLane(k)
    BY DEF SweepInv
  <2> QED  BY <1>1, <2>1, <2>2, <2>3 DEF SweepLane, AllVectors, Doing
<1> QED  BY <1>1, <1>2, <1>3 DEF SweepInv

(* A lane that hands on to the sweep leaves a report, and none hands on to *)
(* the judge this way; its second delivery is where it was.                *)
LEMMA SweepHandsOn ==
    ASSUME SweepInv, NEW l \in Lane, HandsOn(l), UNCHANGED outputs,
           After(l) # "synthesize_band_scores",
           After(l) = "sweep_expired_raw_audio" => AllVectors /\ band_score_reports # {}
    PROVE  SweepInv'
<1>1. feature_vectors' = feature_vectors /\ band_score_reports' = band_score_reports
  BY DEF outputs
<1>2. SweepLane(l)'
  BY <1>1 DEF HandsOn, SweepLane, AllVectors, Doing
<1>3. ASSUME NEW m \in Lane \ {l}
      PROVE  SweepLane(m)'
  <2>1. CASE lane'[m] = lane[m]
    BY <1>1, <2>1, SweepStays
  <2>2. CASE lane'[m].at = lane[l].at /\ lane'[m].pc = "queued" /\ lane'[m].counted = {}
    <3>1. SweepLane(l)
      BY DEF SweepInv
    <3> QED  BY <1>1, <2>2, <3>1 DEF SweepLane, AllVectors, Doing
  <2> QED  BY <2>1, <2>2 DEF HandsOn
<1> QED  BY <1>1, <1>2, <1>3 DEF SweepInv

(* A lane that moves within its task keeps its part as long as it is not   *)
(* the judge's.                                                            *)
LEMMA SweepMoves ==
    ASSUME SweepInv, NEW l \in Lane, NEW pc, NEW got, Moves(l, pc, got),
           UNCHANGED <<feature_vectors, band_score_reports>>,
           lane[l].at = "synthesize_band_scores" =>
               pc = "judged" /\ got.vectors = feature_vectors
    PROVE  SweepInv'
<1>1. \A m \in Lane \ {l} : SweepLane(m)'
  BY SweepStays DEF Moves
<1>2. SweepLane(l)'
  <2>1. SweepLane(l)
    BY DEF SweepInv
  <2> QED  BY <2>1 DEF SweepLane, AllVectors, Doing, Moves
<1> QED  BY <1>1, <1>2 DEF SweepInv

(* Compute adds a vector before it counts the member that wrote it. *)
LEMMA SweepComputes ==
    ASSUME Types, SweepInv, NEW l \in Lane, NEW c \in CRITERIA, Compute(l, c)
    PROVE  SweepInv'
<1>1. CountsOrCalls(l, c) /\ member[l][c].got.takes \in SUBSET Take
  BY ChordTypes
<1>2. /\ DOMAIN feature_vectors' = DOMAIN feature_vectors \cup {c}
      /\ band_score_reports' = band_score_reports
  BY <1>1, VectorWritten DEF Compute
<1>3. \A m \in Lane \ {l} : SweepLane(m)'
  BY <1>1, <1>2, SweepStays DEF CountsOrCalls
<1>4. SweepLane(l)'
  <2>1. SweepLane(l)
    BY DEF SweepInv
  <2>2. CASE lane'[l] = lane[l]
    BY <1>2, <2>2, SweepStays
  <2>3. CASE lane'[l].at = "features" /\ lane'[l].counted = lane[l].counted \cup {c}
    BY <1>2, <2>1, <2>3 DEF SweepLane, Doing
  <2>4. CASE /\ lane[l].at = "features" /\ lane'[l].at = After(l)
             /\ lane'[l].pc = "queued" /\ lane'[l].counted = {}
             /\ lane[l].solo \/ lane[l].counted \cup {c} = CRITERIA
    <3>1. lane[l].solo => lane'[l].at = "done"
      BY <2>4 DEF After
    <3>2. ~lane[l].solo => lane'[l].at = "synthesize_band_scores"
      BY <2>4, Stages DEF After
    <3>3. ~lane[l].solo => CRITERIA \subseteq DOMAIN feature_vectors'
      BY <1>2, <2>1, <2>4 DEF SweepLane
    <3> QED  BY <2>4, <3>1, <3>2, <3>3 DEF SweepLane, AllVectors, Doing
  <2> QED  BY <1>1, <2>2, <2>3, <2>4 DEF CountsOrCalls
<1> QED  BY <1>2, <1>3, <1>4 DEF SweepInv

(* The judge reports on every criterion, from the vectors it was given. *)
LEMMA SweepReports ==
    ASSUME Types, SweepInv, NEW l \in Lane, write_band_score_report(l)
    PROVE  SweepInv'
<1>1. Moves(l, "written", Nothing)
  BY SynthesizeTypes
<1>2. /\ Doing(l, "synthesize_band_scores", "judged")
      /\ band_score_reports' = {ReportOf(l)} /\ feature_vectors' = feature_vectors
  BY DEF write_band_score_report, ReportOf
<1>3. SweepLane(l)
  BY DEF SweepInv
<1>4. Complete(ReportOf(l))
  BY <1>2, <1>3 DEF SweepLane, Complete, ReportOf
<1>5. \A m \in Lane \ {l} : SweepLane(m)'
  BY <1>1, <1>2, SweepStays DEF Moves
<1>6. SweepLane(l)'
  BY <1>1, <1>2, <1>3 DEF SweepLane, AllVectors, Doing, Moves
<1>7. \A r \in band_score_reports' : Complete(r)
  BY <1>2, <1>4
<1> QED  BY <1>5, <1>6, <1>7 DEF SweepInv

(* At first nothing is computed and no lane is past its chord.             *)
LEMMA SweepInit == Init => SweepInv
BY DEF Init, SweepInv, SweepLane, Queued, Doing

(* Every step keeps what the sweep rests on.                               *)
LEMMA SweepNext ==
    ASSUME Types, SweepInv, [Next]_vars
    PROVE  SweepInv'
<1>1. ASSUME NEW l \in Lane, LaneWork(l)
      PROVE  SweepInv'
  <2>1. CASE grade_exam_session(l) \/ FinalizeFinish(l) \/ TranscribeFinish(l) \/ SweepFinish(l)
    <3>1. HandsOn(l) /\ UNCHANGED outputs
      BY <2>1, RootTypes, FinalizeTypes, TranscribeTypes, SweepTypes
         DEF grade_exam_session, FinalizeFinish, TranscribeFinish, SweepFinish
    <3>2. lane[l].at \in {"root", "finalize_media", "transcribe_full_session",
                          "sweep_expired_raw_audio"}
      BY <2>1 DEF grade_exam_session, FinalizeFinish, TranscribeFinish, SweepFinish, Doing
    <3>3. After(l) \in {"done", "finalize_media", "transcribe_full_session", "features"}
      BY <3>2, Stages DEF After
    <3> QED  BY <3>1, <3>3, SweepHandsOn
  <2>2. CASE SynthesizeFinish(l)
    <3>1. HandsOn(l) /\ UNCHANGED outputs
      BY <2>2, SynthesizeTypes DEF SynthesizeFinish
    <3>2. Doing(l, "synthesize_band_scores", "written") /\ SweepLane(l)
      BY <2>2 DEF SynthesizeFinish, SweepInv
    <3>3. AllVectors /\ band_score_reports # {}
      BY <3>2 DEF SweepLane, Doing
    <3>4. After(l) \in {"done", "sweep_expired_raw_audio"}
      BY <3>2, Stages DEF After, Doing
    <3> QED  BY <3>1, <3>3, <3>4, SweepHandsOn
  <2>3. CASE \/ FinalizeBegin(l) \/ FinalizeFetch(l) \/ FinalizeStitch(l)
             \/ TranscribeBegin(l) \/ TranscribeFetch(l) \/ TranscribeDelete(l)
             \/ TranscribeCommit(l) \/ SweepBegin(l) \/ SweepDelete(l)
    <3>1. \E pc, got : Moves(l, pc, got)
      BY <2>3, FinalizeTypes, TranscribeTypes, SweepTypes DEF Fetches
    <3>2. UNCHANGED <<feature_vectors, band_score_reports>>
      BY <2>3 DEF FinalizeBegin, FinalizeFetch, FinalizeStitch, TranscribeBegin,
                  TranscribeFetch, TranscribeDelete, TranscribeCommit, SweepBegin, SweepDelete, outputs
    <3>3. lane[l].at # "synthesize_band_scores"
      BY <2>3 DEF FinalizeBegin, FinalizeFetch, FinalizeStitch, TranscribeBegin,
                  TranscribeFetch, TranscribeDelete, TranscribeCommit, SweepBegin, SweepDelete, Doing
    <3> QED  BY <3>1, <3>2, <3>3, SweepMoves
  <2>4. CASE SynthesizeBegin(l)
    <3> DEFINE got == [Nothing EXCEPT !.vectors = feature_vectors, !.takes = Takes(transcripts)]
    <3>1. got.vectors = feature_vectors
      BY DEF Nothing
    <3>2. Moves(l, "judged", got)
      BY <2>4, SynthesizeTypes
    <3>3. UNCHANGED <<feature_vectors, band_score_reports>>
      BY <2>4 DEF SynthesizeBegin, outputs
    <3> HIDE DEF got
    <3> QED  BY <3>1, <3>2, <3>3, SweepMoves
  <2>5. CASE write_band_score_report(l)
    BY <2>5, SweepReports
  <2>6. ASSUME NEW c \in CRITERIA, Load(l, c) PROVE SweepInv'
    BY <2>6, SweepStays DEF Load, outputs, SweepInv
  <2>7. ASSUME NEW c \in CRITERIA, Compute(l, c) PROVE SweepInv'
    BY <2>7, SweepComputes
  <2>8. CASE Fail(l) \/ \E c \in CRITERIA : FailMember(l, c)
    BY <2>8, StallEffect, SweepStalls
  <2> QED  BY <1>1, <2>1, <2>2, <2>3, <2>4, <2>5, <2>6, <2>7, <2>8 DEF LaneWork
<1>2. ASSUME NEW l \in Lane, Mishap(l)
      PROVE  SweepInv'
  BY <1>2, StallEffect, SweepStalls DEF Mishap
<1>3. ASSUME NEW l \in Lane, Operator(l)
      PROVE  SweepInv'
  BY <1>3, OperatorEffect, SweepOpened
<1>4. ASSUME NEW s \in Late, LateFlush(s)
      PROVE  SweepInv'
  BY <1>4, SweepStays DEF LateFlush, outputs, work, SweepInv
<1>5. CASE UNCHANGED vars
  BY <1>5, SweepStays DEF vars, outputs, work, SweepInv
<1> QED  BY <1>1, <1>2, <1>3, <1>4, <1>5 DEF Next, Work

----------------------------------------------------------------------------
(* The recordings *)

(* Some turn was stored when grading began. *)
LEMMA SomeStored == Stored # {}
BY GradingAssumption DEF Stored

(* A lane that stays keeps its part while there is a file and a result. *)
LEMMA MediaStays ==
    ASSUME MediaInv, NEW m \in Lane, lane'[m] = lane[m],
           canonical # {} => canonical' # {}, result # {} => result' # {}
    PROVE  MediaLane(m)'
BY DEF MediaInv, MediaLane, Doing

(* So does one that stalls.                                                *)
LEMMA MediaStalls ==
    ASSUME MediaInv, Stalled
    PROVE  MediaInv'
<1>1. UNCHANGED <<audio_segments, result, raw, canonical>>
  BY DEF Stalled, storage
<1>2. ASSUME NEW m \in Lane
      PROVE  MediaLane(m)'
  <2>1. CASE lane'[m] = lane[m]
    BY <1>1, <2>1, MediaStays
  <2>2. CASE Stalls(lane[m], lane'[m])
    BY <1>1, <2>2 DEF MediaInv, MediaLane, Doing, Stalls
  <2> QED  BY <2>1, <2>2 DEF Stalled
<1> QED  BY <1>1, <1>2 DEF MediaInv

(* A lane that is opened is where another has found its media.             *)
LEMMA MediaOpened ==
    ASSUME MediaInv, NEW l \in Lane, Opened(l)
    PROVE  MediaInv'
<1>1. UNCHANGED <<audio_segments, result, raw, canonical>>
  BY DEF Opened, storage, jobs
<1>2. \A m \in Lane \ {l} : MediaLane(m)'
  BY <1>1, MediaStays DEF Opened
<1>3. MediaLane(l)'
  <2>1. lane'[l].pc = "queued"
    BY DEF Opened
  <2>2. PICK k \in Lane : \/ lane[k].at = lane'[l].at
                          \/ lane[k].at \in AfterMedia
    BY DEF Opened, AfterMedia
  <2>3. MediaLane(k)
    BY DEF MediaInv
  <2>4. lane'[l].at \in AfterMedia => lane[k].at \in AfterMedia
    BY <2>2
  <2> QED  BY <1>1, <2>1, <2>3, <2>4 DEF MediaLane, Doing
<1> QED  BY <1>1, <1>2, <1>3 DEF MediaInv

(* A lane that hands on to a stage past finalize_media finds it done.      *)
LEMMA MediaHandsOn ==
    ASSUME MediaInv, NEW l \in Lane, HandsOn(l),
           UNCHANGED <<audio_segments, raw, canonical>>,
           result # {} => result' # {},
           After(l) \in AfterMedia => canonical # {} /\ result' # {}
    PROVE  MediaInv'
<1>1. MediaLane(l)'
  BY DEF HandsOn, MediaLane, Doing
<1>2. ASSUME NEW m \in Lane \ {l}
      PROVE  MediaLane(m)'
  <2>1. CASE lane'[m] = lane[m]
    BY <2>1, MediaStays
  <2>2. CASE lane'[m].at = lane[l].at /\ lane'[m].pc = "queued"
    <3>1. MediaLane(l)
      BY DEF MediaInv
    <3> QED  BY <2>2, <3>1 DEF MediaLane, Doing
  <2> QED  BY <2>1, <2>2 DEF HandsOn
<1> QED  BY <1>1, <1>2 DEF MediaInv

(* A lane that moves within a task other than finalize_media. *)
LEMMA MediaMoves ==
    ASSUME MediaInv, NEW l \in Lane, NEW pc, NEW got, Moves(l, pc, got),
           UNCHANGED <<audio_segments, raw, canonical, result>>,
           lane[l].at # "finalize_media"
    PROVE  MediaInv'
<1>1. \A m \in Lane \ {l} : MediaLane(m)'
  BY MediaStays DEF Moves
<1>2. MediaLane(l)'
  BY DEF MediaInv, MediaLane, Doing, Moves
<1> QED  BY <1>1, <1>2 DEF MediaInv

(* finalize_media reads every stored turn and stitches what it has read. *)
LEMMA MediaFinalizes ==
    ASSUME Types, MediaInv, NEW l \in Lane,
           FinalizeBegin(l) \/ FinalizeFetch(l) \/ FinalizeStitch(l)
    PROVE  MediaInv'
<1>1. CASE FinalizeBegin(l)
  <2>1. UNCHANGED <<audio_segments, raw, canonical, result>>
    BY <1>1 DEF FinalizeBegin, mark_running, storage
  <2> DEFINE got == [Nothing EXCEPT !.turns = audio_segments]
  <2>2. Moves(l, "begun", got) /\ got.turns = audio_segments
    BY <1>1, FinalizeTypes DEF Nothing
  <2> HIDE DEF got
  <2>3. \A m \in Lane \ {l} : MediaLane(m)'
    BY <2>1, <2>2, MediaStays DEF Moves
  <2>4. MediaLane(l)'
    BY <1>1, <2>1, <2>2 DEF MediaInv, MediaLane, Doing, Moves, FinalizeBegin, AfterMedia
  <2> QED  BY <2>1, <2>3, <2>4 DEF MediaInv
<1>2. CASE FinalizeStitch(l)
  <2>1. /\ Doing(l, "finalize_media", "fetched") /\ canonical' = lane[l].got.turns
        /\ UNCHANGED <<audio_segments, raw, result>> /\ Moves(l, "written", lane[l].got)
    BY <1>2, FinalizeTypes DEF FinalizeStitch, jobs
  <2>2. Stored \subseteq canonical' /\ canonical' # {}
    BY <2>1, SomeStored DEF MediaInv, MediaLane, Doing
  <2>3. \A m \in Lane \ {l} : MediaLane(m)'
    BY <2>1, <2>2, MediaStays DEF Moves
  <2>4. MediaLane(l)'
    BY <2>1, <2>2 DEF MediaLane, Doing, Moves, AfterMedia
  <2> QED  BY <2>1, <2>2, <2>3, <2>4 DEF MediaInv
<1>3. CASE FinalizeFetch(l)
  <2>1. /\ Doing(l, "finalize_media", "begun") /\ Moves(l, "fetched", lane[l].got)
        /\ UNCHANGED <<audio_segments, raw, canonical, result>>
    BY <1>3, FinalizeTypes DEF FinalizeFetch, jobs, storage
  <2>2. \A m \in Lane \ {l} : MediaLane(m)'
    BY <2>1, MediaStays DEF Moves
  <2>3. MediaLane(l)'
    BY <2>1 DEF MediaInv, MediaLane, Doing, Moves, AfterMedia
  <2> QED  BY <2>1, <2>2, <2>3 DEF MediaInv
<1> QED  BY <1>1, <1>2, <1>3

(* At first every stored turn is a raw object.                             *)
LEMMA MediaInit == Init => MediaInv
BY DEF Init, MediaInv, MediaLane, Queued, Doing, AfterMedia, Stored

(* Every step keeps the recordings.                                        *)
LEMMA MediaNext ==
    ASSUME Types, MediaInv, [Next]_vars
    PROVE  MediaInv'
<1>1. ASSUME NEW l \in Lane, LaneWork(l)
      PROVE  MediaInv'
  <2>0. MediaLane(l)
    BY DEF MediaInv
  <2>1. CASE grade_exam_session(l) \/ TranscribeFinish(l) \/ SynthesizeFinish(l)
             \/ SweepFinish(l)
    <3>1. HandsOn(l) /\ UNCHANGED <<audio_segments, raw, canonical, result>>
      BY <2>1, RootTypes, TranscribeTypes, SynthesizeTypes, SweepTypes
         DEF grade_exam_session, TranscribeFinish, SynthesizeFinish, SweepFinish, storage, jobs
    <3>2. After(l) \in AfterMedia => lane[l].at \in AfterMedia
      BY <2>1, Stages DEF grade_exam_session, TranscribeFinish, SynthesizeFinish, SweepFinish,
                          Doing, After, AfterMedia
    <3>3. After(l) \in AfterMedia => canonical # {} /\ result' # {}
      BY <2>0, <3>1, <3>2 DEF MediaLane
    <3> QED  BY <3>1, <3>3, MediaHandsOn
  <2>2. CASE FinalizeFinish(l)
    <3>1. HandsOn(l) /\ UNCHANGED <<audio_segments, raw, canonical>>
      BY <2>2, FinalizeTypes DEF FinalizeFinish, storage
    <3>2. Doing(l, "finalize_media", "written") /\ result' = lane[l].got.turns
      BY <2>2 DEF FinalizeFinish
    <3>3. canonical # {} /\ result' # {}
      BY <2>0, <3>2, SomeStored DEF MediaLane, Doing
    <3> QED  BY <3>1, <3>3, MediaHandsOn
  <2>3. CASE \/ TranscribeBegin(l) \/ TranscribeFetch(l) \/ TranscribeDelete(l)
             \/ TranscribeCommit(l) \/ SynthesizeBegin(l) \/ write_band_score_report(l)
             \/ SweepBegin(l)
    <3>1. \E pc, got : Moves(l, pc, got)
      BY <2>3, TranscribeTypes, SynthesizeTypes, SweepTypes DEF Fetches
    <3>2. UNCHANGED <<audio_segments, raw, canonical, result>>
      BY <2>3 DEF TranscribeBegin, TranscribeFetch, TranscribeDelete, TranscribeCommit,
                  SynthesizeBegin, write_band_score_report, SweepBegin, storage, jobs,
                  mark_running
    <3>3. lane[l].at # "finalize_media"
      BY <2>3 DEF TranscribeBegin, TranscribeFetch, TranscribeDelete, TranscribeCommit,
                  SynthesizeBegin, write_band_score_report, SweepBegin, Doing
    <3> QED  BY <3>1, <3>2, <3>3, MediaMoves
  <2>4. CASE FinalizeBegin(l) \/ FinalizeFetch(l) \/ FinalizeStitch(l)
    BY <2>4, MediaFinalizes
  <2>5. CASE SweepDelete(l)
    <3>1. /\ Doing(l, "sweep_expired_raw_audio", "begun") /\ Moves(l, "written", Nothing)
          /\ UNCHANGED <<audio_segments, canonical, result>>
      BY <2>5, SweepTypes DEF SweepDelete, jobs
    <3>2. canonical # {}
      BY <2>0, <3>1 DEF MediaLane, Doing, AfterMedia
    <3>3. \A m \in Lane \ {l} : MediaLane(m)'
      BY <3>1, MediaStays DEF Moves
    <3>4. MediaLane(l)'
      BY <2>0, <3>1 DEF MediaLane, Doing, Moves
    <3> QED  BY <3>1, <3>2, <3>3, <3>4 DEF MediaInv
  <2>6. ASSUME NEW c \in CRITERIA, Load(l, c) PROVE MediaInv'
    BY <2>6, MediaStays DEF Load, storage, jobs, MediaInv
  <2>7. ASSUME NEW c \in CRITERIA, Compute(l, c) PROVE MediaInv'
    <3>1. CountsOrCalls(l, c) /\ UNCHANGED <<audio_segments, raw, canonical, result>>
      BY <2>7, ChordTypes DEF Compute, storage, jobs
    <3>2. \A m \in Lane \ {l} : MediaLane(m)'
      BY <3>1, MediaStays DEF CountsOrCalls
    <3>3. lane'[l] = lane[l] \/ (lane[l].at = "features" /\ lane'[l].at # "finalize_media")
      BY <3>1, Stages DEF CountsOrCalls, After
    <3>4. MediaLane(l)'
      <4>1. CASE lane'[l] = lane[l]
        BY <3>1, <4>1, MediaStays
      <4>2. CASE lane[l].at = "features" /\ lane'[l].at # "finalize_media"
        BY <2>0, <3>1, <4>2 DEF MediaLane, Doing, AfterMedia
      <4> QED  BY <3>3, <4>1, <4>2
    <3> QED  BY <3>1, <3>2, <3>4 DEF MediaInv
  <2>8. CASE Fail(l) \/ \E c \in CRITERIA : FailMember(l, c)
    BY <2>8, StallEffect, MediaStalls
  <2> QED  BY <1>1, <2>1, <2>2, <2>3, <2>4, <2>5, <2>6, <2>7, <2>8 DEF LaneWork
<1>2. ASSUME NEW l \in Lane, Mishap(l)
      PROVE  MediaInv'
  BY <1>2, StallEffect, MediaStalls DEF Mishap
<1>3. ASSUME NEW l \in Lane, Operator(l)
      PROVE  MediaInv'
  BY <1>3, OperatorEffect, MediaOpened
<1>4. ASSUME NEW s \in Late, LateFlush(s)
      PROVE  MediaInv'
  BY <1>4, MediaStays DEF LateFlush, jobs, work, MediaInv
<1>5. CASE UNCHANGED vars
  BY <1>5, MediaStays DEF vars, storage, jobs, work, MediaInv
<1> QED  BY <1>1, <1>2, <1>3, <1>4, <1>5 DEF Next, Work

----------------------------------------------------------------------------
(* The transcript *)

(* A take with a word in a turn has one in the turn's first slot. *)
LEMMA WordsOfTake ==
    ASSUME NEW take \in Take, NEW r \in WordsOf(take)
    PROVE  /\ r.take = take
           /\ [slot |-> <<r.slot[1], 1>>, take |-> take] \in WordsOf(take)
<1>1. PICK s \in take.turns : r \in WordsIn(take, s)
  BY DEF WordsOf
<1>2. PICK i \in 1 .. Found[take.heard][s] : r = [slot |-> <<s, i>>, take |-> take]
  BY <1>1 DEF WordsIn
<1>3. Found[take.heard][s] \in Nat
  BY GradingAssumption DEF Take
<1>4. 1 \in 1 .. Found[take.heard][s]
  BY <1>2, <1>3
<1>5. [slot |-> <<s, 1>>, take |-> take] \in WordsIn(take, s)
  BY <1>4 DEF WordsIn
<1> QED  BY <1>2, <1>5 DEF WordsOf

(* The rows of one take are no other take's. *)
LEMMA TakesOfWords ==
    ASSUME NEW take \in Take
    PROVE  Takes(WordsOf(take)) \subseteq {take}
BY WordsOfTake DEF Takes

(* Two whole turns are the same when they share a row: so a DELETE that    *)
(* leaves a row of a turn leaves all of it.                                *)
LEMMA DeleteLeavesTurns ==
    ASSUME NEW now, NEW seen, WholeTurns(now), WholeTurns(seen),
           now \subseteq Word, seen \subseteq Word
    PROVE  WholeTurns(now \ seen)
<1> SUFFICES ASSUME NEW r \in now \ seen
             PROVE  InTurn(now \ seen, r.slot[1]) = InTurn(WordsOf(r.take), r.slot[1])
  BY DEF WholeTurns
<1> DEFINE s == r.slot[1]
<1>1. InTurn(now, s) = InTurn(WordsOf(r.take), s)
  BY DEF WholeTurns
<1>2. ASSUME NEW q \in InTurn(now, s), q \in seen
      PROVE  FALSE
  <2>1. q \in WordsOf(r.take) /\ q.slot[1] = s
    BY <1>1, <1>2 DEF InTurn
  <2>2. q.take = r.take
    BY <2>1, WordsOfTake DEF Word
  <2>3. InTurn(seen, s) = InTurn(WordsOf(r.take), s)
    BY <1>2, <2>1, <2>2 DEF WholeTurns
  <2>4. r \in InTurn(now, s)
    BY DEF InTurn
  <2> QED  BY <1>1, <2>3, <2>4 DEF InTurn
<1>3. InTurn(now \ seen, s) = InTurn(now, s)
  BY <1>2 DEF InTurn
<1> QED  BY <1>1, <1>3

(* Rows that two sets of whole turns bring into one table: when their      *)
(* slots do not meet, no turn has rows of both.                            *)
LEMMA TurnsApart ==
    ASSUME NEW left, left \subseteq Word, WholeTurns(left),
           NEW take \in Take, Slots(WordsOf(take)) \cap Slots(left) = {}
    PROVE  WholeTurns(left \cup WordsOf(take))
<1> DEFINE all == left \cup WordsOf(take)
<1>1. ASSUME NEW r \in left, NEW n \in WordsOf(take)
      PROVE  r.slot[1] # n.slot[1]
  <2>1. r \in WordsOf(r.take) /\ r.take \in Take
    BY DEF WholeTurns, InTurn, Word
  <2>2. [slot |-> <<r.slot[1], 1>>, take |-> r.take] \in WordsOf(r.take)
    BY <2>1, WordsOfTake
  <2>3. [slot |-> <<r.slot[1], 1>>, take |-> r.take] \in left
    BY <2>2 DEF WholeTurns, InTurn
  <2>4. [slot |-> <<n.slot[1], 1>>, take |-> take] \in WordsOf(take)
    BY WordsOfTake
  <2>5. <<r.slot[1], 1>> \in Slots(left) /\ <<n.slot[1], 1>> \in Slots(WordsOf(take))
    BY <2>3, <2>4 DEF Slots
  <2> QED  BY <2>5
<1>2. ASSUME NEW r \in left
      PROVE  InTurn(all, r.slot[1]) = InTurn(WordsOf(r.take), r.slot[1])
  <2>1. InTurn(all, r.slot[1]) = InTurn(left, r.slot[1])
    BY <1>1 DEF InTurn
  <2> QED  BY <2>1 DEF WholeTurns
<1>3. ASSUME NEW r \in WordsOf(take)
      PROVE  InTurn(all, r.slot[1]) = InTurn(WordsOf(r.take), r.slot[1])
  <2>1. InTurn(all, r.slot[1]) = InTurn(WordsOf(take), r.slot[1])
    BY <1>1 DEF InTurn
  <2> QED  BY <2>1, WordsOfTake
<1> QED  BY <1>2, <1>3 DEF WholeTurns

(* A commit leaves whole turns: of those that the DELETE did not see none  *)
(* is touched, or the inserts collide.                                     *)
LEMMA CommitKeepsTurns ==
    ASSUME Types, TakeInv, NEW l \in Lane, TranscribeCommit(l)
    PROVE  WholeTurns(transcripts')
<1>1. /\ lane[l].at = "transcribe_full_session" /\ lane[l].pc = "deleted"
      /\ ~Conflicts(l) /\ transcripts' = LeftRows(l) \cup NewRows(l)
  BY DEF TranscribeCommit, Doing
<1>2. PICK take \in Take : lane[l].got.takes = {take}
  BY <1>1 DEF TakeInv, TakeLane
<1>3. NewRows(l) = WordsOf(take)
  BY <1>2 DEF NewRows
<1>4. /\ WholeTurns(lane[l].got.rows) /\ WholeTurns(transcripts)
      /\ lane[l].got.rows \subseteq Word /\ transcripts \subseteq Word
  BY <1>1, LaneGot DEF TakeInv, TakeLane, Got, Types
<1>5. WholeTurns(LeftRows(l))
  BY <1>4, DeleteLeavesTurns DEF LeftRows
<1>6. LeftRows(l) \subseteq Word
  BY <1>4 DEF LeftRows
<1>7. Slots(WordsOf(take)) \cap Slots(LeftRows(l)) = {}
  BY <1>1, <1>3 DEF Conflicts
<1>8. WholeTurns(LeftRows(l) \cup WordsOf(take))
  BY <1>5, <1>6, <1>7, TurnsApart
<1> QED  BY <1>1, <1>3, <1>8

(* A lane that stays where it is, waits somewhere or is elsewhere. *)
LEMMA TakeStays ==
    ASSUME TakeInv, NEW m \in Lane,
           \/ lane'[m] = lane[m]
           \/ lane'[m].pc \notin {"fetched", "deleted"}
           \/ lane'[m].at # "transcribe_full_session"
    PROVE  TakeLane(m)'
BY DEF TakeInv, TakeLane

(* Whatever else happens leaves the transcript and fetches nothing. *)
LEMMA TakeFrame ==
    ASSUME TakeInv, transcripts' = transcripts,
           \A m \in Lane : \/ lane'[m] = lane[m]
                          \/ lane'[m].pc \notin {"fetched", "deleted"}
                          \/ lane'[m].at # "transcribe_full_session"
    PROVE  TakeInv'
BY TakeStays DEF TakeInv

(* At first there is no transcript.                                        *)
LEMMA TakeInit == Init => TakeInv
BY DEF Init, TakeInv, TakeLane, WholeTurns, Queued

(* Every step keeps every turn of the transcript one take's.               *)
LEMMA TakeNext ==
    ASSUME Types, TakeInv, [Next]_vars
    PROVE  TakeInv'
<1>1. ASSUME NEW l \in Lane, LaneWork(l)
      PROVE  TakeInv'
  <2>1. CASE grade_exam_session(l) \/ FinalizeFinish(l) \/ TranscribeFinish(l)
             \/ SynthesizeFinish(l) \/ SweepFinish(l)
    <3>1. HandsOn(l) /\ transcripts' = transcripts
      BY <2>1, RootTypes, FinalizeTypes, TranscribeTypes, SynthesizeTypes, SweepTypes
         DEF grade_exam_session, FinalizeFinish, TranscribeFinish, SynthesizeFinish,
             SweepFinish, outputs
    <3>2. \A m \in Lane : lane'[m] = lane[m] \/ lane'[m].pc = "queued"
      BY <3>1 DEF HandsOn
    <3> QED  BY <3>1, <3>2, TakeFrame
  <2>2. CASE \/ FinalizeBegin(l) \/ FinalizeStitch(l) \/ TranscribeBegin(l)
             \/ SynthesizeBegin(l) \/ write_band_score_report(l)
             \/ SweepBegin(l) \/ SweepDelete(l)
    <3>1. \E pc \in {"begun", "written", "judged"} : \E got : Moves(l, pc, got)
      BY <2>2, FinalizeTypes, TranscribeTypes, SynthesizeTypes, SweepTypes
    <3>2. transcripts' = transcripts
      BY <2>2 DEF FinalizeBegin, FinalizeStitch, TranscribeBegin, SynthesizeBegin,
                  write_band_score_report, SweepBegin, SweepDelete, outputs
    <3>3. \A m \in Lane : lane'[m] = lane[m] \/ lane'[m].pc \in {"begun", "written", "judged"}
      BY <3>1 DEF Moves
    <3> QED  BY <3>2, <3>3, TakeFrame
  <2>3. CASE TranscribeFetch(l)
    <3>1. PICK heard \in Hearing : Fetches(l, heard) /\ transcripts' = transcripts
      BY <2>3, TranscribeTypes DEF TranscribeFetch, outputs
    <3> DEFINE got == [lane[l].got EXCEPT !.takes = {TakeOf(l, heard)}]
    <3>2. TakeOf(l, heard) \in Take /\ Moves(l, "fetched", got)
      BY <3>1 DEF Fetches
    <3>3. got.takes = {TakeOf(l, heard)}
      BY LaneGot DEF Got
    <3> HIDE DEF got
    <3>4. TakeLane(l)'
      BY <3>2, <3>3 DEF TakeLane, Moves
    <3> QED  BY <3>1, <3>2, <3>4, TakeStays DEF TakeInv, Moves
  <2>4. CASE TranscribeDelete(l)
    <3> DEFINE got == [lane[l].got EXCEPT !.rows = transcripts]
    <3>1. /\ Moves(l, "deleted", got) /\ transcripts' = transcripts
          /\ lane[l].at = "transcribe_full_session" /\ lane[l].pc = "fetched"
      BY <2>4, TranscribeTypes DEF TranscribeDelete, outputs, Doing
    <3>2. got.rows = transcripts /\ got.takes = lane[l].got.takes
      BY LaneGot DEF Got
    <3> HIDE DEF got
    <3>3. TakeLane(l)'
      BY <3>1, <3>2 DEF TakeInv, TakeLane, Moves
    <3> QED  BY <3>1, <3>3, TakeStays DEF TakeInv, Moves
  <2>5. CASE TranscribeCommit(l)
    <3>1. Moves(l, "written", Nothing)
      BY <2>5, TranscribeTypes
    <3>2. WholeTurns(transcripts)'
      BY <2>5, CommitKeepsTurns DEF WholeTurns
    <3>3. \A m \in Lane : TakeLane(m)'
      BY <3>1, TakeStays DEF Moves
    <3> QED  BY <3>2, <3>3 DEF TakeInv
  <2>9. CASE FinalizeFetch(l)
    <3>1. Moves(l, "fetched", lane[l].got) /\ lane[l].at = "finalize_media"
      BY <2>9, FinalizeTypes DEF FinalizeFetch, Doing
    <3>2. transcripts' = transcripts
      BY <2>9 DEF FinalizeFetch, outputs
    <3>3. \A m \in Lane : lane'[m] = lane[m] \/ lane'[m].at # "transcribe_full_session"
      BY <3>1 DEF Moves
    <3> QED  BY <3>2, <3>3, TakeFrame
  <2>6. ASSUME NEW c \in CRITERIA, Load(l, c) PROVE TakeInv'
    BY <2>6, TakeFrame DEF Load, outputs
  <2>7. ASSUME NEW c \in CRITERIA, Compute(l, c) PROVE TakeInv'
    <3>1. CountsOrCalls(l, c) /\ transcripts' = transcripts
      BY <2>7, ChordTypes DEF Compute
    <3>2. \A m \in Lane : lane'[m] = lane[m] \/ lane'[m].at # "transcribe_full_session"
      BY <3>1, Stages DEF CountsOrCalls, After
    <3> QED  BY <3>1, <3>2, TakeFrame
  <2>8. CASE Fail(l) \/ \E c \in CRITERIA : FailMember(l, c)
    BY <2>8, StallEffect, TakeFrame DEF Stalled, Stalls, outputs
  <2> QED  BY <1>1, <2>1, <2>2, <2>3, <2>4, <2>5,
           <2>6, <2>7, <2>8, <2>9 DEF LaneWork
<1>2. ASSUME NEW l \in Lane, Mishap(l)
      PROVE  TakeInv'
  BY <1>2, StallEffect, TakeFrame DEF Mishap, Stalled, Stalls, outputs
<1>3. ASSUME NEW l \in Lane, Operator(l)
      PROVE  TakeInv'
  BY <1>3, OperatorEffect, TakeFrame DEF Opened, outputs
<1>4. ASSUME NEW s \in Late, LateFlush(s)
      PROVE  TakeInv'
  BY <1>4, TakeFrame DEF LateFlush, outputs, work
<1>5. CASE UNCHANGED vars
  BY <1>5, TakeFrame DEF vars, outputs, work
<1> QED  BY <1>1, <1>2, <1>3, <1>4, <1>5 DEF Next, Work

----------------------------------------------------------------------------
(* A run through the chain while no worker is lost *)

RunParts == RunsApart /\ RootRun /\ Computed

(* Only past the root's transcription is any lane at the chord or later,   *)
(* and only where the root has failed is another at a media task.          *)
LEMMA ApartFacts ==
    ASSUME RunsApart, NEW l \in Lane
    PROVE  /\ lane[l].at \in PastTranscribe \ {"done"} => RootPast
           /\ lane[l].at \in {"finalize_media", "transcribe_full_session"} /\ l # Root =>
               lane[Root].at = lane[l].at /\ lane[Root].pc = "failed"
           /\ l # Root => lane[l].at # "root"
           /\ lane[l].at # "idle" /\ l # Root => lane[l].solo
           /\ ~lane[Root].solo
BY GradingAssumption DEF RunsApart, RootPast

(* What is true of a run from before its transcription was committed. *)
LEMMA RootFrame ==
    ASSUME RootRun, UNCHANGED <<result, canonical, transcripts>>,
           \/ lane'[Root] = lane[Root]
           \/ /\ lane'[Root].at = lane[Root].at
              /\ lane'[Root].pc \notin {"begun", "written", "fetched", "deleted"}
           \/ lane[Root].at \in PastTranscribe /\ lane'[Root].at \in PastTranscribe
    PROVE  RootRun'
<1>1. CASE lane'[Root] = lane[Root]
  BY <1>1 DEF RootRun, Doing, RootPast
<1>2. CASE /\ lane'[Root].at = lane[Root].at
           /\ lane'[Root].pc \notin {"begun", "written", "fetched", "deleted"}
  BY <1>2 DEF RootRun, Doing, RootPast
<1>3. CASE lane[Root].at \in PastTranscribe /\ lane'[Root].at \in PastTranscribe
  BY <1>3 DEF RootRun, Doing, RootPast, PastTranscribe
<1> QED  BY <1>1, <1>2, <1>3

(* Before the root is past its transcription nothing has been computed. *)
LEMMA ComputedFrame ==
    ASSUME Computed, UNCHANGED <<transcripts, feature_vectors, band_score_reports>>,
           \A m \in Lane, c \in CRITERIA :
                \/ member'[m][c] = member[m][c]
                \/ member'[m][c].pc # "loaded" /\ RootPast',
           \A m \in Lane : \/ lane'[m] = lane[m]
                          \/ ~(lane'[m].at = "synthesize_band_scores" /\ lane'[m].pc = "judged"),
           RootPast => RootPast'
    PROVE  Computed'
<1>1. FromTranscript(feature_vectors)' /\ (~RootPast' => band_score_reports' = {}
                                                       /\ DOMAIN feature_vectors' = {})
  BY DEF Computed, FromTranscript
<1>2. \A r \in band_score_reports' : /\ r.words = Takes(transcripts)'
                                     /\ FromTranscript(r.vectors)'
  BY DEF Computed, FromTranscript, Takes
<1>3. ASSUME NEW m \in Lane, NEW c \in CRITERIA
      PROVE  /\ ~RootPast' => member'[m][c].pc = "off"
             /\ member'[m][c].pc = "loaded" => member'[m][c].got.takes = Takes(transcripts)'
  BY DEF Computed, Takes
<1>4. ASSUME NEW m \in Lane, Doing(m, "synthesize_band_scores", "judged")'
      PROVE  lane'[m].got.takes = Takes(transcripts)' /\ FromTranscript(lane[m].got.vectors)'
  <2>1. lane'[m] = lane[m] /\ Doing(m, "synthesize_band_scores", "judged")
    BY <1>4 DEF Doing
  <2> QED  BY <2>1 DEF Computed, FromTranscript, Takes
<1> QED  BY <1>1, <1>2, <1>3, <1>4 DEF Computed

(* While nothing has been computed, the transcript may still change. *)
LEMMA ComputedEmpty ==
    ASSUME RunsApart', Computed, ~RootPast, ~RootPast',
           UNCHANGED <<feature_vectors, band_score_reports, member>>
    PROVE  Computed'
<1>1. \A m \in Lane : lane'[m].at # "synthesize_band_scores"
  BY GradingAssumption DEF RunsApart, PastTranscribe, RootPast
<1>2. /\ band_score_reports' = {} /\ DOMAIN feature_vectors' = {}
      /\ \A m \in Lane, c \in CRITERIA : member'[m][c].pc = "off"
  BY DEF Computed
<1> QED  BY <1>1, <1>2 DEF Computed, FromTranscript, Doing

(* What stalls or fails leaves the three as they are.                      *)
LEMMA RunStalls ==
    ASSUME RunParts, Stalled
    PROVE  RunParts'
<1> USE DEF RunParts
<1>1. UNCHANGED <<result, canonical, transcripts, feature_vectors, band_score_reports>>
  BY DEF Stalled, outputs, storage
<1>2. \A m \in Lane :
        /\ lane'[m].at = lane[m].at /\ lane'[m].solo = lane[m].solo
        /\ lane[m].pc = "failed" => lane'[m].pc = "failed"
        /\ lane'[m] = lane[m] \/ lane'[m].pc \in {"queued", "failed"}
  BY DEF Stalled, Stalls
<1>3. Root \in Lane
  BY GradingAssumption
<1>4. RunsApart'
  BY <1>2, <1>3 DEF RunsApart, RootPast
<1>5. RootRun'
  BY <1>1, <1>2, <1>3, RootFrame
<1>6. RootPast' = RootPast
  BY <1>2, <1>3 DEF RootPast
<1>7. \A m \in Lane, c \in CRITERIA :
        \/ member'[m][c] = member[m][c]
        \/ member'[m][c].pc # "loaded" /\ RootPast
  BY DEF Stalled, Computed
<1>8. Computed'
  BY <1>1, <1>2, <1>6, <1>7, ComputedFrame
<1> QED  BY <1>4, <1>5, <1>8

(* A lane that the operator opens stands beside the root's.                *)
LEMMA RunOpened ==
    ASSUME RunParts, NEW l \in Lane, Opened(l)
    PROVE  RunParts'
<1> USE DEF RunParts
<1>1. /\ UNCHANGED <<result, canonical, transcripts, feature_vectors, band_score_reports>>
      /\ \A m \in Lane \ {l} : lane'[m] = lane[m]
  BY DEF Opened, outputs, storage, jobs
<1>2. l # Root /\ Root \in Lane
  BY GradingAssumption DEF Opened, RunsApart
<1>3. lane'[Root] = lane[Root]
  BY <1>1, <1>2
<1>4. PICK k \in Lane :
        \/ lane[k].at = lane'[l].at /\ lane[k].at \in JobTask /\ lane[k].pc = "failed"
        \/ lane[k].at = "features" /\ lane'[l].at = "features"
        \/ lane[k].at = "features" /\ lane'[l].at = "synthesize_band_scores" /\ AllVectors
  BY DEF Opened
<1>5. lane'[l].at \in {"finalize_media", "transcribe_full_session"} =>
        lane[Root].at = lane'[l].at /\ lane[Root].pc = "failed"
  BY <1>4, ApartFacts
<1>6. lane'[l].at \in PastTranscribe \ {"done"} => RootPast
  BY <1>4, ApartFacts DEF PastTranscribe
<1>7. lane'[l].at # "root" /\ lane'[l].solo /\ lane'[l].pc = "queued"
  BY <1>4 DEF Opened, JobTask
<1>8. RunsApart'
  BY <1>1, <1>2, <1>3, <1>5, <1>6, <1>7 DEF RunsApart, RootPast
<1>9. RootRun'
  BY <1>1, <1>3, RootFrame
<1>10. RootPast' = RootPast
  BY <1>3 DEF RootPast
<1>11. \A m \in Lane, c \in CRITERIA :
         \/ member'[m][c] = member[m][c]
         \/ member'[m][c].pc # "loaded" /\ RootPast
  BY ApartFacts DEF Opened, QueuedMember, PastTranscribe
<1>12. Computed'
  BY <1>1, <1>7, <1>10, <1>11, ComputedFrame
<1> QED  BY <1>8, <1>9, <1>12

(* A lane beside the root's is done when its task returns; the root's goes *)
(* on, and then no other lane is at a media task.                          *)
LEMMA ApartHandsOn ==
    ASSUME RunsApart, NEW l \in Lane, HandsOn(l), lost' = 0,
           lane[l].at \in DOMAIN Successor, lane[l].pc # "failed"
    PROVE  /\ RunsApart'
           /\ \A m \in Lane \ {l} : lane'[m] = lane[m]
           /\ l # Root => lane'[l].at = "done"
           /\ l = Root => lane'[l].at = Successor[lane[l].at]
           /\ RootPast => RootPast'
<1>1. \A m \in Lane \ {l} : lane'[m] = lane[m]
  BY DEF HandsOn
<1>2. lane'[l].at = After(l) /\ lane'[l].solo = lane[l].solo /\ Root \in Lane
  BY GradingAssumption DEF HandsOn
<1>3. CASE l # Root
  <2>1. lane[l].solo
    BY <1>3, ApartFacts DEF Successor
  <2>2. lane'[l].at = "done" /\ lane'[l].solo /\ lane'[Root] = lane[Root]
    BY <1>1, <1>2, <1>3, <2>1 DEF After
  <2> QED  BY <1>1, <1>3, <2>2 DEF RunsApart, RootPast
<1>4. CASE l = Root
  <2>1. lane'[Root].at = Successor[lane[Root].at] /\ ~lane'[Root].solo
    BY <1>2, <1>4, ApartFacts DEF After
  <2>2. RootPast => RootPast'
    BY <1>4, <2>1, Stages DEF RootPast, PastTranscribe, Successor
  <2>3. lane'[Root].at # "idle"
    BY <1>4, <2>1, Stages DEF Successor
  <2>4. ASSUME NEW m \in Lane \ {Root}
        PROVE  /\ lane'[m] = lane[m]
               /\ lane[m].at \notin {"finalize_media", "transcribe_full_session"}
    BY <1>1, <1>4, ApartFacts
  <2> QED  BY <1>1, <1>4, <2>1, <2>2, <2>3, <2>4 DEF RunsApart
<1> QED  BY <1>3, <1>4

(* A step within a task leaves every lane at its stage.                    *)
LEMMA ApartMoves ==
    ASSUME RunsApart, NEW l \in Lane, NEW pc, NEW got, Moves(l, pc, got),
           lane[l].pc # "failed"
    PROVE  RunsApart' /\ RootPast' = RootPast
<1>1. /\ lane'[l].at = lane[l].at /\ lane'[l].solo = lane[l].solo
      /\ \A m \in Lane \ {l} : lane'[m] = lane[m]
  BY DEF Moves
<1>2. Root \in Lane
  BY GradingAssumption
<1>3. lane'[Root].at = lane[Root].at /\ lane'[Root].solo = lane[Root].solo
  BY <1>1, <1>2
<1>4. \A m \in Lane : lane'[m].at = lane[m].at /\ lane'[m].solo = lane[m].solo
  BY <1>1
<1>5. lane[Root].pc = "failed" => lane'[Root].pc = "failed"
  BY <1>1, <1>2
<1>6. RootPast' = RootPast
  BY <1>3 DEF RootPast
<1> QED  BY <1>2, <1>3, <1>4, <1>5, <1>6 DEF RunsApart

(* A member that returns leaves its lane where it is, or sends it on: the  *)
(* root's to the judge, another's to its end.                              *)
LEMMA ApartComputes ==
    ASSUME RunsApart, NEW l \in Lane, NEW c \in CRITERIA, CountsOrCalls(l, c)
    PROVE  /\ RunsApart'
           /\ RootPast => RootPast'
           /\ \A m \in Lane : \/ lane'[m] = lane[m]
                             \/ lane'[m].at # "synthesize_band_scores"
                             \/ lane'[m].pc # "judged"
<1>1. Root \in Lane /\ \A m \in Lane \ {l} : lane'[m] = lane[m]
  BY GradingAssumption DEF CountsOrCalls
<1>2. CASE lane'[l] = lane[l]
  <2>1. \A m \in Lane : lane'[m] = lane[m]
    BY <1>1, <1>2
  <2> QED  BY <1>1, <2>1 DEF RunsApart, RootPast
<1>3. CASE /\ lane[l].at = "features" /\ lane'[l].at = "features"
           /\ lane'[l].pc = lane[l].pc /\ lane'[l].solo = lane[l].solo
  <2>1. \A m \in Lane : /\ lane'[m].at = lane[m].at /\ lane'[m].pc = lane[m].pc
                        /\ lane'[m].solo = lane[m].solo
    BY <1>1, <1>3
  <2>2. RunsApart' /\ (RootPast => RootPast')
    BY <1>1, <2>1 DEF RunsApart, RootPast
  <2>3. \A m \in Lane : lane'[m] = lane[m] \/ lane'[m].at # "synthesize_band_scores"
    BY <1>1, <1>3
  <2> QED  BY <2>2, <2>3
<1>4. CASE /\ lane[l].at = "features" /\ lane'[l].at = After(l)
           /\ lane'[l].pc = "queued" /\ lane'[l].solo = lane[l].solo
  <2>1. RootPast
    BY <1>4, ApartFacts DEF PastTranscribe
  <2>2. \A m \in Lane \ {Root} :
          lane[m].at \notin {"finalize_media", "transcribe_full_session"}
    BY <2>1, ApartFacts DEF RootPast, PastTranscribe
  <2>3. /\ l = Root => lane'[l].at = "synthesize_band_scores" /\ ~lane'[l].solo
        /\ l # Root => lane'[l].at = "done" /\ lane'[l].solo
    BY <1>4, ApartFacts, Stages DEF After
  <2>4. RootPast' /\ lane'[Root].at # "idle" /\ ~lane'[Root].solo
    BY <1>1, <2>1, <2>3 DEF RootPast, PastTranscribe, RunsApart
  <2>5. ASSUME NEW m \in Lane \ {Root}
        PROVE  /\ lane'[m].at = "idle" \/ lane'[m].solo
               /\ lane'[m].at \notin {"root", "finalize_media", "transcribe_full_session"}
    BY <1>1, <2>2, <2>3 DEF RunsApart
  <2>6. RunsApart'
    BY <2>4, <2>5 DEF RunsApart
  <2> QED  BY <1>1, <1>4, <2>4, <2>6
<1> QED  BY <1>2, <1>3, <1>4 DEF CountsOrCalls

(* The root has nothing of which anything would have to be said. *)
LEMMA RootQuiet ==
    ASSUME lane'[Root].at \in {"root", "finalize_media", "transcribe_full_session"},
           lane'[Root].at = "transcribe_full_session" => result' = canonical',
           lane'[Root].pc \notin {"begun", "written", "fetched", "deleted"}
    PROVE  RootRun'
BY DEF RootRun, Doing, RootPast, PastTranscribe

(* Only the root's run starts the chain.                                   *)
LEMMA RunRoots ==
    ASSUME Types, RunParts, NEW l \in Lane, lost' = 0, grade_exam_session(l)
    PROVE  RunParts'
<1> USE DEF RunParts
<1>1. /\ lane[l].at = "root" /\ lane[l].pc = "queued"
      /\ HandsOn(l) /\ UNCHANGED <<result, canonical, transcripts, feature_vectors,
                                   band_score_reports>>
  BY RootTypes DEF grade_exam_session, Doing, jobs, outputs, storage
<1>2. l = Root
  BY <1>1, ApartFacts
<1>3. /\ RunsApart' /\ lane'[l].at = "finalize_media" /\ lane'[l].pc = "queued"
      /\ \A m \in Lane \ {l} : lane'[m] = lane[m]
      /\ RootPast => RootPast'
  <2>1. lane[l].at \in DOMAIN Successor
    BY <1>1 DEF Successor
  <2>2. /\ RunsApart' /\ lane'[l].at = Successor[lane[l].at]
        /\ \A m \in Lane \ {l} : lane'[m] = lane[m]
        /\ RootPast => RootPast'
    BY <1>1, <1>2, <2>1, ApartHandsOn
  <2> QED  BY <1>1, <2>2, Stages DEF HandsOn
<1>4. RootRun'
  BY <1>2, <1>3, RootQuiet
<1>5. \A m \in Lane, c \in CRITERIA : member'[m][c] = member[m][c]
  BY <1>1, <1>3 DEF HandsOn
<1>6. Computed'
  BY <1>1, <1>3, <1>5, ComputedFrame
<1> QED  BY <1>3, <1>4, <1>6

(* finalize_media runs while the root is at it: the root's own, or, when   *)
(* that has failed, one that the operator runs.                            *)
LEMMA RunFinalizes ==
    ASSUME Types, RunParts, NEW l \in Lane, lost' = 0,
           \/ FinalizeBegin(l) \/ FinalizeFetch(l)
           \/ FinalizeStitch(l) \/ FinalizeFinish(l)
    PROVE  RunParts'
<1> USE DEF RunParts
<1>1. /\ lane[l].at = "finalize_media" /\ lane[l].pc # "failed" /\ Root \in Lane
      /\ UNCHANGED <<transcripts, feature_vectors, band_score_reports>>
  BY GradingAssumption DEF FinalizeBegin, FinalizeFetch, FinalizeStitch, FinalizeFinish,
         Doing, outputs
<1>2. lane[Root].at = "finalize_media" /\ (l # Root => lane[Root].pc = "failed") /\ ~RootPast
  BY <1>1, ApartFacts DEF RootPast, PastTranscribe
<1>3. CASE FinalizeBegin(l) \/ FinalizeFetch(l) \/ FinalizeStitch(l)
  <2>1. PICK pc \in {"begun", "fetched", "written"}, got \in {lane[l].got, lane'[l].got} :
          Moves(l, pc, got)
    BY <1>3, FinalizeTypes DEF Moves
  <2>2. RunsApart' /\ RootPast' = RootPast
    BY <1>1, <2>1, ApartMoves
  <2>3. \A m \in Lane : lane'[m] = lane[m] \/ lane'[m].at = "finalize_media"
    BY <1>1, <2>1 DEF Moves
  <2>4. UNCHANGED member
    BY <1>3 DEF FinalizeBegin, FinalizeFetch, FinalizeStitch
  <2>5. Computed'
    BY <1>1, <2>2, <2>3, <2>4, ComputedFrame
  <2>6. CASE l # Root
    <3>1. lane'[Root] = lane[Root]
      BY <1>1, <2>1, <2>6 DEF Moves
    <3> QED  BY <1>2, <2>2, <2>5, <2>6, <3>1, RootQuiet
  <2>7. CASE l = Root /\ (FinalizeBegin(l) \/ FinalizeFetch(l))
    <3>1. lane'[Root].at = "finalize_media" /\ lane'[Root].pc \in {"begun", "fetched"}
      BY <1>1, <2>7, FinalizeTypes DEF Moves
    <3>2. RootRun'
      BY <3>1 DEF RootRun, Doing, RootPast, PastTranscribe
    <3> QED  BY <2>2, <2>5, <3>2
  <2>8. CASE l = Root /\ FinalizeStitch(l)
    <3>1. lane'[Root].at = "finalize_media" /\ lane'[Root].got = lane[Root].got
      BY <1>1, <2>8, FinalizeTypes DEF Moves
    <3>2. canonical' = lane[Root].got.turns
      BY <2>8 DEF FinalizeStitch
    <3>3. RootRun'
      BY <3>1, <3>2 DEF RootRun, Doing, RootPast, PastTranscribe
    <3> QED  BY <2>2, <2>5, <3>3
  <2> QED  BY <1>3, <2>6, <2>7, <2>8
<1>4. CASE FinalizeFinish(l)
  <2>1. HandsOn(l) /\ UNCHANGED canonical /\ lane[l].pc = "written"
    BY <1>4, FinalizeTypes DEF FinalizeFinish, storage, Doing
  <2>2. lane[l].at \in DOMAIN Successor
    BY <1>1, Stages DEF JobTask
  <2>3. /\ RunsApart' /\ \A m \in Lane \ {l} : lane'[m] = lane[m]
        /\ l # Root => lane'[l].at = "done"
        /\ l = Root => lane'[l].at = "transcribe_full_session"
    BY <1>1, <2>1, <2>2, ApartHandsOn, Stages
  <2>4. After(l) # "features" /\ lane'[l].pc = "queued"
    BY <2>1, <2>3 DEF HandsOn
  <2>5. \A m \in Lane, c \in CRITERIA : member'[m][c] = member[m][c]
    BY <2>1, <2>4 DEF HandsOn
  <2>6. \A m \in Lane : lane'[m] = lane[m] \/ lane'[m].pc # "judged"
    BY <2>3, <2>4
  <2>7. Computed'
    BY <1>1, <1>2, <2>5, <2>6, ComputedFrame
  <2>8. RootRun'
    <3>1. CASE l # Root
      BY <1>1, <1>2, <2>3, <3>1, RootQuiet
    <3>2. CASE l = Root
      <4>1. canonical = lane[Root].got.turns
        BY <1>1, <2>1, <3>2 DEF RootRun, Doing
      <4>2. result' = lane[Root].got.turns
        BY <1>4, <3>2 DEF FinalizeFinish
      <4> QED  BY <2>1, <2>3, <2>4, <3>2, <4>1, <4>2, RootQuiet
    <3> QED  BY <3>1, <3>2
  <2> QED  BY <2>3, <2>7, <2>8
<1> QED  BY <1>3, <1>4

(* transcribe_full_session, likewise.                                      *)
LEMMA RunTranscribes ==
    ASSUME Types, TakeInv, RunParts, NEW l \in Lane, lost' = 0,
           \/ TranscribeBegin(l) \/ TranscribeFetch(l) \/ TranscribeDelete(l)
           \/ TranscribeCommit(l) \/ TranscribeFinish(l)
    PROVE  RunParts'
<1> USE DEF RunParts
<1>1. /\ lane[l].at = "transcribe_full_session" /\ lane[l].pc # "failed" /\ Root \in Lane
      /\ UNCHANGED <<result, canonical, feature_vectors, band_score_reports>>
  BY GradingAssumption DEF TranscribeBegin, TranscribeFetch, TranscribeDelete,
         TranscribeCommit, TranscribeFinish, Doing, outputs, storage, jobs, mark_running
<1>2. /\ lane[Root].at = "transcribe_full_session" /\ ~RootPast
      /\ l # Root => lane[Root].pc = "failed"
      /\ result = canonical
  BY <1>1, ApartFacts DEF RootPast, PastTranscribe, RootRun
<1>3. CASE \/ TranscribeBegin(l) \/ TranscribeFetch(l) \/ TranscribeDelete(l)
           \/ TranscribeCommit(l)
  <2>1. \E pc \in {"begun", "fetched", "deleted", "written"} : \E got : Moves(l, pc, got)
    BY <1>3, TranscribeTypes DEF Fetches
  <2>2. RunsApart' /\ RootPast' = RootPast
    BY <1>1, <2>1, ApartMoves
  <2>3. \A m \in Lane : lane'[m] = lane[m] \/ lane'[m].at = "transcribe_full_session"
    BY <1>1, <2>1 DEF Moves
  <2>4. UNCHANGED member
    BY <1>3 DEF TranscribeBegin, TranscribeFetch, TranscribeDelete, TranscribeCommit
  <2>5. Computed'
    <3>1. RunsApart' /\ ~RootPast /\ ~RootPast'
      BY <1>2, <2>2
    <3> QED  BY <1>1, <2>4, <3>1, ComputedEmpty
  <2>6. lane'[Root].at = "transcribe_full_session" /\ ~RootPast'
    BY <1>1, <1>2, <2>1, <2>2 DEF Moves
  <2>7. RootRun'
    <3>1. CASE l # Root
      <4>1. lane'[Root] = lane[Root]
        BY <1>1, <2>1, <3>1 DEF Moves
      <4> QED  BY <1>1, <1>2, <2>6, <3>1, <4>1, RootQuiet
    <3>2. CASE l = Root /\ TranscribeBegin(l)
      <4>1. lane'[Root].pc = "begun" /\ lane'[Root].got = [Nothing EXCEPT !.turns = result]
        BY <3>2, TranscribeTypes DEF Moves
      <4>2. lane'[Root].got.turns = result
        BY <4>1, NothingType DEF Got
      <4> QED  BY <1>1, <1>2, <2>6, <4>1, <4>2 DEF RootRun, Doing
    <3>3. CASE l = Root /\ TranscribeFetch(l)
      <4>1. PICK heard \in Hearing : Fetches(Root, heard)
        BY <3>3, TranscribeTypes
      <4>2. /\ TakeOf(Root, heard) \in Take /\ lane'[Root].pc = "fetched"
            /\ lane'[Root].got = [lane[Root].got EXCEPT !.takes = {TakeOf(Root, heard)}]
        BY <4>1 DEF Fetches, Moves
      <4>3. /\ lane'[Root].got.turns = lane[Root].got.turns
            /\ lane'[Root].got.takes = {TakeOf(Root, heard)}
        BY <1>1, <4>2, LaneGot DEF Got
      <4>4. lane[Root].got.turns = result
        BY <1>2, <3>3 DEF TranscribeFetch, Doing, RootRun
      <4>5. Coherent(TakeOf(Root, heard))
        BY <1>2, <4>4 DEF Coherent, TakeOf
      <4> QED  BY <1>1, <1>2, <2>6, <4>2, <4>3, <4>4, <4>5 DEF RootRun, Doing
    <3>4. CASE l = Root /\ TranscribeDelete(l)
      <4>1. /\ lane'[Root].pc = "deleted" /\ lane[Root].pc = "fetched"
            /\ lane'[Root].got = [lane[Root].got EXCEPT !.rows = transcripts]
        BY <3>4, TranscribeTypes DEF Moves, TranscribeDelete, Doing
      <4>2. /\ lane'[Root].got.turns = lane[Root].got.turns
            /\ lane'[Root].got.takes = lane[Root].got.takes
            /\ lane'[Root].got.rows = transcripts
        BY <1>1, <4>1, LaneGot DEF Got
      <4>3. /\ lane[Root].got.turns = result
            /\ \E take \in Take : lane[Root].got.takes = {take} /\ Coherent(take)
        BY <1>2, <4>1 DEF RootRun
      <4>4. transcripts' = transcripts
        BY <3>4 DEF TranscribeDelete, outputs
      <4> QED  BY <1>1, <1>2, <2>6, <4>1, <4>2, <4>3, <4>4 DEF RootRun, Doing
    <3>5. CASE l = Root /\ TranscribeCommit(l)
      <4>1. lane'[Root].pc = "written" /\ lane[Root].pc = "deleted"
        BY <3>5, TranscribeTypes DEF Moves, TranscribeCommit, Doing
      <4>2. PICK take \in Take : lane[Root].got.takes = {take} /\ Coherent(take)
        BY <1>2, <4>1 DEF RootRun
      <4>3. transcripts' = LeftRows(Root) \cup NewRows(Root)
        BY <3>5 DEF TranscribeCommit
      <4>4. LeftRows(Root) = {}
        BY <1>2, <4>1 DEF RootRun, LeftRows
      <4>5. NewRows(Root) = WordsOf(take)
        BY <4>2 DEF NewRows
      <4>6. transcripts' = WordsOf(take)
        BY <4>3, <4>4, <4>5
      <4> QED  BY <1>1, <1>2, <2>6, <4>1, <4>2, <4>6 DEF RootRun, Doing
    <3> QED  BY <1>3, <3>1, <3>2, <3>3, <3>4, <3>5
  <2> QED  BY <2>2, <2>5, <2>7
<1>4. CASE TranscribeFinish(l)
  <2>1. HandsOn(l) /\ UNCHANGED transcripts /\ lane[l].pc = "written"
    BY <1>4, TranscribeTypes DEF TranscribeFinish, outputs, Doing
  <2>2. lane[l].at \in DOMAIN Successor
    BY <1>1, Stages DEF JobTask
  <2>3. /\ RunsApart' /\ \A m \in Lane \ {l} : lane'[m] = lane[m]
        /\ l # Root => lane'[l].at = "done"
        /\ l = Root => lane'[l].at = "features"
    BY <1>1, <2>1, <2>2, ApartHandsOn, Stages
  <2>4. lane'[l].at = After(l) /\ lane'[l].pc = "queued"
    BY <2>1 DEF HandsOn
  <2>5. \A m \in Lane, c \in CRITERIA :
          \/ member'[m][c] = member[m][c]
          \/ member'[m][c].pc # "loaded" /\ RootPast'
    BY <2>1, <2>3, <2>4 DEF HandsOn, QueuedMember, RootPast, PastTranscribe
  <2>6. \A m \in Lane : lane'[m] = lane[m] \/ lane'[m].pc # "judged"
    BY <2>3, <2>4
  <2>7. Computed'
    BY <1>1, <1>2, <2>1, <2>5, <2>6, ComputedFrame
  <2>8. RootRun'
    <3>1. CASE l # Root
      BY <1>1, <1>2, <2>3, <3>1, RootQuiet
    <3>2. CASE l = Root
      <4>1. \E take \in Take : transcripts = WordsOf(take) /\ Coherent(take)
        BY <1>1, <2>1, <3>2 DEF RootRun, Doing
      <4> QED  BY <1>1, <1>2, <2>1, <2>3, <3>2, <4>1 DEF RootRun, Doing
    <3> QED  BY <3>1, <3>2
  <2> QED  BY <2>3, <2>7, <2>8
<1> QED  BY <1>3, <1>4

(* The chord computes from the transcript that the root's run wrote. *)
LEMMA RunComputes ==
    ASSUME Types, RunParts, NEW l \in Lane, NEW c \in CRITERIA,
           Load(l, c) \/ Compute(l, c)
    PROVE  RunParts'
<1> USE DEF RunParts
<1>1. /\ UNCHANGED <<result, canonical, transcripts, band_score_reports>>
      /\ RootPast /\ Root \in Lane
  BY GradingAssumption DEF Load, Compute, Computed, outputs, storage, jobs
<1>2. CASE Load(l, c)
  <2>1. UNCHANGED <<lane, feature_vectors>>
    BY <1>2 DEF Load, outputs
  <2>2. PICK got : got.takes = Takes(transcripts) /\ MemberMoves(l, c, "loaded", got)
    BY <1>2, ChordTypes
  <2>3. RunsApart' /\ RootPast'
    BY <1>1, <2>1 DEF RunsApart, RootPast
  <2>4. RootRun'
    BY <1>1, <2>1, RootFrame
  <2>5. \A m \in Lane, d \in CRITERIA :
          member'[m][d].pc = "loaded" => member'[m][d].got.takes = Takes(transcripts)
    BY <2>2 DEF Computed, MemberMoves
  <2>6. Computed'
    BY <1>1, <2>1, <2>3, <2>5 DEF Computed, FromTranscript, Takes, Doing
  <2> QED  BY <2>3, <2>4, <2>6
<1>3. CASE Compute(l, c)
  <2>1. CountsOrCalls(l, c)
    BY <1>3, ChordTypes
  <2>2. /\ RunsApart' /\ RootPast'
        /\ \A m \in Lane : \/ lane'[m] = lane[m]
                           \/ lane'[m].at # "synthesize_band_scores"
                           \/ lane'[m].pc # "judged"
    BY <1>1, <2>1, ApartComputes
  <2>3. RootRun'
    BY <1>1, <2>2, RootFrame DEF RootPast
  <2>4. FromTranscript(feature_vectors')
    <3>1. /\ member[l][c].got.takes = Takes(transcripts)
          /\ write_feature_vector(c, member[l][c].got.takes)
          /\ member[l][c].got.takes \in SUBSET Take
      BY <1>3, ChordTypes DEF Compute, Computed
    <3>2. \A d \in DOMAIN feature_vectors' :
            feature_vectors'[d] = IF d = c THEN Takes(transcripts) ELSE feature_vectors[d]
      BY <3>1, VectorWritten
    <3>3. DOMAIN feature_vectors' = DOMAIN feature_vectors \cup {c}
      BY <3>1, VectorWritten
    <3> QED  BY <3>2, <3>3 DEF FromTranscript, Computed
  <2>5. \A m \in Lane, d \in CRITERIA :
          member'[m][d].pc = "loaded" => member'[m][d].got.takes = Takes(transcripts)
    BY <1>3, ChordTypes DEF Computed
  <2>6. \A m \in Lane : Doing(m, "synthesize_band_scores", "judged")' =>
          /\ lane'[m].got.takes = Takes(transcripts)
          /\ FromTranscript(lane'[m].got.vectors)
    BY <2>2 DEF Computed, Doing
  <2>7. /\ FromTranscript(feature_vectors)'
        /\ \A r \in band_score_reports' : r.words = Takes(transcripts)' /\ FromTranscript(r.vectors)'
    BY <1>1, <2>4 DEF Computed, FromTranscript, Takes
  <2>8. Computed'
    BY <1>1, <2>2, <2>5, <2>6, <2>7 DEF Computed, FromTranscript, Takes
  <2> QED  BY <2>2, <2>3, <2>8
<1> QED  BY <1>2, <1>3

(* The judge is given what was computed from that transcript. *)
LEMMA RunJudges ==
    ASSUME Types, RunParts, NEW l \in Lane, lost' = 0,
           SynthesizeBegin(l) \/ write_band_score_report(l) \/ SynthesizeFinish(l)
    PROVE  RunParts'
<1> USE DEF RunParts
<1>1. /\ lane[l].at = "synthesize_band_scores" /\ lane[l].pc # "failed" /\ Root \in Lane
      /\ UNCHANGED <<result, canonical, transcripts, feature_vectors>>
  BY GradingAssumption DEF SynthesizeBegin, write_band_score_report, SynthesizeFinish,
         Doing, outputs, storage, jobs, mark_running
<1>2. RootPast
  BY <1>1, ApartFacts DEF PastTranscribe
<1>3. CASE SynthesizeBegin(l)
  <2> DEFINE got == [Nothing EXCEPT !.vectors = feature_vectors, !.takes = Takes(transcripts)]
  <2>1. Moves(l, "judged", got) /\ UNCHANGED <<band_score_reports, member>>
    BY <1>3, SynthesizeTypes DEF SynthesizeBegin, outputs
  <2>2. got.vectors = feature_vectors /\ got.takes = Takes(transcripts)
    BY NothingType DEF Got
  <2> HIDE DEF got
  <2>3. RunsApart' /\ RootPast'
    BY <1>1, <1>2, <2>1, ApartMoves
  <2>4. RootRun'
    BY <1>1, <1>2, <2>3, RootFrame DEF RootPast
  <2>5. \A m \in Lane : Doing(m, "synthesize_band_scores", "judged")' =>
          /\ lane'[m].got.takes = Takes(transcripts)
          /\ FromTranscript(lane'[m].got.vectors)
    BY <2>1, <2>2 DEF Computed, Doing, Moves
  <2>6. Computed'
    BY <1>1, <2>1, <2>3, <2>5 DEF Computed, FromTranscript, Takes
  <2> QED  BY <2>3, <2>4, <2>6
<1>4. CASE write_band_score_report(l)
  <2>1. Moves(l, "written", Nothing) /\ UNCHANGED member /\ lane[l].pc = "judged"
    BY <1>4, SynthesizeTypes DEF write_band_score_report, Doing
  <2>2. band_score_reports' = {ReportOf(l)}
    BY <1>4 DEF write_band_score_report, ReportOf
  <2>3. RunsApart' /\ RootPast'
    BY <1>1, <1>2, <2>1, ApartMoves
  <2>4. RootRun'
    BY <1>1, <1>2, <2>3, RootFrame DEF RootPast
  <2>5. lane[l].got.takes = Takes(transcripts) /\ FromTranscript(lane[l].got.vectors)
    BY <1>1, <2>1 DEF Computed, Doing
  <2>6. \A r \in band_score_reports' : r.words = Takes(transcripts) /\ FromTranscript(r.vectors)
    BY <2>2, <2>5 DEF ReportOf
  <2>7. \A m \in Lane : Doing(m, "synthesize_band_scores", "judged")' =>
          /\ lane'[m].got.takes = Takes(transcripts)
          /\ FromTranscript(lane'[m].got.vectors)
    BY <2>1 DEF Computed, Doing, Moves
  <2>8. Computed'
    BY <1>1, <2>1, <2>3, <2>6, <2>7 DEF Computed, FromTranscript, Takes
  <2> QED  BY <2>3, <2>4, <2>8
<1>5. CASE SynthesizeFinish(l)
  <2>1. HandsOn(l) /\ UNCHANGED band_score_reports
    BY <1>5, SynthesizeTypes DEF SynthesizeFinish, outputs
  <2>2. lane[l].at \in DOMAIN Successor
    BY <1>1, Stages DEF JobTask
  <2>3. /\ RunsApart' /\ \A m \in Lane \ {l} : lane'[m] = lane[m]
        /\ lane'[l].at \in {"done", "sweep_expired_raw_audio"}
        /\ RootPast'
    BY <1>1, <1>2, <2>1, <2>2, ApartHandsOn, Stages
  <2>4. \A m \in Lane, c \in CRITERIA : member'[m][c] = member[m][c]
    BY <2>1, <2>3 DEF HandsOn
  <2>5. RootRun'
    BY <1>1, <1>2, <2>3, RootFrame DEF RootPast
  <2>6. \A m \in Lane : lane'[m] = lane[m] \/ lane'[m].at # "synthesize_band_scores"
    BY <2>3
  <2>7. Computed'
    BY <1>1, <2>1, <2>3, <2>4, <2>6, ComputedFrame
  <2> QED  BY <2>3, <2>5, <2>7
<1> QED  BY <1>3, <1>4, <1>5

(* The sweep changes nothing of it. *)
LEMMA RunSweeps ==
    ASSUME Types, RunParts, NEW l \in Lane, lost' = 0,
           SweepBegin(l) \/ SweepDelete(l) \/ SweepFinish(l)
    PROVE  RunParts'
<1> USE DEF RunParts
<1>1. /\ lane[l].at = "sweep_expired_raw_audio" /\ lane[l].pc # "failed" /\ Root \in Lane
      /\ UNCHANGED <<result, canonical, transcripts, feature_vectors, band_score_reports>>
  BY GradingAssumption DEF SweepBegin, SweepDelete, SweepFinish,
         Doing, outputs, storage, jobs, mark_running
<1>2. RootPast
  BY <1>1, ApartFacts DEF PastTranscribe
<1>3. CASE SweepBegin(l) \/ SweepDelete(l)
  <2>1. \E pc \in {"begun", "written"} : \E got : Moves(l, pc, got)
    BY <1>3, SweepTypes
  <2>2. RunsApart' /\ RootPast'
    BY <1>1, <1>2, <2>1, ApartMoves
  <2>3. RootRun'
    BY <1>1, <1>2, <2>2, RootFrame DEF RootPast
  <2>4. \A m \in Lane : lane'[m] = lane[m] \/ lane'[m].pc # "judged"
    BY <2>1 DEF Moves
  <2>5. UNCHANGED member
    BY <1>3 DEF SweepBegin, SweepDelete
  <2>6. Computed'
    BY <1>1, <2>2, <2>4, <2>5, ComputedFrame
  <2> QED  BY <2>2, <2>3, <2>6
<1>4. CASE SweepFinish(l)
  <2>1. HandsOn(l)
    BY <1>4, SweepTypes
  <2>2. lane[l].at \in DOMAIN Successor
    BY <1>1, Stages DEF JobTask
  <2>3. /\ RunsApart' /\ \A m \in Lane \ {l} : lane'[m] = lane[m]
        /\ lane'[l].at = "done" /\ RootPast'
    BY <1>1, <1>2, <2>1, <2>2, ApartHandsOn, Stages
  <2>4. \A m \in Lane, c \in CRITERIA : member'[m][c] = member[m][c]
    BY <2>1, <2>3 DEF HandsOn
  <2>5. RootRun'
    BY <1>1, <1>2, <2>3, RootFrame DEF RootPast
  <2>6. \A m \in Lane : lane'[m] = lane[m] \/ lane'[m].at # "synthesize_band_scores"
    BY <2>3
  <2>7. Computed'
    BY <1>1, <2>3, <2>4, <2>6, ComputedFrame
  <2> QED  BY <2>3, <2>5, <2>7
<1> QED  BY <1>3, <1>4

(* At first the root's run is the only one, and has done nothing.          *)
LEMMA RunInit == Init => RunInv
<1> SUFFICES ASSUME Init PROVE RunParts
  BY DEF RunInv, RunParts
<1>1. /\ Root \in Lane /\ lane[Root].at = "root" /\ lane[Root].pc = "queued" /\ ~lane[Root].solo
      /\ \A l \in Lane \ {Root} : lane[l].at = "idle"
      /\ \A l \in Lane : lane[l].pc = "queued"
  BY GradingAssumption DEF Init, Queued
<1>2. ~RootPast /\ RunsApart
  BY <1>1 DEF RootPast, PastTranscribe, RunsApart
<1>3. RootRun
  BY <1>1, <1>2 DEF RootRun, Doing, RootPast
<1>4. /\ band_score_reports = {} /\ DOMAIN feature_vectors = {}
      /\ \A l \in Lane, c \in CRITERIA : member[l][c].pc = "off"
  <2>1. feature_vectors = Nothing.vectors
    BY DEF Init, Nothing
  <2> QED  BY <2>1, NothingType DEF Init, Off
<1>5. Computed
  BY <1>1, <1>4 DEF Computed, FromTranscript, Doing
<1> QED  BY <1>2, <1>3, <1>5 DEF RunParts

(* While no worker is lost, every step keeps the three. *)
LEMMA RunNext ==
    ASSUME Types, TakeInv, RunParts, lost' = 0, [Next]_vars
    PROVE  RunParts'
<1>1. ASSUME NEW l \in Lane, LaneWork(l)
      PROVE  RunParts'
  <2>1. CASE grade_exam_session(l)
    BY <2>1, RunRoots
  <2>2. CASE \/ FinalizeBegin(l) \/ FinalizeFetch(l)
             \/ FinalizeStitch(l) \/ FinalizeFinish(l)
    BY <2>2, RunFinalizes
  <2>3. CASE \/ TranscribeBegin(l) \/ TranscribeFetch(l) \/ TranscribeDelete(l)
             \/ TranscribeCommit(l) \/ TranscribeFinish(l)
    BY <2>3, RunTranscribes
  <2>4. CASE \E c \in CRITERIA : Load(l, c) \/ Compute(l, c)
    BY <2>4, RunComputes
  <2>5. CASE SynthesizeBegin(l) \/ write_band_score_report(l) \/ SynthesizeFinish(l)
    BY <2>5, RunJudges
  <2>6. CASE SweepBegin(l) \/ SweepDelete(l) \/ SweepFinish(l)
    BY <2>6, RunSweeps
  <2>7. CASE Fail(l) \/ \E c \in CRITERIA : FailMember(l, c)
    BY <2>7, StallEffect, RunStalls
  <2> QED  BY <1>1, <2>1, <2>2, <2>3, <2>4, <2>5, <2>6, <2>7 DEF LaneWork
<1>2. ASSUME NEW l \in Lane, Mishap(l)
      PROVE  RunParts'
  BY <1>2, StallEffect, RunStalls DEF Mishap
<1>3. ASSUME NEW l \in Lane, Operator(l)
      PROVE  RunParts'
  BY <1>3, OperatorEffect, RunOpened
<1>4. CASE (\E s \in Late : LateFlush(s)) \/ UNCHANGED vars
  <2>1. UNCHANGED <<result, canonical, outputs, lane, member>>
    BY <1>4 DEF LateFlush, vars, jobs, storage, work
  <2> QED  BY <2>1 DEF outputs, RunParts, RunsApart, RootRun, Computed, RootPast, Doing,
                       FromTranscript, Takes
<1> QED  BY <1>1, <1>2, <1>3, <1>4 DEF Next, Work

(* The count of lost workers only grows. *)
LEMMA LostGrows ==
    ASSUME Types, [Next]_vars, lost' = 0
    PROVE  lost = 0
<1>1. ASSUME NEW l \in Lane, LaneWork(l)
      PROVE  lost = 0
  <2>1. CASE grade_exam_session(l) \/ FinalizeFinish(l) \/ TranscribeFinish(l)
             \/ SynthesizeFinish(l) \/ SweepFinish(l)
    BY <2>1, RootTypes, FinalizeTypes, TranscribeTypes, SynthesizeTypes, SweepTypes
  <2>2. CASE \/ FinalizeBegin(l) \/ FinalizeFetch(l) \/ FinalizeStitch(l)
             \/ TranscribeBegin(l) \/ TranscribeFetch(l) \/ TranscribeDelete(l)
             \/ TranscribeCommit(l)
    BY <2>2 DEF FinalizeBegin, FinalizeFetch, FinalizeStitch, TranscribeBegin,
                TranscribeFetch, TranscribeDelete, TranscribeCommit, mishaps
  <2>3. CASE \/ SynthesizeBegin(l) \/ write_band_score_report(l)
             \/ SweepBegin(l) \/ SweepDelete(l)
    BY <2>3 DEF SynthesizeBegin, write_band_score_report, SweepBegin, SweepDelete, mishaps
  <2>4. ASSUME NEW c \in CRITERIA, Load(l, c) \/ Compute(l, c)
        PROVE  lost = 0
    BY <2>4, ChordTypes DEF Load, mishaps
  <2>5. CASE Fail(l) \/ \E c \in CRITERIA : FailMember(l, c)
    BY <2>5 DEF Fail, FailMember
  <2> QED  BY <1>1, <2>1, <2>2, <2>3, <2>4, <2>5 DEF LaneWork
<1>2. ASSUME NEW l \in Lane, Mishap(l)
      PROVE  lost = 0
  BY <1>2, StallEffect DEF Mishap, Stalled
<1>3. ASSUME NEW l \in Lane, Operator(l)
      PROVE  lost = 0
  BY <1>3, OperatorEffect DEF Opened, mishaps
<1>4. CASE (\E s \in Late : LateFlush(s)) \/ UNCHANGED vars
  BY <1>4 DEF LateFlush, vars, work, mishaps
<1> QED  BY <1>1, <1>2, <1>3, <1>4 DEF Next, Work

----------------------------------------------------------------------------
(* The theorems *)

(* The inductive invariant holds at first ...                              *)
LEMMA InitIInv == Init => IInv
BY InitTypes, SweepInit, MediaInit, TakeInit, RunInit DEF IInv

(* ... and every step keeps it.                                            *)
LEMMA NextIInv == IInv /\ [Next]_vars => IInv'
<1> SUFFICES ASSUME IInv, [Next]_vars PROVE IInv'
  OBVIOUS
<1>1. Types' /\ SweepInv' /\ MediaInv' /\ TakeInv'
  BY NextTypes, SweepNext, MediaNext, TakeNext DEF IInv
<1>2. RunInv'
  <2> SUFFICES ASSUME lost' = 0 PROVE RunParts'
    BY DEF RunInv, RunParts
  <2>1. lost = 0
    BY LostGrows DEF IInv
  <2> QED  BY <2>1, RunNext DEF IInv, RunInv, RunParts
<1> QED  BY <1>1, <1>2 DEF IInv

(* The inductive invariant holds throughout. *)
THEOREM SpecIInv == Spec => []IInv
BY InitIInv, NextIInv, PTL DEF Spec

(* Every variable keeps its type, and no task is retried more often than   *)
(* max_retries says, for any number of lanes and lost workers.             *)
THEOREM GradingTypeOK == Spec => []TypeOK
<1>1. IInv => TypeOK
  BY TypesImplyTypeOK DEF IInv
<1> QED  BY <1>1, SpecIInv, PTL

(* Every recording that was stored before grading began is kept, as a raw  *)
(* object or in the canonical file.                                        *)
THEOREM GradingKeepsEvidence == Spec => []EvidenceKept
<1>1. IInv => EvidenceKept
  BY DEF IInv, MediaInv, EvidenceKept, Stored
<1> QED  BY <1>1, SpecIInv, PTL

(* A chain at transcribe_full_session or its chord has a result and a      *)
(* recording, whatever finalize_media is run beside it.                    *)
THEOREM GradingFindsMedia == Spec => []TranscribeFindsMedia
<1>1. IInv => TranscribeFindsMedia
  BY DEF IInv, MediaInv, MediaLane, AfterMedia, TranscribeFindsMedia
<1> QED  BY <1>1, SpecIInv, PTL

(* Every turn of the transcript is one transcription's, whole: of two that *)
(* overlap in a turn one commits nothing, whatever their lengths and       *)
(* whatever either finds elsewhere.                                        *)
THEOREM TranscriptIsOneTakes == Spec => []TurnOneTake
<1>1. IInv => TurnOneTake
  BY DEF IInv, TakeInv, WholeTurns, TurnOneTake
<1> QED  BY <1>1, SpecIInv, PTL

(* While no worker is lost, the report and every vector it was given stem  *)
(* from one transcription of the audio its words are attributed to.        *)
THEOREM ReportIsOneRuns == Spec => []OneRunCoherent
<1>1. IInv => OneRunCoherent
  <2> SUFFICES ASSUME IInv, lost = 0, NEW r \in band_score_reports
               PROVE  /\ Cardinality(r.words) \leq 1
                      /\ \A take \in r.words : take.audio = take.turns
                      /\ \A k \in DOMAIN r.vectors : r.vectors[k] = r.words
    BY DEF OneRunCoherent
  <2>1. RootRun /\ Computed
    BY DEF IInv, RunInv
  <2>2. RootPast
    BY <2>1 DEF Computed
  <2>3. PICK take \in Take : transcripts = WordsOf(take) /\ Coherent(take)
    BY <2>1, <2>2 DEF RootRun
  <2>4. r.words = Takes(transcripts) /\ \A k \in DOMAIN r.vectors : r.vectors[k] = r.words
    BY <2>1 DEF Computed, FromTranscript
  <2>5. r.words = {} \/ r.words = {take}
    BY <2>3, <2>4, TakesOfWords
  <2>6. Cardinality(r.words) \leq 1
    <3>1. Cardinality({}) = 0 /\ Cardinality({take}) = 1
      BY FS_EmptySet, FS_Singleton
    <3> QED  BY <2>5, <3>1
  <2> QED  BY <2>3, <2>4, <2>5, <2>6 DEF Coherent
<1> QED  BY <1>1, SpecIInv, PTL

(* Raw audio goes only when there is a report with every criterion's       *)
(* vector before its judge.                                                *)
THEOREM RawOutlivesReport == Spec => SweptAfterReport
<1>1. IInv /\ [Next]_vars => (raw \subseteq raw' \/ \E r \in band_score_reports : Complete(r))
  <2> SUFFICES ASSUME IInv, [Next]_vars, ~(raw \subseteq raw')
               PROVE  \E r \in band_score_reports : Complete(r)
    OBVIOUS
  <2>1. ASSUME NEW l \in Lane, SweepDelete(l)
        PROVE  \E r \in band_score_reports : Complete(r)
    BY <2>1 DEF SweepDelete, Doing, IInv, SweepInv, SweepLane
  <2>2. ASSUME NEW l \in Lane, LaneWork(l), ~SweepDelete(l)
        PROVE  raw' = raw
    BY <2>2 DEF LaneWork, grade_exam_session, FinalizeBegin, FinalizeFetch, FinalizeStitch,
         FinalizeFinish, TranscribeBegin, TranscribeFetch, TranscribeDelete, TranscribeCommit,
         TranscribeFinish, Load, Compute, FailMember, SynthesizeBegin,
         write_band_score_report, SynthesizeFinish, SweepBegin, SweepFinish, Fail, storage
  <2>3. ASSUME NEW l \in Lane, Mishap(l) \/ Operator(l)
        PROVE  raw' = raw
    BY <2>3, StallEffect, OperatorEffect DEF IInv, Mishap, Stalled, Opened, storage
  <2>4. ASSUME NEW s \in Late, LateFlush(s)
        PROVE  raw \subseteq raw'
    BY <2>4 DEF LateFlush
  <2>5. UNCHANGED vars => raw' = raw
    BY DEF vars, storage
  <2> QED  BY <2>1, <2>2, <2>3, <2>4, <2>5 DEF Next, Work
<1>2. IInv /\ [Next]_vars => [raw \subseteq raw' \/ \E r \in band_score_reports : Complete(r)]_vars
  BY <1>1
<1> QED  BY <1>2, SpecIInv, PTL DEF Spec, SweptAfterReport
=============================================================================
