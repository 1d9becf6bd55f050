----------------------------- MODULE BacktestJobs -----------------------------
(***************************************************************************)
(* BacktestJobService: jobs that run as tasks of the event loop and keep     *)
(* their state in a file each, which a start-up reads to resume them, and    *)
(* HistoricalDataService, whose chunks they share.                           *)
(*                                                                         *)
(* A task is suspended only while a chunk is fetched; everything up to the   *)
(* next fetch runs in one go, but the process may die between any two of     *)
(* its writes, and inside one.                                               *)
(***************************************************************************)
EXTENDS Integers, FiniteSets, Sequences, SequencesExt

CONSTANTS
    Jobs,          \* jobs, asked for in the order of their numbers
    Compare,       \* those that compare profiles
    NumChunks,     \* chunks of history a job needs, the same for all
    NumProfiles,   \* profiles of a comparison; each replay finds one trade
    HistoryLimit,  \* backtest_job_history_limit
    MaxCrashes     \* bound: times the process ends

ASSUME BacktestAssumption ==
    /\ Jobs \subseteq Nat \ {0} /\ IsFiniteSet(Jobs) /\ Compare \subseteq Jobs
    /\ NumChunks \in Nat /\ NumProfiles \in Nat \ {0}
    /\ HistoryLimit \in Nat \ {0} /\ MaxCrashes \in Nat

VARIABLES
    bjFile,      \* jobs/<job_id>.json, see Content
    bjRecent,    \* the files, newest first
    bjTask,      \* _tasks with the payload each holds
    bjLoop,      \* the job whose task has the event loop, or NoOne
    bjChunks,    \* chunk files
    bjProcess,   \* up, down, or starting with the files it has not looked at
    bjFailing,   \* the start-up has raised: the process is about to exit
    bjAsked,     \* history: jobs that were asked for
    bjRedone,    \* history: a comparison was resumed with replays counted in its file
    bjCrashes    \* history

bjVars == <<bjFile, bjRecent, bjTask, bjLoop, bjChunks, bjProcess, bjAsked, bjRedone, bjFailing, bjCrashes>>
bjMemory == <<bjTask, bjLoop, bjProcess>>
bjRest == <<bjAsked, bjRedone, bjFailing, bjCrashes>>

NoOne   == 0
Missing == [status |-> "MISSING", found |-> 0, profiles |-> 0]
Torn    == [status |-> "TORN", found |-> 0, profiles |-> 0]
Content == [status : {"QUEUED", "RUNNING", "COMPLETED", "FAILED"}, found : 0..((MaxCrashes + 1) * NumProfiles), profiles : 0..NumProfiles]
Queued  == [status |-> "QUEUED", found |-> 0, profiles |-> 0]

NoTask  == [at |-> "none", chunk |-> 0, nth |-> 0, payload |-> Missing]
Unfinished == {"QUEUED", "RUNNING"}
Final      == {"COMPLETED", "FAILED"}

BjTypeOK ==
    /\ bjFile \in [Jobs -> Content \cup {Missing, Torn}]
    /\ \A j \in Jobs : j \in ToSet(bjRecent) <=> bjFile[j] # Missing
    /\ bjLoop \in Jobs \cup {NoOne}
    /\ \A j \in Jobs : /\ bjTask[j].at \in {"none", "created", "chunks", "fetching", "replay", "ended"}
                       /\ bjTask[j].chunk \in 0..(NumChunks + 1) /\ bjTask[j].nth \in 0..NumProfiles
                       /\ bjTask[j].payload \in Content \cup {Missing}
    /\ bjChunks \subseteq 1..NumChunks
    /\ bjProcess.at \in {"up", "down", "starting"} /\ bjProcess.todo \subseteq Jobs
    /\ bjAsked \subseteq Jobs /\ bjFailing \in BOOLEAN /\ bjCrashes \in 0..MaxCrashes
    /\ bjRedone \in [Jobs -> BOOLEAN]

BjInit ==
    /\ bjFile = [j \in Jobs |-> Missing] /\ bjRecent = <<>>
    /\ bjTask = [j \in Jobs |-> NoTask] /\ bjLoop = NoOne
    /\ bjChunks = {} /\ bjProcess = [at |-> "up", todo |-> {}]
    /\ bjAsked = {} /\ bjRedone = [j \in Jobs |-> FALSE] /\ bjFailing = FALSE /\ bjCrashes = 0

-----------------------------------------------------------------------------
(* Files                                                                    *)

(* _prune_job_files: the newest are kept, whatever the state of their jobs. *)
Kept(recent) == SubSeq(recent, 1, IF Len(recent) < HistoryLimit THEN Len(recent) ELSE HistoryLimit)

(* _persist *)
Persist(j, content) ==
    LET recent == Kept(<<j>> \o RemoveFirst(bjRecent, j))
    IN  /\ bjRecent' = recent
        /\ bjFile' = [k \in Jobs |-> IF k \notin ToSet(recent) THEN Missing ELSE IF k = j THEN content ELSE bjFile[k]]

Free == bjProcess.at = "up" /\ bjLoop = NoOne

(* The startup of the application raises when start does: nothing is served, *)
(* but the tasks it has created run until the process exits.                 *)
Serving == bjProcess.at = "up" /\ ~bjFailing

-----------------------------------------------------------------------------
(* enqueue and enqueue_compare *)
EnqueueJob(j) ==
    /\ Serving /\ bjLoop = NoOne /\ bjAsked = {k \in Jobs : k < j}
    /\ Persist(j, Queued)
    /\ bjTask' = [bjTask EXCEPT ![j] = [NoTask EXCEPT !.at = "created"]]
    /\ bjAsked' = bjAsked \cup {j}
    /\ UNCHANGED <<bjLoop, bjChunks, bjProcess, bjRedone, bjFailing, bjCrashes>>

(* _run_job finds no file when other jobs have pushed it out: the task ends *)
(* and stays in _tasks.                                                      *)
BeginRun(j) ==
    /\ Free /\ bjTask[j].at = "created"
    /\ IF bjFile[j] = Missing
       THEN /\ bjTask' = [bjTask EXCEPT ![j].at = "ended"]
            /\ UNCHANGED <<bjFile, bjRecent, bjLoop>>
       ELSE LET running == [bjFile[j] EXCEPT !.status = "RUNNING"]
            IN  /\ Persist(j, running)
                /\ bjTask' = [bjTask EXCEPT ![j] = [at |-> "chunks", chunk |-> 1, nth |-> 0, payload |-> running]]
                /\ bjLoop' = j
    /\ UNCHANGED <<bjChunks, bjProcess, bjRest>>

(* load_range: a chunk that has a file is read, another one is fetched in a *)
(* thread while the loop serves others.                                      *)
NextChunk(j) ==
    /\ bjLoop = j /\ bjTask[j].at = "chunks"
    /\ IF bjTask[j].chunk > NumChunks
       THEN /\ Persist(j, bjTask[j].payload)
            /\ bjTask' = [bjTask EXCEPT ![j].at = "replay"] /\ UNCHANGED bjLoop
       ELSE IF bjTask[j].chunk \in bjChunks
       THEN /\ Persist(j, bjTask[j].payload)
            /\ bjTask' = [bjTask EXCEPT ![j].chunk = @ + 1] /\ UNCHANGED bjLoop
       ELSE /\ bjTask' = [bjTask EXCEPT ![j].at = "fetching"] /\ bjLoop' = NoOne
            /\ UNCHANGED <<bjFile, bjRecent>>
    /\ UNCHANGED <<bjChunks, bjProcess, bjRest>>

ChunkFetched(j) ==
    /\ Free /\ bjTask[j].at = "fetching"
    /\ bjChunks' = bjChunks \cup {bjTask[j].chunk}
    /\ Persist(j, bjTask[j].payload)
    /\ bjTask' = [bjTask EXCEPT ![j].at = "chunks", ![j].chunk = @ + 1]
    /\ bjLoop' = j
    /\ UNCHANGED <<bjProcess, bjRest>>

(* A fetch fails, or what a task does without a break: a chunk that cannot   *)
(* be read, a replay that raises.  The handler takes the file, or what the   *)
(* task holds if the file is gone.                                           *)
RunFails(j) ==
    /\ (Free /\ bjTask[j].at = "fetching") \/ bjLoop = j
    /\ Persist(j, [(IF bjFile[j] = Missing THEN bjTask[j].payload ELSE bjFile[j]) EXCEPT !.status = "FAILED"])
    /\ bjTask' = [bjTask EXCEPT ![j] = NoTask] /\ bjLoop' = NoOne
    /\ UNCHANGED <<bjChunks, bjProcess, bjRest>>

(* The replays, one per profile or a single one: a comparison adds to the   *)
(* counts that its file had when it was resumed.                             *)
ReplayProfile(j) ==
    /\ bjLoop = j /\ bjTask[j].at = "replay" /\ j \in Compare /\ bjTask[j].nth < NumProfiles
    /\ LET payload == [bjTask[j].payload EXCEPT !.found = @ + 1, !.profiles = bjTask[j].nth + 1]
       IN  /\ Persist(j, payload)
           /\ bjTask' = [bjTask EXCEPT ![j].payload = payload, ![j].nth = @ + 1]
    /\ UNCHANGED <<bjLoop, bjChunks, bjProcess, bjRest>>

CompleteRun(j) ==
    /\ bjLoop = j /\ bjTask[j].at = "replay" /\ (j \in Compare => bjTask[j].nth = NumProfiles)
    /\ LET payload == bjTask[j].payload
       IN  Persist(j, [payload EXCEPT !.status = "COMPLETED", !.found = IF j \in Compare THEN payload.found ELSE 1])
    /\ bjTask' = [bjTask EXCEPT ![j] = NoTask] /\ bjLoop' = NoOne
    /\ UNCHANGED <<bjChunks, bjProcess, bjRest>>

StepJob(j) ==
    \/ BeginRun(j) \/ NextChunk(j) \/ ChunkFetched(j) \/ RunFails(j) \/ ReplayProfile(j) \/ CompleteRun(j)

-----------------------------------------------------------------------------
(* The process *)

(* A file that is about to be written, in place: of a task, of a job that is *)
(* being asked for, or of one that a start-up resumes.                       *)
AboutToWrite(j) ==
    \/ bjLoop = j
    \/ Free /\ bjTask[j].at = "fetching"
    \/ Free /\ bjTask[j].at = "created" /\ bjFile[j] # Missing
    \/ Serving /\ bjLoop = NoOne /\ bjAsked = {k \in Jobs : k < j}
    \/ bjProcess.at = "starting" /\ j \in bjProcess.todo /\ bjFile[j].status \in Unfinished

(* The process ends, of itself or after a start-up that failed. *)
ProcessDies ==
    /\ bjProcess.at # "down" /\ bjCrashes < MaxCrashes
    /\ \/ UNCHANGED <<bjFile, bjRecent, bjAsked>>
       \/ \E j \in Jobs : /\ AboutToWrite(j)
                         /\ bjFile' = [bjFile EXCEPT ![j] = Torn]
                         /\ bjRecent' = <<j>> \o RemoveFirst(bjRecent, j)
                         /\ bjAsked' = bjAsked \cup {j}
    /\ bjTask' = [j \in Jobs |-> NoTask] /\ bjLoop' = NoOne
    /\ bjProcess' = [at |-> "down", todo |-> {}]
    /\ bjCrashes' = bjCrashes + 1 /\ bjFailing' = FALSE
    /\ UNCHANGED <<bjChunks, bjRedone>>

StartProcess ==
    /\ bjProcess.at = "down"
    /\ bjRecent' = Kept(bjRecent)
    /\ bjFile' = [j \in Jobs |-> IF j \in ToSet(bjRecent') THEN bjFile[j] ELSE Missing]
    /\ bjProcess' = [at |-> "starting", todo |-> ToSet(bjRecent')]
    /\ UNCHANGED <<bjTask, bjLoop, bjChunks, bjRest>>

(* Mutant: only jobs that had begun are resumed. *)
ResumeBegun(j) ==
    IF bjFile[j].status = "RUNNING"
    THEN /\ Persist(j, [bjFile[j] EXCEPT !.status = "QUEUED"])
         /\ bjTask' = [bjTask EXCEPT ![j].at = "created"]
         /\ bjRedone' = [bjRedone EXCEPT ![j] = @ \/ bjFile[j].found > 0]
    ELSE UNCHANGED <<bjFile, bjRecent, bjTask, bjRedone>>

Resume(j) ==
    IF bjFile[j].status \in Unfinished
    THEN /\ Persist(j, [bjFile[j] EXCEPT !.status = "QUEUED"])
         /\ bjTask' = [bjTask EXCEPT ![j].at = "created"]
         /\ bjRedone' = [bjRedone EXCEPT ![j] = @ \/ bjFile[j].found > 0]
    ELSE UNCHANGED <<bjFile, bjRecent, bjTask, bjRedone>>

(* start: a file that cannot be read makes it raise. *)
LookAt(j) ==
    /\ bjProcess.at = "starting" /\ j \in bjProcess.todo
    /\ IF bjFile[j] = Torn
       THEN /\ bjProcess' = [at |-> "up", todo |-> {}] /\ bjFailing' = TRUE
            /\ UNCHANGED <<bjFile, bjRecent, bjTask, bjRedone>>
       ELSE /\ Resume(j)
            /\ bjProcess' = [bjProcess EXCEPT !.todo = @ \ {j}] /\ UNCHANGED bjFailing
    /\ UNCHANGED <<bjLoop, bjChunks, bjAsked, bjCrashes>>

Started ==
    /\ bjProcess.at = "starting" /\ bjProcess.todo = {}
    /\ bjProcess' = [at |-> "up", todo |-> {}]
    /\ UNCHANGED <<bjFile, bjRecent, bjTask, bjLoop, bjChunks, bjRest>>

BjNext ==
    \/ \E j \in Jobs : EnqueueJob(j) \/ StepJob(j) \/ LookAt(j)
    \/ ProcessDies \/ StartProcess \/ Started

(* The event loop runs the tasks that are ready; a fetch has a timeout; a   *)
(* start-up awaits nothing.                                                 *)
StartUp == Started \/ \E j \in Jobs : LookAt(j)
BjFairness == WF_bjVars(StartUp) /\ \A j \in Jobs : WF_bjVars(StepJob(j))
BjSpec == BjInit /\ [][BjNext]_bjVars /\ BjFairness

-----------------------------------------------------------------------------
(* What the jobs are promised *)

(* "restart recovery": a process that serves has a task for every unfinished *)
(* job that has a file, and no task works on a finished one.                 *)
UnfinishedHaveTasks ==
    Serving => \A j \in Jobs :
        /\ bjFile[j].status \in Unfinished => bjTask[j].at \notin {"none", "ended"}
        /\ bjFile[j].status \in Final => bjTask[j].at \in {"none", "ended"}

(* A job loses its file only to HistoryLimit newer ones.                    *)
OnlyOldFilesGo ==
    \A j \in bjAsked : bjFile[j] = Missing => Len(bjRecent) >= HistoryLimit

(* The report of a comparison counts each profile once, unless a restart    *)
(* resumed it when some replays had been counted.                           *)
ReportAddsUp ==
    \A j \in Compare : bjFile[j].status = "COMPLETED" /\ ~bjRedone[j] =>
        bjFile[j].found = NumProfiles /\ bjFile[j].profiles = NumProfiles

(* A finished job stays as it is, until its file is the oldest.             *)
FinishedStay ==
    [][\A j \in Jobs : bjFile[j].status \in Final => bjFile'[j] \in {bjFile[j], Missing}]_bjVars

(* A job that has a task ends, in this process.                             *)
JobsEnd == \A j \in Jobs : []<>(bjTask[j].at \in {"none", "ended"})

(* Jobs survive restarts, finish once, and are forgotten oldest first.      *)
JobsAreKept == [](UnfinishedHaveTasks /\ OnlyOldFilesGo /\ ReportAddsUp) /\ FinishedStay /\ JobsEnd
=============================================================================
