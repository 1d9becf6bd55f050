-------------------------------- MODULE Models --------------------------------
(***************************************************************************)
(* The trade probability models: the files of ModelRegistry, the retraining  *)
(* worker that promotes a new model, the processes of the API that score     *)
(* trades with it and fall back to its predecessor when it does badly or an  *)
(* administrator says so, and the freeze and cooldown that guard learning.   *)
(*                                                                         *)
(* A model is numbered as it is trained.  A bundle is three files, each of   *)
(* which holds the number of the model it belongs to; every one is written   *)
(* by itself, and another process may read or write in between.  A promotion *)
(* puts the active files in place whole; the copies of the fallback, to it   *)
(* and back, are written where they stand, so that a reader or a crash finds *)
(* them cut short.                                                           *)
(***************************************************************************)
EXTENDS Integers, Sequences

CONSTANTS
    Scorers,       \* processes of the API
    MaxModels,     \* bound: models that are trained
    MaxRollbacks,  \* bound: of either kind
    MaxRestarts    \* bound: of processes

ASSUME ModelsAssumption ==
    /\ {MaxModels, MaxRollbacks, MaxRestarts} \subseteq Nat
    /\ "trainer" \notin Scorers   \* the worker, a process of its own

VARIABLES
    mdActive, mdFallback,   \* the bundles: the model each file was last written for
    mdCut,       \* the files that were truncated to be copied, and are not filled
    mdVersion,   \* the version that each model's metadata names
    mdEngine,    \* the bundle each process holds in memory
    mdAt,        \* where a process is
    mdNote,      \* the metadata the worker has read to annotate it
    mdFrozen, mdCooling,    \* the guards of RetrainTriggerService
    mdSince,     \* history: promotions begun since learning has been guarded, 0 if it is not
    mdTorn,      \* history: a write of the bundles was cut off, or two overlapped
    mdBlur,      \* history: a write was under way while a scorer loaded what it holds
    mdCount      \* history: rollbacks and restarts

mdVars == <<mdActive, mdFallback, mdCut, mdVersion, mdEngine, mdAt, mdNote, mdFrozen, mdCooling, mdSince, mdTorn, mdBlur, mdCount>>
mdFiles == <<mdActive, mdFallback, mdCut>>
mdGuards == <<mdFrozen, mdCooling, mdSince>>

Trainer == "trainer"
Processes == Scorers \cup {Trainer}

Absent   == 0
NoBundle == [model |-> Absent, scaler |-> Absent, meta |-> Absent]
Whole(n) == [model |-> n, scaler |-> n, meta |-> n]
Bundles  == [model : 0..MaxModels, scaler : 0..MaxModels, meta : 0..MaxModels]

(* where a process is in a write of the bundles *)
Writes == {"keep_model", "keep_scaler", "keep_meta", "put_scaler", "put_model", "put_meta", "note", "note_put",
           "admin_model", "admin_scaler", "admin_meta", "live_model", "live_scaler", "live_meta"}

(* the file that is copied in place at each of them *)
Fields == {"model", "scaler", "meta"}
ActiveFile(field)   == <<"active", field>>
FallbackFile(field) == <<"fallback", field>>
Copied ==
    [keep_model  |-> FallbackFile("model"), keep_scaler  |-> FallbackFile("scaler"), keep_meta  |-> FallbackFile("meta"),
     admin_model |-> ActiveFile("model"),   admin_scaler |-> ActiveFile("scaler"),   admin_meta |-> ActiveFile("meta"),
     live_model  |-> ActiveFile("model"),   live_scaler  |-> ActiveFile("scaler"),   live_meta  |-> ActiveFile("meta")]

MdTypeOK ==
    /\ {mdActive, mdFallback} \subseteq Bundles
    /\ mdCut \subseteq {"active", "fallback"} \X Fields
    /\ mdVersion \in Seq(1..MaxModels) /\ Len(mdVersion) <= MaxModels
    /\ mdEngine \in [Processes -> Bundles]
    /\ mdAt \in [Processes -> Writes \cup {"idle", "training", "load_model", "load_scaler"}]
    /\ mdNote \in 0..MaxModels /\ mdSince \in 0..MaxModels
    /\ {mdFrozen, mdCooling, mdTorn} \subseteq BOOLEAN /\ mdBlur \in [Scorers -> BOOLEAN]
    /\ mdCount \in [rollbacks : 0..MaxRollbacks, restarts : 0..MaxRestarts]

MdInit ==
    /\ mdActive = NoBundle /\ mdFallback = NoBundle /\ mdCut = {} /\ mdVersion = <<>>
    /\ mdEngine = [p \in Processes |-> NoBundle] /\ mdAt = [p \in Processes |-> "idle"]
    /\ mdNote = Absent /\ mdFrozen = FALSE /\ mdCooling = FALSE /\ mdSince = 0
    /\ mdTorn = FALSE /\ mdBlur = [s \in Scorers |-> FALSE]
    /\ mdCount = [rollbacks |-> 0, restarts |-> 0]

UnderWay == \E p \in Processes : mdAt[p] \in Writes
VersionOf(n) == IF n = Absent THEN 0 ELSE mdVersion[n]
Go(p, at) == mdAt' = [mdAt EXCEPT ![p] = at]
BeginWrite ==
    /\ mdTorn' = (mdTorn \/ UnderWay)
    /\ mdBlur' = [s \in Scorers |-> mdBlur[s] \/ mdAt[s] \in {"load_model", "load_scaler"}]

-----------------------------------------------------------------------------
(* The retraining worker                                                    *)

Guarded == mdFrozen \/ mdCooling

(* Mutant: only the cooldown is looked at. *)
BeginUnlessCooling ==
    /\ mdAt[Trainer] = "idle" /\ ~mdCooling
    /\ Go(Trainer, "training")
    /\ UNCHANGED <<mdFiles, mdVersion, mdEngine, mdNote, mdGuards, mdTorn, mdBlur, mdCount>>

(* evaluate: enough new samples, or a bad recent win rate; the guards are   *)
(* looked at once.                                                           *)
BeginTraining ==
    /\ mdAt[Trainer] = "idle" /\ ~Guarded
    /\ Go(Trainer, "training")
    /\ UNCHANGED <<mdFiles, mdVersion, mdEngine, mdNote, mdGuards, mdTorn, mdBlur, mdCount>>

(* train, up to the verdict on the candidate: the metadata it is compared   *)
(* and numbered after is the one in memory, read only if there is none; a    *)
(* promotion begins with the active ones.  If they are cut short it raises.  *)
EndTraining ==
    LET previous == IF mdEngine[Trainer].meta # Absent THEN mdEngine[Trainer].meta ELSE mdActive.meta
    IN  /\ mdAt[Trainer] = "training"
        /\ \/ Go(Trainer, "idle") /\ UNCHANGED <<mdVersion, mdEngine, mdSince, mdTorn, mdBlur>>
           \/ /\ mdEngine[Trainer].meta # Absent \/ ActiveFile("meta") \notin mdCut
              /\ Go(Trainer, "idle")
              /\ mdEngine' = [mdEngine EXCEPT ![Trainer].meta = previous]
              /\ UNCHANGED <<mdVersion, mdSince, mdTorn, mdBlur>>
           \/ /\ Len(mdVersion) < MaxModels /\ ActiveFile("meta") \notin mdCut
              /\ mdVersion' = Append(mdVersion, VersionOf(previous) + 1)
              /\ mdEngine' = [mdEngine EXCEPT ![Trainer].meta = previous]
              /\ mdSince' = IF Guarded THEN mdSince + 1 ELSE mdSince
              /\ BeginWrite
              /\ Go(Trainer, "keep_model")
        /\ UNCHANGED <<mdFiles, mdNote, mdFrozen, mdCooling, mdCount>>

Candidate == Len(mdVersion)

(* A copy in place begins by truncating the file, if there is one to copy.   *)
(* A truncated source is copied as it is, but metadata are read before they  *)
(* are written back.                                                         *)
Filled(to, from) == mdCut' = IF from \in mdCut THEN mdCut \cup {to} ELSE mdCut \ {to}

BeginKeep(field) ==
    /\ mdAt[Trainer] \in DOMAIN Copied /\ Copied[mdAt[Trainer]] = FallbackFile(field)
    /\ mdActive[field] # Absent
    /\ mdFallback' = [mdFallback EXCEPT ![field] = mdActive[field]] /\ mdCut' = mdCut \cup {FallbackFile(field)}
    /\ UNCHANGED <<mdActive, mdVersion, mdEngine, mdAt, mdNote, mdGuards, mdTorn, mdBlur, mdCount>>

BeginBack(s, field) ==
    /\ mdAt[s] \in DOMAIN Copied /\ Copied[mdAt[s]] = ActiveFile(field)
    /\ mdFallback[field] # Absent /\ (field = "meta" => FallbackFile("meta") \notin mdCut)
    /\ mdActive' = [mdActive EXCEPT ![field] = mdFallback[field]] /\ mdCut' = mdCut \cup {ActiveFile(field)}
    /\ UNCHANGED <<mdFallback, mdVersion, mdEngine, mdAt, mdNote, mdGuards, mdTorn, mdBlur, mdCount>>

BeginCopy == \E field \in Fields : BeginKeep(field) \/ \E s \in Scorers : BeginBack(s, field)

(* promote_probability_model: the active files that exist are kept, and     *)
(* then replaced one by one, the metadata last.                              *)
Keep(at, field, next) ==
    /\ mdAt[Trainer] = at
    /\ IF mdActive[field] = Absent THEN UNCHANGED <<mdFallback, mdCut>>
       ELSE /\ mdFallback' = [mdFallback EXCEPT ![field] = mdActive[field]]
            /\ Filled(FallbackFile(field), ActiveFile(field))
    /\ Go(Trainer, next)
    /\ UNCHANGED <<mdActive, mdVersion, mdEngine, mdNote, mdGuards, mdTorn, mdBlur, mdCount>>

Store(at, field, next) ==
    /\ mdAt[Trainer] = at
    /\ mdActive' = [mdActive EXCEPT ![field] = Candidate] /\ mdCut' = mdCut \ {ActiveFile(field)}
    /\ mdEngine' = IF field = "meta" THEN [mdEngine EXCEPT ![Trainer] = Whole(Candidate)] ELSE mdEngine
    /\ Go(Trainer, next)
    /\ UNCHANGED <<mdFallback, mdVersion, mdNote, mdGuards, mdTorn, mdBlur, mdCount>>

PromoteModel ==
    \/ Keep("keep_model", "model", "keep_scaler") \/ Keep("keep_scaler", "scaler", "keep_meta")
    \/ Keep("keep_meta", "meta", "put_scaler")
    \/ Store("put_scaler", "scaler", "put_model") \/ Store("put_model", "model", "put_meta")
    \/ Store("put_meta", "meta", "note")

(* annotate_latest_probability_promotion: the metadata is read, and written *)
(* back with the trigger.                                                    *)
Annotate ==
    \/ /\ mdAt[Trainer] = "note" /\ ActiveFile("meta") \notin mdCut
       /\ mdNote' = mdActive.meta /\ Go(Trainer, "note_put")
       /\ UNCHANGED <<mdActive, mdCut>>
    \/ /\ mdAt[Trainer] = "note_put"
       /\ mdActive' = [mdActive EXCEPT !.meta = mdNote] /\ mdCut' = mdCut \ {ActiveFile("meta")}
       /\ mdNote' = Absent /\ Go(Trainer, "idle")
AnnotatePromotion ==
    Annotate /\ UNCHANGED <<mdFallback, mdVersion, mdEngine, mdGuards, mdTorn, mdBlur, mdCount>>

-----------------------------------------------------------------------------
(* The processes of the API                                                 *)

Loaded(bundle) == bundle.model # Absent \/ bundle.scaler # Absent

(* score begins with _refresh_active_model, which goes by the version, and  *)
(* raises when the metadata are cut short.                                   *)
Refresh(s) ==
    LET stale == mdActive.meta # Absent /\ VersionOf(mdActive.meta) # VersionOf(mdEngine[s].meta)
        held  == IF stale THEN [NoBundle EXCEPT !.meta = mdActive.meta] ELSE mdEngine[s]
    IN  /\ mdAt[s] = "idle" /\ ActiveFile("meta") \notin mdCut
        /\ mdEngine' = [mdEngine EXCEPT ![s] = held]
        /\ IF Absent \in {held.model, held.scaler}
           THEN Go(s, "load_model") /\ mdBlur' = [mdBlur EXCEPT ![s] = UnderWay \/ (@ /\ Loaded(held))]
           ELSE UNCHANGED <<mdAt, mdBlur>>
        /\ UNCHANGED <<mdFiles, mdVersion, mdNote, mdGuards, mdTorn, mdCount>>

(* _load_model and _load_scaler; without either the score is a heuristic. *)
Load(s, at, field, next) ==
    /\ mdAt[s] = at /\ (mdEngine[s][field] # Absent \/ ActiveFile(field) \notin mdCut)
    /\ mdEngine' = [mdEngine EXCEPT ![s][field] = IF @ = Absent THEN mdActive[field] ELSE @]
    /\ mdBlur' = [mdBlur EXCEPT ![s] = @ \/ UnderWay]
    /\ Go(s, next)
    /\ UNCHANGED <<mdFiles, mdVersion, mdNote, mdGuards, mdTorn, mdCount>>
LoadBundle(s) == Load(s, "load_model", "model", "load_scaler") \/ Load(s, "load_scaler", "scaler", "idle")

(* A file that was cut short is read, and the reader raises: a score, the    *)
(* annotation, or a rollback that has the model and the scaler in place.     *)
Reads(p) ==
    CASE mdAt[p] = "load_model" /\ mdEngine[p].model = Absent   -> {ActiveFile("model")}
      [] mdAt[p] = "load_scaler" /\ mdEngine[p].scaler = Absent -> {ActiveFile("scaler")}
      [] mdAt[p] \in {"admin_meta", "live_meta"}                -> {FallbackFile("meta")}
      [] mdAt[p] = "note"                                       -> {ActiveFile("meta")}
      [] OTHER                                                  -> {}

ReadFails(p) ==
    /\ Reads(p) \cap mdCut # {}
    /\ Go(p, "idle")
    /\ UNCHANGED <<mdFiles, mdVersion, mdEngine, mdNote, mdGuards, mdTorn, mdBlur, mdCount>>

(* rollback_model, and record_live_outcome of a model that is degraded,      *)
(* which has read the metadata; what it writes for the monitors is left out. *)
BeginRollback(s, at) ==
    /\ mdAt[s] = "idle" /\ mdCount.rollbacks < MaxRollbacks
    /\ Absent \notin {mdFallback.model, mdFallback.scaler}
    /\ at = "live_model" => ActiveFile("meta") \notin mdCut
    /\ Go(s, at)
    /\ BeginWrite
    /\ mdCount' = [mdCount EXCEPT !.rollbacks = @ + 1]
    /\ UNCHANGED <<mdFiles, mdVersion, mdEngine, mdNote, mdGuards>>

Back(s, at, field, next) ==
    /\ mdAt[s] = at
    /\ mdActive' = [mdActive EXCEPT ![field] = mdFallback[field]] /\ Filled(ActiveFile(field), FallbackFile(field))
    /\ Go(s, next)
    /\ UNCHANGED <<mdFallback, mdVersion, mdEngine, mdNote, mdGuards, mdTorn, mdBlur, mdCount>>

(* activate_probability_fallback ends with the metadata, if there is any.   *)
(* An administrator's rollback also resets the engine of its own process     *)
(* and starts the cooldown; it fails without metadata.                       *)
BackMeta(s, at) ==
    /\ mdAt[s] = at /\ FallbackFile("meta") \notin mdCut
    /\ IF mdFallback.meta = Absent THEN UNCHANGED <<mdActive, mdCut>>
       ELSE mdActive' = [mdActive EXCEPT !.meta = mdFallback.meta] /\ mdCut' = mdCut \ {ActiveFile("meta")}
    /\ IF at = "admin_meta" /\ mdFallback.meta # Absent
       THEN /\ mdEngine' = [mdEngine EXCEPT ![s] = [NoBundle EXCEPT !.meta = mdFallback.meta]]
            /\ mdCooling' = TRUE
            /\ mdSince' = IF Guarded THEN mdSince ELSE 0
       ELSE UNCHANGED <<mdEngine, mdCooling, mdSince>>
    /\ Go(s, "idle")
    /\ UNCHANGED <<mdFallback, mdVersion, mdNote, mdFrozen, mdTorn, mdBlur, mdCount>>

RollBack(s) ==
    \/ Back(s, "admin_model", "model", "admin_scaler") \/ Back(s, "admin_scaler", "scaler", "admin_meta")
    \/ Back(s, "live_model", "model", "live_scaler") \/ Back(s, "live_scaler", "scaler", "live_meta")
    \/ BackMeta(s, "admin_meta") \/ BackMeta(s, "live_meta")

(* set_freeze; the key lasts a day, the cooldown its own time. *)
SetFreeze(on) ==
    /\ mdFrozen' = on
    /\ mdSince' = IF Guarded /\ (on \/ mdCooling) THEN mdSince ELSE 0
    /\ UNCHANGED <<mdFiles, mdVersion, mdEngine, mdAt, mdNote, mdCooling, mdTorn, mdBlur, mdCount>>

FreezeExpires == mdFrozen /\ SetFreeze(FALSE)

CoolingEnds ==
    /\ mdCooling /\ mdCooling' = FALSE
    /\ mdSince' = IF mdFrozen THEN mdSince ELSE 0
    /\ UNCHANGED <<mdFiles, mdVersion, mdEngine, mdAt, mdNote, mdFrozen, mdTorn, mdBlur, mdCount>>

RestartOf(p) ==
    /\ mdCount.restarts < MaxRestarts
    /\ mdCount' = [mdCount EXCEPT !.restarts = @ + 1]
    /\ mdTorn' = (mdTorn \/ mdAt[p] \in Writes)
    /\ Go(p, "idle") /\ mdEngine' = [mdEngine EXCEPT ![p] = NoBundle]
    /\ mdNote' = IF p = Trainer THEN Absent ELSE mdNote
    /\ UNCHANGED <<mdFiles, mdVersion, mdGuards, mdBlur>>

MdNext ==
    \/ BeginTraining \/ EndTraining \/ PromoteModel \/ AnnotatePromotion
    \/ \E s \in Scorers : \/ Refresh(s) \/ LoadBundle(s) \/ RollBack(s)
                          \/ \E at \in {"admin_model", "live_model"} : BeginRollback(s, at)
    \/ \E on \in BOOLEAN : SetFreeze(on)
    \/ FreezeExpires \/ CoolingEnds \/ BeginCopy \/ \E p \in Processes : RestartOf(p) \/ ReadFails(p)

(* A process goes on with what it does, and there is always a next signal to *)
(* score.                                                                    *)
ScorerStep(s) == Refresh(s) \/ LoadBundle(s) \/ RollBack(s) \/ ReadFails(s)
MdFairness == \A s \in Scorers : WF_mdVars(ScorerStep(s))
MdSpec == MdInit /\ [][MdNext]_mdVars /\ MdFairness

-----------------------------------------------------------------------------
(* What the registry promises                                               *)

(* "Atomic model promotion with fallback bundles": when no write is under   *)
(* way, none was cut off and no two overlapped, each bundle is of one model, *)
(* and none of its files is cut short.                                       *)
BundlesAreWhole ==
    ~UnderWay /\ ~mdTorn => mdCut = {} /\ \E n, m \in 0..MaxModels : mdActive = Whole(n) /\ mdFallback = Whole(m)

Reused == {v \in 1..MaxModels : \E n, m \in DOMAIN mdVersion : n # m /\ mdVersion[n] = v /\ mdVersion[m] = v}

(* A scorer whose version is the active one scores with the active model and *)
(* its scaler, unless a write came in between, or the version was given      *)
(* twice: a worker that starts after a rollback numbers its next model *)
(* like the one that was rolled back.                                        *)
ScorersAgree ==
    ~UnderWay /\ ~mdTorn => \A s \in Scorers :
        /\ mdAt[s] = "idle" /\ ~mdBlur[s] /\ mdEngine[s].model # Absent /\ mdEngine[s].scaler # Absent
        /\ VersionOf(mdEngine[s].meta) = VersionOf(mdActive.meta) /\ VersionOf(mdActive.meta) \notin Reused
        => mdEngine[s] = mdActive

(* "Rollback cooldowns to prevent immediate re-promotion": after a freeze or *)
(* a rollback only the training that was under way may still promote.        *)
GuardsHold == Guarded => mdSince <= 1

(* Once the bundles are left alone, with no active file cut short, every     *)
(* process of the API comes to score with the active version: its stale      *)
(* model is dropped and a new one loaded, whatever it had read in a write.   *)
Readable == ~UnderWay /\ mdActive.meta # Absent /\ \A field \in Fields : ActiveFile(field) \notin mdCut
UpToDate(s) ==
    /\ VersionOf(mdEngine[s].meta) = VersionOf(mdActive.meta)
    /\ Absent \notin {mdEngine[s].model, mdEngine[s].scaler}
ScorersCatchUp == \A s \in Scorers : <>[]Readable => <>[]UpToDate(s)
=============================================================================
