------------------------------- MODULE Releases -------------------------------
(***************************************************************************)
(* The deployment of a release to one environment: jobs of the workflow      *)
(* deploy-production (or -staging), each of which validates a manifest,      *)
(* lets a canary take a tenth of the traffic, promotes its image or goes     *)
(* back, and watches the promoted release (scripts/canary_rollout.py,        *)
(* k8s_post_deploy_smoke.py, post_promotion_monitor.py).                     *)
(*                                                                         *)
(* Helm runs one operation at a time and keeps a revision of each; jobs      *)
(* overlap between their operations.  What a revision deploys is the image   *)
(* of the stable deployment and that of the canary.                          *)
(***************************************************************************)
EXTENDS Integers, Sequences, FiniteSets

CONSTANTS
    Deploys,           \* jobs, started in the order of their numbers
    Digests,           \* images a manifest may name
    FirstDigest,       \* the one deployed at first, if any is
    MinRequests, MinTrades, MaxErrorPct, MinSuccessPct, MaxExposure,   \* canary.analysis
    RollbackOnAlert,   \* rolloutMonitoring.analysis.rollbackOnAlert
    RunnersDie         \* a job may be cancelled, or its runner die

ASSUME ReleasesAssumption ==
    /\ Deploys \subseteq Nat \ {0} /\ IsFiniteSet(Deploys) /\ FirstDigest \in Digests
    /\ MinRequests \in Nat /\ MinTrades \in Nat /\ MaxExposure \in Nat
    /\ {MaxErrorPct, MinSuccessPct} \subseteq 0..100 /\ {RollbackOnAlert, RunnersDie} \subseteq BOOLEAN

VARIABLES
    rlRevs,     \* the revisions of the release, oldest first
    rlLive,     \* what the cluster runs
    rlJob,      \* the jobs, see Fresh
    rlJudged,   \* history: images a canary analysis found healthy
    rlExcused   \* history: images that became stable without one, see Promote and Bootstrap

rlVars == <<rlRevs, rlLive, rlJob, rlJudged, rlExcused>>

NoImage == "none"
Nothing == [stable |-> NoImage, canary |-> NoImage]
Release == [stable : Digests, canary : Digests \cup {NoImage}]

Fresh == [at |-> "new", target |-> NoImage, current |-> NoImage, before |-> 0,
          was |-> Nothing,        \* history: the cluster when the job looked at it
          disturbed |-> FALSE]    \* history: another job changed the release since

Ended == {"done", "failed", "undone", "killed"}

RlTypeOK ==
    /\ \A i \in DOMAIN rlRevs : rlRevs[i] \in Release
    /\ rlLive \in Release \cup {Nothing}
    /\ \A j \in Deploys :
        /\ rlJob[j].at \in Ended \cup {"new", "ready", "surveyed", "bootstrap", "match", "canary", "watch", "promote",
                                       "smoke", "monitor", "undo"}
        /\ {rlJob[j].target, rlJob[j].current} \subseteq Digests \cup {NoImage}
        /\ rlJob[j].before \in 0..Len(rlRevs)
    /\ rlJudged \cup rlExcused \subseteq Digests

RlInit ==
    /\ rlLive \in {Nothing, [stable |-> FirstDigest, canary |-> NoImage]}
    /\ rlRevs = IF rlLive = Nothing THEN <<>> ELSE <<rlLive>>
    /\ rlJob = [j \in Deploys |-> Fresh]
    /\ rlJudged = {} /\ rlExcused = {rlLive.stable} \ {NoImage}

-----------------------------------------------------------------------------
(* The analysis: metrics of a service at two times.  Counters are summed    *)
(* over their labels; exposure stands for the eleven gauges of portfolio     *)
(* risk, which are all compared like it, and slow for the mean latency.      *)

Snapshots == [requests : 0..2, errors : 0..1, trades : 0..1, successes : 0..1, slow : BOOLEAN, exposure : 0..1]   \* bound

AtLeastZero(n) == IF n < 0 THEN 0 ELSE n

(* A pod that restarts between the two begins again at zero. *)
Diff(first, last) ==
    [requests  |-> AtLeastZero(last.requests - first.requests),
     errors    |-> AtLeastZero(last.errors - first.errors),
     trades    |-> AtLeastZero(last.trades - first.trades),
     successes |-> AtLeastZero(last.successes - first.successes),
     slow      |-> last.slow,
     exposure  |-> last.exposure]

Healthy(delta) ==
    /\ delta.requests >= MinRequests
    /\ delta.requests = 0 \/ 100 * delta.errors <= MaxErrorPct * delta.requests
    /\ ~delta.slow
    /\ delta.trades >= MinTrades
    /\ 100 * delta.successes >= MinSuccessPct * delta.trades
    /\ delta.exposure <= MaxExposure

Deltas   == {Diff(first, last) : first \in Snapshots, last \in Snapshots}
Verdicts == {Healthy(delta) : delta \in Deltas}

(* Prometheus is asked for the increases of the stable pods, and the        *)
(* Alertmanager for the release's alerts.                                    *)
StableHealthy(metrics, alerts) == Healthy(metrics) /\ ~(alerts /\ RollbackOnAlert)
StableVerdicts == {StableHealthy(metrics, alerts) : metrics \in Deltas, alerts \in BOOLEAN}

-----------------------------------------------------------------------------
(* Helm                                                                     *)

Active(j) == rlJob[j].at \notin Ended \cup {"new"}
WithJob(j, job) == [k \in Deploys |-> IF k = j THEN job
                                  ELSE IF Active(k) THEN [rlJob[k] EXCEPT !.disturbed = TRUE] ELSE rlJob[k]]

(* An operation succeeds, and the job goes on as well; it fails, after it   *)
(* was recorded and perhaps carried out, or at once, and the job as failing. *)
Helm(j, content, well, failing) ==
    \/ /\ rlRevs' = Append(rlRevs, content) /\ rlLive' = content
       /\ rlJob' = WithJob(j, well)
    \/ /\ rlRevs' = Append(rlRevs, content) /\ rlLive' \in {content, rlLive}
       /\ rlJob' = WithJob(j, failing)
    \/ /\ UNCHANGED <<rlRevs, rlLive>>
       /\ rlJob' = [rlJob EXCEPT ![j] = failing]

(* What a job knew ends with it. *)
Moved(j, at) == [(IF at \in Ended THEN Fresh ELSE rlJob[j]) EXCEPT !.at = at]
Move(j, at) == rlJob' = [rlJob EXCEPT ![j] = Moved(j, at)] /\ UNCHANGED <<rlRevs, rlLive, rlExcused>>

-----------------------------------------------------------------------------
(* resolve, pre_deploy_validate, verify_image_signature: each may refuse. *)
StartJob(j) ==
    /\ rlJob[j].at = "new" /\ \A k \in Deploys : k < j => rlJob[k].at # "new"
    /\ \E d \in Digests :
          \/ rlJob' = [rlJob EXCEPT ![j] = [Fresh EXCEPT !.at = "ready", !.target = d]]
          \/ rlJob' = [rlJob EXCEPT ![j].at = "failed"]
    /\ UNCHANGED <<rlRevs, rlLive, rlJudged, rlExcused>>

(* main asks helm for the newest revision, and then kubectl for the stable  *)
(* image.  Either is taken to be absent when its tool fails; without an      *)
(* image it is a bootstrap.                                                  *)
Survey(j) ==
    /\ rlJob[j].at = "ready"
    /\ \E before \in {0, Len(rlRevs)} :
          rlJob' = [rlJob EXCEPT ![j] = [@ EXCEPT !.before = before, !.was = rlLive, !.at = "surveyed"]]
    /\ UNCHANGED <<rlRevs, rlLive, rlJudged, rlExcused>>

FindImage(j) ==
    /\ rlJob[j].at = "surveyed"
    /\ \E current \in {NoImage, rlLive.stable} :
          rlJob' = [rlJob EXCEPT ![j] =
              [@ EXCEPT !.current = current, !.at = IF current = NoImage THEN "bootstrap"
                                                    ELSE IF current = rlJob[j].target THEN "match" ELSE "canary"]]
    /\ UNCHANGED <<rlRevs, rlLive, rlJudged, rlExcused>>

(* Nothing to compare with: the whole deployment gets the image. *)
Bootstrap(j) ==
    /\ rlJob[j].at = "bootstrap"
    /\ Helm(j, [stable |-> rlJob[j].target, canary |-> NoImage], Moved(j, "smoke"), Moved(j, "undo"))
    /\ rlExcused' = rlExcused \cup {rlJob[j].target}
    /\ UNCHANGED rlJudged

(* The image is stable already: what is left of a canary is removed. *)
RemoveCanary(j) ==
    /\ rlJob[j].at = "match"
    /\ Helm(j, [stable |-> rlJob[j].target, canary |-> NoImage], Moved(j, "smoke"), Moved(j, "undo"))
    /\ UNCHANGED <<rlJudged, rlExcused>>

DeployCanary(j) ==
    /\ rlJob[j].at = "canary"
    /\ Helm(j, [stable |-> rlJob[j].current, canary |-> rlJob[j].target], Moved(j, "watch"), Moved(j, "undo"))
    /\ UNCHANGED <<rlJudged, rlExcused>>

(* Mutant: an analysis without a verdict counts as a good one. *)
WatchCanaryLightly(j) ==
    /\ rlJob[j].at = "watch"
    /\ \E healthy \in Verdicts :
          IF healthy /\ rlLive.canary # NoImage
          THEN rlJudged' = rlJudged \cup {rlLive.canary} /\ Move(j, "promote")
          ELSE UNCHANGED rlJudged /\ \E at \in {"undo", "promote"} : Move(j, at)

(* _monitor_canary: the service is that of whatever canary runs now.  Any   *)
(* request that fails ends the analysis.                                     *)
WatchCanary(j) ==
    /\ rlJob[j].at = "watch"
    /\ \E healthy \in Verdicts :
          IF healthy /\ rlLive.canary # NoImage
          THEN rlJudged' = rlJudged \cup {rlLive.canary} /\ Move(j, "promote")
          ELSE UNCHANGED rlJudged /\ Move(j, "undo")

(* A job that was disturbed may promote an image it did not watch. *)
Promote(j) ==
    /\ rlJob[j].at = "promote"
    /\ Helm(j, [stable |-> rlJob[j].target, canary |-> NoImage], Moved(j, "smoke"), Moved(j, "undo"))
    /\ rlExcused' = rlExcused \cup (IF rlJob[j].disturbed THEN {rlJob[j].target} ELSE {})
    /\ UNCHANGED rlJudged

(* The handler of main, and the end of the monitor: without a revision to   *)
(* go back to nothing is done.                                               *)
GoBack(j) ==
    /\ rlJob[j].at = "undo"
    /\ IF rlJob[j].before = 0 THEN Move(j, "failed")
       ELSE Helm(j, rlRevs[rlJob[j].before], Moved(j, "undone"), Moved(j, "failed")) /\ UNCHANGED rlExcused
    /\ UNCHANGED rlJudged

(* A smoke check that fails ends the job with the release in place. *)
Smoke(j) ==
    /\ rlJob[j].at = "smoke"
    /\ \E at \in {"monitor", "failed"} : Move(j, at)
    /\ UNCHANGED rlJudged

(* _monitor_post_promotion: the window passes, or the first bad evaluation   *)
(* ends it; a query that fails ends the job instead.                         *)
MonitorRelease(j) ==
    /\ rlJob[j].at = "monitor"
    /\ \/ Move(j, "failed")
       \/ \E healthy \in StableVerdicts : Move(j, IF healthy THEN "done" ELSE "undo")
    /\ UNCHANGED rlJudged

RunnerDies(j) ==
    /\ RunnersDie /\ Active(j)
    /\ Move(j, "killed") /\ UNCHANGED rlJudged

StepDeploy(j) ==
    \/ Survey(j) \/ FindImage(j) \/ Bootstrap(j) \/ RemoveCanary(j) \/ DeployCanary(j) \/ WatchCanary(j)
    \/ Promote(j) \/ GoBack(j) \/ Smoke(j) \/ MonitorRelease(j)

RlNext == \E j \in Deploys : StartJob(j) \/ StepDeploy(j) \/ RunnerDies(j)

(* Every step of a job has a timeout. *)
RlFairness == \A j \in Deploys : WF_rlVars(StepDeploy(j))
RlSpec == RlInit /\ [][RlNext]_rlVars /\ RlFairness

-----------------------------------------------------------------------------
(* What the workflow promises                                               *)

(* "only promote the digest to the stable deployment when the canary stays  *)
(* healthy": through all jobs, failures and returns to older revisions, a    *)
(* stable image was found healthy, or it was there first, or a job took the  *)
(* deployment to be missing, or two jobs overlapped.                         *)
Vetted == rlJudged \cup rlExcused \cup {NoImage}

(* A job whose rollback succeeds, and which no other has disturbed, leaves   *)
(* the release that it found, if that was in the state of its newest         *)
(* revision.                                                                 *)
GoneBack ==
    [][\A j \in Deploys :
         /\ rlJob[j].at = "undo" /\ rlJob'[j].at = "undone"
         /\ ~rlJob[j].disturbed /\ rlRevs[rlJob[j].before] = rlJob[j].was
         => rlLive' = rlJob[j].was]_rlVars

(* After a killed or failed job the next one that ends well has left no      *)
(* canary behind.                                                            *)
NoCanaryLeft ==
    [][\A j \in Deploys : rlJob[j].at = "smoke" /\ rlJob'[j].at = "monitor" /\ ~rlJob[j].disturbed
         => rlLive.canary = NoImage]_rlVars

(* Every job ends. *)
DeploysEnd == \A j \in Deploys : []<>~Active(j)

(* What is deployed was watched, can be taken back, and no job hangs.        *)
ReleasesAreVetted == [](rlLive.stable \in Vetted) /\ GoneBack /\ NoCanaryLeft /\ DeploysEnd
=============================================================================
