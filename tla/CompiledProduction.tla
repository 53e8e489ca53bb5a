-------------------------- MODULE CompiledProduction --------------------------
(***************************************************************************)
(* The compiled image production of one episode (src/hybrid/compiled.py):  *)
(* its two bounded durable waves (throughput.py), the executor's rows      *)
(* (execution.py) and the visual verdicts that promote an image, order its *)
(* correction, or release a hero clip.                                     *)
(*                                                                         *)
(* The pipeline object (which image of a scene is active, which heroes     *)
(* were created and approved) lives in memory and dies with the process.   *)
(* The rows, the queues and the approved QA reports are on disk.           *)
(***************************************************************************)
EXTENDS FiniteSets, Integers

CONSTANTS
    Scenes,       \* the compiled frames
    Imported,     \* scenes with an imported asset, which are never submitted
    HeroScenes,   \* frames that need a hero clip
    Articulated,  \* those whose clip the motion inventory selects
    Codes,        \* the closed findings a correction may answer
    Owners,       \* who may run a baseline wave
    Operator,     \* who runs a correction wave
    Workers,      \* executor concurrency; the queues have no prefetch
    Reserve,      \* the jobs the executor's budget admits
    MaxFaults     \* bound: crashes, failures, cancellations

ASSUME CompiledConstants ==
    /\ Imported \subseteq Scenes
    /\ Articulated \subseteq HeroScenes /\ HeroScenes \subseteq Scenes \ Imported
    /\ {"first", "hero", "none"} \cap Codes = {}
    /\ Operator \notin Owners
    /\ Workers \in Nat \ {0} /\ Reserve \in Nat /\ MaxFaults \in Nat

VARIABLES
    row,      \* the executor's table jobs
    queue,    \* the items of the two durable queues
    wave,     \* the wave that holds the lock of each queue
    task,     \* the executor.run() under way for a job
    pipe,     \* the OperationalPipeline of the process
    reports,  \* the jobs with an approved QA report on disk
    mode,     \* the mode of the approved audio
    faults    \* faults left

prodVars == <<row, queue, wave, task, pipe, reports>>

Queues == {"baselines", "corrections"}
Images == {"first"} \cup Codes
Kinds == Images \cup {"hero"}
Submittable == Scenes \ Imported
Jobs == Submittable \X Kinds

First(s) == <<s, "first">>
Hero(s) == <<s, "hero">>
ItemsOf(q) == {j \in Jobs : j[2] \in IF q = "baselines" THEN {"first"} ELSE Codes}

NoRow == [status |-> "NONE", tech |-> FALSE, qa |-> "none"]
NoWave == [owner |-> "none", jobs |-> {}, done |-> {}, notify |-> {}]
NoPipe == [up |-> FALSE, active |-> [s \in Submittable |-> "first"],
           heroes |-> [s \in Submittable |-> "none"], approved |-> {}]

ExecutorRow == [status : {"NONE", "INTENT", "SUBMITTED", "OVERRUN", "COMPLETE"},
                tech : BOOLEAN, qa : {"none", "pass", "fail"}]
TaskPCs == {"none", "start", "post", "answer", "done", "failed"}
Pipeline == [up : BOOLEAN, active : [Submittable -> Images],
             heroes : [Submittable -> Images \cup {"none"}], approved : SUBSET Submittable]

ProductionTypeOK ==
    /\ row \in [Jobs -> ExecutorRow]
    /\ queue \in [Jobs -> {"ABSENT", "QUEUED", "RUNNING", "COMPLETE", "FAILED"}]
    /\ wave \in [Queues -> [owner : Owners \cup {Operator, "none"}, jobs : SUBSET Jobs,
                            done : SUBSET Jobs, notify : SUBSET Jobs]]
    /\ task \in [Jobs -> TaskPCs]
    /\ pipe \in Pipeline
    /\ reports \subseteq Jobs
    /\ mode \in {"TEST", "LIVE"}
    /\ faults \in 0..MaxFaults

ProductionInit ==
    /\ row = [j \in Jobs |-> NoRow]
    /\ queue = [j \in Jobs |-> "ABSENT"]
    /\ wave = [q \in Queues |-> NoWave]
    /\ task = [j \in Jobs |-> "none"]
    /\ pipe = NoPipe
    /\ reports = {}
    /\ mode \in {"TEST", "LIVE"}
    /\ faults = MaxFaults

Fault == faults > 0 /\ faults' = faults - 1

-----------------------------------------------------------------------------
(* ProductionRun and OperationalPipeline: what is active, eligible, ready *)

\* compile_storyboard(), OperationalPipeline(): a new object, every image the first.
OpenPipeline == pipe' = [NoPipe EXCEPT !.up = TRUE]

Active(s) == <<s, pipe.active[s]>>
Baselines == {First(s) : s \in Submittable}

\* _require_executable_motion_inventory() holds: the inventory is bound PASS.
Passed(j) == row[j].status = "COMPLETE" /\ row[j].qa = "pass"

\* ProductionRun.render_ready(), OperationalPipeline.render_ready()
RenderReady ==
    /\ mode = "TEST"
    /\ \A s \in Submittable : Passed(Active(s))
    /\ HeroScenes \subseteq {s \in Submittable : pipe.heroes[s] # "none"}
    /\ \A s \in Submittable : pipe.heroes[s] # "none" =>
          pipe.heroes[s] = "first" /\ Passed(Hero(s))
    /\ \A s \in Articulated : row[Hero(s)].tech

\* approved_manifest(), render_scenes()
ManifestApproved == \A s \in Submittable : Passed(Active(s)) /\ Active(s) \in reports
ScenesRender == pipe.up /\ RenderReady /\ ManifestApproved /\ HeroScenes \subseteq pipe.approved

\* The scenes a renderer gets: the image of each, and which have a clip.
RenderedScenes == [images |-> pipe.active, clips |-> pipe.approved]

\* eligible_hero_jobs(): the hero follows the image that is active now.
CreateHero(s) ==
    /\ pipe.up /\ s \in HeroScenes /\ pipe.heroes[s] = "none"
    /\ Passed(Active(s))
    /\ pipe' = [pipe EXCEPT !.heroes[s] = pipe.active[s]]
    /\ UNCHANGED <<row, queue, wave, task, reports, mode, faults>>

CorrectionOwed(s) == row[Active(s)].qa = "fail"

\* remediation_job(): one immutable successor of the rejected active image.
Remediate(s, f) ==
    /\ pipe.up /\ pipe.active[s] = "first"
    /\ CorrectionOwed(s)
    /\ pipe' = [pipe EXCEPT !.active[s] = f]
    /\ UNCHANGED <<row, queue, wave, task, reports, mode, faults>>

-----------------------------------------------------------------------------
(* Executor.run(): one job, from its reservation to its receipt *)

\* _reserve(): a first pass, the hero of an approved first pass, or the only
\* retry of a rejected image.
Reservable(j) ==
    /\ \A i \in Jobs : row[i].status # "OVERRUN"
    /\ Cardinality({i \in Jobs : row[i].status # "NONE"}) < Reserve
    /\ \/ j[2] = "first"
       \/ j[2] = "hero" /\ Passed(First(j[1])) /\ pipe.heroes[j[1]] = "first"
       \/ /\ j[2] \in Codes /\ row[First(j[1])].qa = "fail"
          /\ \A f \in Codes : row[<<j[1], f>>] = NoRow

Turn(j, pc) == task' = [task EXCEPT ![j] = pc]

\* Mutant: an intent without an answer is sent again.
StartsAgain(j) ==
    /\ task[j] = "start" /\ row[j].status \in {"NONE", "INTENT"}
    /\ row' = [row EXCEPT ![j].status = "INTENT"]
    /\ Turn(j, "post")
    /\ UNCHANGED <<queue, wave, pipe, reports, mode, faults>>

\* The task looks at its row: complete, known to the provider, never posted,
\* or posted without an id, which is never posted again.
RunStarts(j) ==
    /\ task[j] = "start"
    /\ \/ /\ row[j].status = "COMPLETE"
          /\ Turn(j, "done") /\ UNCHANGED row
       \/ /\ row[j].status = "SUBMITTED"
          /\ Turn(j, "answer") /\ UNCHANGED row
       \/ /\ row[j].status = "NONE" /\ Reservable(j)
          /\ row' = [row EXCEPT ![j].status = "INTENT"]
          /\ Turn(j, "post")
       \/ /\ row[j].status \in {"INTENT", "OVERRUN"} \/ (row[j].status = "NONE" /\ ~Reservable(j))
          /\ Turn(j, "failed") /\ UNCHANGED row
    /\ UNCHANGED <<queue, wave, pipe, reports, mode, faults>>

\* provider.submit() and its checkpoint, or an exception from it
RunPosts(j) ==
    /\ task[j] = "post"
    /\ \/ /\ row' = [row EXCEPT ![j].status = "SUBMITTED"]
          /\ Turn(j, "answer") /\ UNCHANGED faults
       \/ /\ Fault
          /\ Turn(j, "failed") /\ UNCHANGED row
    /\ UNCHANGED <<queue, wave, pipe, reports, mode>>

\* The result, good or bad; it may cost more than was reserved, or not come.
RunAnswers(j) ==
    /\ task[j] = "answer"
    /\ \/ /\ \E good \in BOOLEAN :
                row' = [row EXCEPT ![j] = [status |-> "COMPLETE", tech |-> good, qa |-> "none"]]
          /\ Turn(j, "done") /\ UNCHANGED faults
       \/ /\ Fault
          /\ row' \in {row, [row EXCEPT ![j].status = "OVERRUN"]}
          /\ Turn(j, "failed")
    /\ UNCHANGED <<queue, wave, pipe, reports, mode>>

-----------------------------------------------------------------------------
(* run_bounded_wave() on a DurableQueue *)

RunningOf(q) == {j \in ItemsOf(q) : queue[j] = "RUNNING"}
Materialized(q) == {j \in ItemsOf(q) : queue[j] \in {"QUEUED", "RUNNING"}}

\* requeue_running(), and the tasks of the wave are gone.
Requeued(q, Q) == [j \in Jobs |-> IF j \in RunningOf(q) /\ Q[j] = "RUNNING" THEN "QUEUED" ELSE Q[j]]
Cancelled(q) == [j \in Jobs |-> IF j \in ItemsOf(q) THEN "none" ELSE task[j]]

\* The lock is taken, interrupted items are queued again, complete ones count.
OpenWave(q, owner, J) ==
    /\ wave[q] = NoWave
    /\ LET kept == {j \in J : queue[j] = "COMPLETE"}
       IN  wave' = [wave EXCEPT ![q] = [owner |-> owner, jobs |-> J, done |-> kept, notify |-> kept]]
    /\ queue' = Requeued(q, queue)
    /\ UNCHANGED <<row, task, pipe, reports, mode, faults>>

\* An exception leaves the wave: tasks cancelled, items queued again, lock free.
RaiseWave(q, Q) ==
    /\ queue' = Requeued(q, Q)
    /\ task' = Cancelled(q)
    /\ wave' = [wave EXCEPT ![q] = NoWave]

HasRoom(q) == Cardinality(Materialized(q)) < Workers

\* requeue_failed(): a failed item is queued again; without room it raises.
RequeueFailed(q, j) ==
    /\ queue[j] = "FAILED"
    /\ IF HasRoom(q)
       THEN queue' = [queue EXCEPT ![j] = "QUEUED"] /\ UNCHANGED <<wave, task>>
       ELSE RaiseWave(q, queue)

\* The wave materialises its items as room appears.
Enqueue(q, j) ==
    /\ j \in wave[q].jobs
    /\ \/ /\ queue[j] = "ABSENT" /\ HasRoom(q)
          /\ queue' = [queue EXCEPT ![j] = "QUEUED"]
          /\ UNCHANGED <<wave, task>>
       \/ RequeueFailed(q, j)
    /\ UNCHANGED <<row, pipe, reports, mode, faults>>

\* claim(); an item of an earlier wave that this one does not know fails it.
Claim(q, j) ==
    /\ wave[q] # NoWave /\ j \in ItemsOf(q) /\ queue[j] = "QUEUED"
    /\ Cardinality(RunningOf(q)) < Workers
    /\ IF j \in wave[q].jobs
       THEN queue' = [queue EXCEPT ![j] = "RUNNING"] /\ Turn(j, "start") /\ UNCHANGED wave
       ELSE RaiseWave(q, [queue EXCEPT ![j] = "FAILED"])
    /\ UNCHANGED <<row, pipe, reports, mode, faults>>

\* A handler ended: complete() and a notification, or fail() and the wave raises.
Finish(q, j) ==
    /\ wave[q] # NoWave /\ j \in RunningOf(q)
    /\ \/ /\ task[j] = "done"
          /\ queue' = [queue EXCEPT ![j] = "COMPLETE"]
          /\ wave' = [wave EXCEPT ![q].done = @ \cup {j}, ![q].notify = @ \cup {j}]
          /\ Turn(j, "none")
       \/ task[j] = "failed" /\ RaiseWave(q, [queue EXCEPT ![j] = "FAILED"])
    /\ UNCHANGED <<row, pipe, reports, mode, faults>>

\* _record_technical_rejection(): the executor's verdict, with no report of a
\* reviewer behind it.
TechnicallyRejected(j) == [row EXCEPT ![j].qa = "fail"]

\* prepare_then_notify(): the packet of an image that is still active; one that
\* fails the technical check is rejected in the executor at once, which LIVE
\* work refuses, and then the wave raises.
Notify(q, j) ==
    /\ j \in wave[q].notify
    /\ Cardinality(RunningOf(q)) < Workers
    /\ LET bad == j = Active(j[1]) /\ ~row[j].tech
       IN  IF bad /\ mode = "LIVE"
           THEN RaiseWave(q, queue) /\ UNCHANGED row
           ELSE /\ wave' = [wave EXCEPT ![q].notify = @ \ {j}]
                /\ row' = IF bad THEN TechnicallyRejected(j) ELSE row
                /\ UNCHANGED <<queue, task>>
    /\ UNCHANGED <<pipe, reports, mode, faults>>

WaveComplete(q) == wave[q] # NoWave /\ wave[q].done = wave[q].jobs /\ wave[q].notify = {}

\* The caller is cancelled, or a completion callback raises.
CancelWave(q) ==
    /\ wave[q] # NoWave
    /\ Fault
    /\ RaiseWave(q, queue)
    /\ UNCHANGED <<row, pipe, reports, mode>>

\* dispatch_remediation_wave() of the corrections that were ordered
CorrectionWave(S) ==
    /\ pipe.up /\ S # {} /\ \A s \in S : pipe.active[s] \in Codes
    /\ OpenWave("corrections", Operator, {Active(s) : s \in S})

EndCorrectionWave ==
    /\ WaveComplete("corrections")
    /\ wave' = [wave EXCEPT !["corrections"] = NoWave]
    /\ UNCHANGED <<row, queue, task, pipe, reports, mode, faults>>

\* A hero is run by itself, outside the queues.
RunHero(s) ==
    /\ pipe.up /\ pipe.heroes[s] # "none" /\ task[Hero(s)] = "none"
    /\ row[Hero(s)].status # "COMPLETE"
    /\ Turn(Hero(s), IF pipe.heroes[s] = "first" THEN "start" ELSE "failed")
    /\ UNCHANGED <<row, queue, wave, pipe, reports, mode, faults>>

EndHero(s) ==
    /\ task[Hero(s)] \in {"done", "failed"}
    /\ Turn(Hero(s), "none")
    /\ UNCHANGED <<row, queue, wave, pipe, reports, mode, faults>>

-----------------------------------------------------------------------------
(* Visual QA *)

\* prepare_qa_packets(): the active images with a complete receipt
Packets == {s \in Submittable : pipe.up /\ row[Active(s)].status = "COMPLETE"}

\* Mutant: a verdict may be overwritten.
JudgeAgain(j, verdict) == row[j].status = "COMPLETE"

\* Executor.qa(): a verdict is immutable, repeating it changes nothing.
Judgeable(j, verdict) == row[j].status = "COMPLETE" /\ row[j].qa \in {"none", verdict}

\* record_visual_qa(): self-asserted reviewers judge TEST work only, images and
\* selected clips only after the technical check.
MayReview(j, verdict) ==
    /\ mode = "TEST"
    /\ (j[2] # "hero" \/ j[1] \in Articulated) => row[j].tech
    /\ Judgeable(j, verdict)

Judged(j, verdict) == [row EXCEPT ![j].qa = verdict]

\* record_visual_qa() of a hero; its report and promotion follow in Promote.
JudgeHero(s, verdict) ==
    /\ pipe.up /\ pipe.heroes[s] = "first" /\ MayReview(Hero(s), verdict)
    /\ row' = Judged(Hero(s), verdict)
    /\ UNCHANGED <<queue, wave, task, pipe, reports, mode, faults>>

\* The rest of record_visual_qa(): the report, then the promoted asset.  After a
\* restart the call is repeated, and the verdict in the row stands.
PromoteHero(s) ==
    /\ pipe.up /\ pipe.heroes[s] = "first" /\ Passed(Hero(s)) /\ s \notin pipe.approved
    /\ reports' = reports \cup {Hero(s)}
    /\ pipe' = [pipe EXCEPT !.approved = @ \cup {s}]
    /\ UNCHANGED <<row, queue, wave, task, mode, faults>>

-----------------------------------------------------------------------------
\* The process dies: locks are released, a RUNNING item stays RUNNING.
ProductionCrash ==
    /\ wave' = [q \in Queues |-> NoWave]
    /\ task' = [j \in Jobs |-> "none"]
    /\ pipe' = NoPipe
    /\ UNCHANGED <<row, queue, reports, mode>>

ProductionNext ==
    \/ \E j \in Jobs : RunStarts(j) \/ RunPosts(j) \/ RunAnswers(j)
    \/ \E q \in Queues : \/ CancelWave(q)
                          \/ \E j \in Jobs : Enqueue(q, j) \/ Claim(q, j) \/ Finish(q, j) \/ Notify(q, j)
    \/ \E s \in Submittable : \/ CreateHero(s) \/ RunHero(s) \/ EndHero(s) \/ PromoteHero(s)
                              \/ \E v \in {"pass", "fail"} : JudgeHero(s, v)
                              \/ \E f \in Codes : Remediate(s, f)
    \/ \E S \in SUBSET Submittable : CorrectionWave(S)
    \/ EndCorrectionWave

-----------------------------------------------------------------------------
(* Properties *)

\* A job is sent to its provider once: whoever cancels, fails or requeues its item
\* while the request may be paid for, no later wave, hero run or process posts it
\* again (throughput.py:418-437, Executor.run).
JobsPostOnce ==
    [][\A j \in Jobs : row[j].status # "NONE" =>
          row'[j].status # "NONE" /\ (task'[j] = "post" => task[j] = "post")]_prodVars

=============================================================================
