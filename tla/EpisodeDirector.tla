--------------------------- MODULE EpisodeDirector ---------------------------
(***************************************************************************)
(* The director of one episode (src/agents/director.py): from the request  *)
(* through the plan gate, the script, the audio and the storyboard to the  *)
(* compiled production, the render and the final QA that opens the gates.  *)
(*                                                                         *)
(* A call is one invocation of an async method.  It loads state.json once, *)
(* keeps the loaded store across its awaits, and saves its own copy: each  *)
(* save is a step, and calls interleave at their awaits.  A render runs in *)
(* a thread of its own behind .compiled-render.lock.  A crash ends every   *)
(* call and thread and leaves what is on disk.                             *)
(***************************************************************************)
EXTENDS EpisodeState, CompiledProduction

CONSTANTS
    Threads,    \* the render threads: a flight, and a worker's own render
    Flight,     \* the thread the async calls of this process share
    Nobody,     \* the render lock is free
    Holds,      \* closing holds a caller may ask for
    Nothing     \* no such file

ASSUME DirectorConstants ==
    /\ Flight \in Threads /\ Nobody \notin Threads
    /\ Holds \subseteq 3..5

VARIABLES
    store,     \* state.json, or Nothing
    plan,      \* plan.json and the receipt of its approval
    call,      \* the calls
    thread,    \* the render threads
    lock,      \* .compiled-render.lock
    intent, video, completion, receipt,  \* render evidence: Nothing, or the contract it binds
    qa,        \* the passing QA reports of the master on disk
    sidecars,  \* captions, thumbnail and metadata were made
    costs,     \* the jobs costs.json accounts for
    authority, \* LIVE authority for the baselines was issued
    renders    \* how often the renderer published a master

renderFiles == <<intent, video, completion, receipt>>
renderVars == <<thread, lock, renderFiles, renders>>
deliveryVars == <<qa, sidecars>>
ledgers == <<costs, authority>>
production == <<prodVars, mode>>
vars == <<production, faults, store, plan, call, renderVars, deliveryVars, ledgers>>

Reviews == {"evidence", "narrative"}
Contract == [hold : Holds, scenes : [images : [Submittable -> Images], clips : SUBSET Submittable]]
Plan == [ready : BOOLEAN, within : BOOLEAN, answer : {"none", "D", "other"}, approved : BOOLEAN]
Verdicts == UNION {[J -> {"pass", "fail"}] : J \in SUBSET Jobs}

ASSUME NothingIsNoFile == Nothing \notin Store \cup Contract

NoPlan == [ready |-> FALSE, within |-> FALSE, answer |-> "none", approved |-> FALSE]
NoCall == [pc |-> "idle", mem |-> NewStore, plan |-> NoPlan,
           verdicts |-> [j \in {} |-> "pass"]]
NoThread == [pc |-> "idle", contract |-> Nothing, mem |-> NewStore]

CallPCs == {"idle", "research", "planning", "asking", "planfile", "read", "script", "scriptqa",
            "audio", "storyboard", "queued", "wave", "judge", "flight", "sidecars", "finalqa"}
ThreadPCs == {"idle", "queued", "intent", "local", "assembling", "render", "commit", "recover",
              "receipt", "advance"}

Call == [pc : CallPCs, mem : Store, plan : Plan, verdicts : Verdicts]
RenderThread == [pc : ThreadPCs, contract : Contract \cup {Nothing}, mem : Store]

DirectorTypeOK ==
    /\ ProductionTypeOK
    /\ store \in Store \cup {Nothing}
    /\ plan \in Plan
    /\ call \in [Owners -> Call]
    /\ thread \in [Threads -> RenderThread]
    /\ lock \in Threads \cup {Nobody}
    /\ {intent, video, completion, receipt} \subseteq Contract \cup {Nothing}
    /\ qa \subseteq Reviews /\ sidecars \in BOOLEAN
    /\ costs \subseteq Jobs /\ authority \in BOOLEAN
    /\ renders \in Nat

DirectorInit ==
    /\ ProductionInit
    /\ store = Nothing /\ plan = NoPlan
    /\ call = [c \in Owners |-> NoCall]
    /\ thread = [t \in Threads |-> NoThread]
    /\ lock = Nobody
    /\ intent = Nothing /\ video = Nothing /\ completion = Nothing /\ receipt = Nothing
    /\ qa = {} /\ sidecars = FALSE
    /\ costs = {} /\ authority = FALSE
    /\ renders = 0

-----------------------------------------------------------------------------
(* Helpers *)

Loaded == Reloaded(store)
At(c, pc) == call[c].pc = pc
Goto(c, pc) == call' = [call EXCEPT ![c].pc = pc]
End(c) == call' = [call EXCEPT ![c] = NoCall]

\* A method is called: load state.json and go to its first await.
Enter(c, pc) ==
    /\ At(c, "idle")
    /\ call' = [call EXCEPT ![c] = [NoCall EXCEPT !.pc = pc, !.mem = Loaded]]

\* transition_to() and save() of the store the call loaded, and what comes next;
\* an invalid transition raises before anything is saved.
SaveAs(c, to, pc) ==
    IF CanTransition(call[c].mem, to)
    THEN /\ store' = TransitionTo(call[c].mem, to)
         /\ call' = [call EXCEPT ![c] = IF pc = "idle" THEN NoCall
                                        ELSE [@ EXCEPT !.mem = store', !.pc = pc]]
    ELSE End(c) /\ UNCHANGED store

\* An agent ran: go on to the next state, or save FAILED and return.
AgentRan(c, to, pc) ==
    \/ SaveAs(c, to, pc) /\ UNCHANGED faults
    \/ Fault /\ SaveAs(c, "FAILED", "idle")

InState(S) == store # Nothing /\ store.cur \in S

-----------------------------------------------------------------------------
(* start_episode(), _run_preproduction() *)

\* An episode directory is never started twice.
StartEpisode(c) ==
    /\ At(c, "idle") /\ store = Nothing
    /\ store' = TransitionTo(NewStore, "RESEARCHING")
    /\ call' = [call EXCEPT ![c].pc = "research", ![c].mem = store']
    /\ UNCHANGED <<production, faults, plan, renderVars, deliveryVars, ledgers>>

Research(c) ==
    /\ At(c, "research")
    /\ AgentRan(c, "PLANNING", "planning")
    /\ UNCHANGED <<production, plan, renderVars, deliveryVars, ledgers>>

\* The duration plan, within the budget or not; one that is not is put to a
\* human when the caller asks for that, and is only announced otherwise.
PlanEpisode(c) ==
    /\ At(c, "planning")
    /\ \E within, asked \in BOOLEAN :
          /\ store' = TransitionTo(call[c].mem, "WAITING_PLAN_APPROVAL")
          /\ call' = [call EXCEPT ![c].mem = store', ![c].plan.within = within,
                                  ![c].pc = IF asked /\ ~within THEN "asking" ELSE "planfile"]
    /\ UNCHANGED <<production, faults, plan, renderVars, deliveryVars, ledgers>>

\* request_approval(): a choice, or none in time, which pauses the episode.
AskBudget(c) ==
    /\ At(c, "asking")
    /\ \/ /\ \E a \in {"D", "other"} : call' = [call EXCEPT ![c].plan.answer = a, ![c].pc = "planfile"]
          /\ UNCHANGED <<store, faults>>
       \/ Fault /\ SaveAs(c, "PAUSED", "planfile")
    /\ UNCHANGED <<production, plan, renderVars, deliveryVars, ledgers>>

WritePlan(c) ==
    /\ At(c, "planfile")
    /\ plan' = [call[c].plan EXCEPT !.ready = TRUE]
    /\ End(c)
    /\ UNCHANGED <<production, faults, store, renderVars, deliveryVars, ledgers>>

-----------------------------------------------------------------------------
(* continue_after_approval(), _run_production() *)

\* record_plan_approval(): a human approves these exact plan bytes.
ApprovePlan ==
    /\ plan.ready /\ ~plan.approved
    /\ plan' = [plan EXCEPT !.approved = TRUE]
    /\ UNCHANGED <<production, faults, store, call, renderVars, deliveryVars, ledgers>>

\* Mutant: any answer to the budget question admits the plan.
AnyAnswer == plan.within \/ plan.answer # "none"

BudgetAdmits == plan.within \/ plan.answer = "D"

\* "plan": a plan over the budget waits for a budget approval, an approved one
\* within it goes to production.
ContinuePlan(c) ==
    /\ At(c, "idle") /\ store # Nothing /\ plan.ready
    /\ IF BudgetAdmits
       THEN /\ plan.approved /\ CanTransition(Loaded, "SCRIPTING")
            /\ Enter(c, "read")
            /\ UNCHANGED store
       ELSE /\ CanTransition(Loaded, "WAITING_BUDGET_APPROVAL")
            /\ store' = TransitionTo(Loaded, "WAITING_BUDGET_APPROVAL")
            /\ UNCHANGED call
    /\ UNCHANGED <<production, faults, plan, renderVars, deliveryVars, ledgers>>

\* "budget", in whatever state the table lets go there
ContinueBudget ==
    /\ store # Nothing /\ CanTransition(Loaded, "CLOUD_VIDEO_GENERATION")
    /\ store' = TransitionTo(Loaded, "CLOUD_VIDEO_GENERATION")
    /\ UNCHANGED <<production, faults, plan, call, renderVars, deliveryVars, ledgers>>

\* The five saves of _run_production(), each after an await.
Produce(c) ==
    /\ \/ At(c, "read") /\ SaveAs(c, "SCRIPTING", "script") /\ UNCHANGED faults
       \/ At(c, "script") /\ AgentRan(c, "SCRIPT_QA", "scriptqa")
       \/ At(c, "scriptqa") /\ AgentRan(c, "GENERATING_AUDIO", "audio")
       \/ At(c, "audio") /\ AgentRan(c, "STORYBOARDING", "storyboard")
       \/ At(c, "storyboard") /\ AgentRan(c, "GENERATING_IMAGES", "idle")
    /\ UNCHANGED <<production, plan, renderVars, deliveryVars, ledgers>>

-----------------------------------------------------------------------------
(* Compiled production: activation, LIVE authority, dispatch, visual QA *)

\* activate_compiled_production(), and create_operational_pipeline() after a restart
Activate ==
    /\ InState({"GENERATING_IMAGES", "VISUAL_QA", "PLANNING_ANIMATION", "LOCAL_ANIMATION",
                "ASSEMBLING", "FINAL_QA"})
    /\ ~pipe.up
    /\ OpenPipeline
    /\ UNCHANGED <<row, queue, wave, task, reports, mode, faults, store, plan, call, renderVars,
                   deliveryVars, ledgers>>

\* issue_compiled_live_preflight(): the whole batch fits what the ledger leaves.
IssuePreflight ==
    /\ mode = "LIVE" /\ pipe.up /\ InState({"GENERATING_IMAGES"}) /\ ~authority
    /\ Cardinality(costs) + Cardinality(Baselines) <= Reserve
    /\ authority' = TRUE
    /\ UNCHANGED <<production, faults, store, plan, call, renderVars, deliveryVars, costs>>

Dispatch(c) ==
    /\ pipe.up /\ InState({"GENERATING_IMAGES"})
    /\ mode = "LIVE" => authority
    /\ Enter(c, "queued")
    /\ UNCHANGED <<production, faults, store, plan, renderVars, deliveryVars, ledgers>>

OpenBaselines(c) ==
    /\ At(c, "queued") /\ pipe.up
    /\ OpenWave("baselines", c, Baselines)
    /\ Goto(c, "wave")
    /\ UNCHANGED <<store, plan, renderVars, deliveryVars, ledgers>>

\* The wave is over: the receipts go to costs.json, and the episode to visual QA
\* unless an active image has no packet.
CloseBaselines(c) ==
    /\ At(c, "wave") /\ wave["baselines"].owner = c /\ WaveComplete("baselines")
    /\ wave' = [wave EXCEPT !["baselines"] = NoWave]
    /\ costs' = costs \cup {j \in Jobs : row[j].status = "COMPLETE"}
    /\ IF Packets = Submittable
       THEN SaveAs(c, "VISUAL_QA", "idle")
       ELSE End(c) /\ UNCHANGED store
    /\ UNCHANGED <<row, queue, task, pipe, reports, mode, faults, plan, renderVars, deliveryVars,
                   authority>>

DispatchRaises(c) ==
    /\ At(c, "wave") /\ wave["baselines"].owner # c
    /\ End(c)
    /\ UNCHANGED <<production, faults, store, plan, renderVars, deliveryVars, ledgers>>

\* record_compiled_visual_qa(): a verdict for every packet, bound to its bytes.
Review(c) ==
    /\ InState({"VISUAL_QA"}) /\ Packets # {} /\ At(c, "idle")
    /\ \E v \in [{Active(s) : s \in Packets} -> {"pass", "fail"}] :
          call' = [call EXCEPT ![c].pc = "judge", ![c].mem = Loaded, ![c].verdicts = v]
    /\ UNCHANGED <<production, faults, store, plan, renderVars, deliveryVars, ledgers>>

Unrecorded(c) == {j \in DOMAIN call[c].verdicts :
                    row[j].qa # call[c].verdicts[j] \/ (row[j].qa = "pass" /\ j \notin reports)}

\* One candidate: the executor's row, then the report; a refused verdict or a
\* failure in between leaves the scenes after it undecided.
RecordVerdict(c, j) ==
    LET v == call[c].verdicts[j]
    IN  /\ At(c, "judge") /\ j \in Unrecorded(c)
        /\ \/ /\ MayReview(j, v)
              /\ row' = Judged(j, v)
              /\ \/ reports' = (IF v = "pass" THEN reports \cup {j} ELSE reports) /\ UNCHANGED <<call, faults>>
                 \/ Fault /\ v = "pass" /\ End(c) /\ UNCHANGED reports
           \/ ~MayReview(j, v) /\ End(c) /\ UNCHANGED <<row, reports, faults>>
        /\ UNCHANGED <<queue, wave, task, pipe, mode, store, plan, renderVars, deliveryVars, ledgers>>

CloseReview(c) ==
    /\ At(c, "judge") /\ Unrecorded(c) = {}
    /\ IF RenderReady /\ \A j \in DOMAIN call[c].verdicts : call[c].verdicts[j] = "pass"
       THEN SaveAs(c, "PLANNING_ANIMATION", "idle")
       ELSE End(c) /\ UNCHANGED store
    /\ UNCHANGED <<production, faults, plan, renderVars, deliveryVars, ledgers>>

-----------------------------------------------------------------------------
(* The render: one flight per process, one render per lock *)

ContractFor(hold) == [hold |-> hold, scenes |-> RenderedScenes]
TurnTo(t, pc) == thread' = [thread EXCEPT ![t].pc = pc]

\* The thread ends, and so do the calls that await its flight.
Awaiting(t) == IF t = Flight THEN {c \in Owners : At(c, "flight")} ELSE {}
Unwind(t) ==
    /\ thread' = [thread EXCEPT ![t] = NoThread]
    /\ lock' = IF lock = t THEN Nobody ELSE lock
    /\ call' = [c \in Owners |-> IF c \in Awaiting(t) THEN NoCall ELSE call[c]]

\* render_compiled_video_async(): join the flight of the same contract, or start it.
JoinFlight(c, hold) ==
    /\ At(c, "idle") /\ ScenesRender
    /\ InState({"PLANNING_ANIMATION", "LOCAL_ANIMATION", "ASSEMBLING", "FINAL_QA"})
    /\ thread[Flight].pc # "idle" => thread[Flight].contract = ContractFor(hold)
    /\ call' = [call EXCEPT ![c].pc = "flight"]
    /\ thread' = IF thread[Flight].pc # "idle" THEN thread
                 ELSE [thread EXCEPT ![Flight] = [NoThread EXCEPT !.pc = "queued",
                                                                  !.contract = ContractFor(hold)]]
    /\ UNCHANGED <<production, faults, store, plan, lock, renderFiles, renders, deliveryVars, ledgers>>

\* render_compiled_video() of another process, which knows nothing of the flight.
RenderElsewhere(t, hold) ==
    /\ t # Flight /\ thread[t].pc = "idle" /\ ScenesRender
    /\ InState({"PLANNING_ANIMATION", "LOCAL_ANIMATION", "ASSEMBLING", "FINAL_QA"})
    /\ thread' = [thread EXCEPT ![t] = [NoThread EXCEPT !.pc = "queued", !.contract = ContractFor(hold)]]
    /\ UNCHANGED <<production, faults, store, plan, call, lock, renderFiles, renders, deliveryVars, ledgers>>

\* Mutant: a completion of whatever contract is recovered.
RecoversAnything(k) == intent # Nothing /\ completion # Nothing

\* _compiled_render_recovery_evidence(): intent, completion and bytes bind k.
RecoveryBinds(k) == intent = k /\ completion = k /\ video = k

\* Something of an earlier render is there, yet not enough to recover it.
Quarantined == intent # Nothing \/ completion # Nothing \/ video # Nothing

\* _render_compiled_video_locked() up to its first write: the contract is closed
\* again, the store loaded, and the evidence on disk decides.
EnterRender(t, pc) ==
    LET k == thread[t].contract
        same == ScenesRender /\ RenderedScenes = k.scenes
        done == intent # Nothing /\ completion # Nothing
    IN  /\ \/ /\ same /\ done /\ RecoveryBinds(k)
              /\ thread' = [thread EXCEPT ![t].pc = "receipt", ![t].mem = Loaded]
              /\ lock' = t
              /\ UNCHANGED call
           \/ /\ same /\ ~done /\ ~Quarantined /\ Loaded.cur = "PLANNING_ANIMATION"
              /\ thread' = [thread EXCEPT ![t].pc = "intent", ![t].mem = Loaded]
              /\ lock' = t
              /\ UNCHANGED call
           \/ /\ \/ ~same
                 \/ done /\ ~RecoveryBinds(k)
                 \/ ~done /\ (Quarantined \/ Loaded.cur # "PLANNING_ANIMATION")
              /\ Unwind(t)
        /\ UNCHANGED <<production, faults, store, plan, renderFiles, renders, deliveryVars, ledgers>>

LockRender(t) == thread[t].pc = "queued" /\ lock = Nobody /\ EnterRender(t, "queued")
RenderAgain(t) == thread[t].pc = "recover" /\ EnterRender(t, "recover")

\* _write_exclusive_render_json(): the same bytes may be written twice, no others.
WriteIntent(t) ==
    /\ thread[t].pc = "intent"
    /\ IF intent \in {Nothing, thread[t].contract}
       THEN intent' = thread[t].contract /\ TurnTo(t, "local") /\ UNCHANGED <<lock, call>>
       ELSE Unwind(t) /\ UNCHANGED intent
    /\ UNCHANGED <<production, faults, store, plan, video, completion, receipt, renders, deliveryVars, ledgers>>

\* The two saves before the renderer runs, both of the store loaded under the lock.
SaveRenderState(t) ==
    \E to \in {"LOCAL_ANIMATION", "ASSEMBLING"} :
        /\ thread[t].pc = IF to = "LOCAL_ANIMATION" THEN "local" ELSE "assembling"
        /\ store' = TransitionTo(thread[t].mem, to)
        /\ thread' = [thread EXCEPT ![t].mem = store',
                                    ![t].pc = IF to = "LOCAL_ANIMATION" THEN "assembling" ELSE "render"]
        /\ UNCHANGED <<production, faults, plan, call, lock, renderFiles, renders, deliveryVars, ledgers>>

\* render(): verified inputs, a new output file published whole, its receipt.
PublishMaster(t) ==
    /\ thread[t].pc = "render"
    /\ IF ScenesRender /\ RenderedScenes = thread[t].contract.scenes /\ video = Nothing
       THEN /\ video' = thread[t].contract
            /\ renders' = renders + 1
            /\ TurnTo(t, "commit")
            /\ UNCHANGED <<lock, call>>
       ELSE Unwind(t) /\ UNCHANGED <<video, renders>>
    /\ UNCHANGED <<production, faults, store, plan, intent, completion, receipt, deliveryVars, ledgers>>

\* commit_renderer_completion()
CommitCompletion(t) ==
    /\ thread[t].pc = "commit"
    /\ completion' = thread[t].contract
    /\ TurnTo(t, "recover")
    /\ UNCHANGED <<production, faults, store, plan, call, lock, intent, video, receipt, renders, deliveryVars, ledgers>>

WriteReceipt(t) ==
    /\ thread[t].pc = "receipt"
    /\ IF receipt \in {Nothing, thread[t].contract}
       THEN receipt' = thread[t].contract /\ TurnTo(t, "advance") /\ UNCHANGED <<lock, call>>
       ELSE Unwind(t) /\ UNCHANGED receipt
    /\ UNCHANGED <<production, faults, store, plan, intent, video, completion, renders, deliveryVars, ledgers>>

\* _advance_compiled_render_state()
Advanced(st) ==
    CASE st.cur \in {"PLANNING_ANIMATION", "LOCAL_ANIMATION", "ASSEMBLING"} ->
             [st EXCEPT !.cur = "FINAL_QA", !.prev = "ASSEMBLING"]
      [] st.cur = "FINAL_QA" -> st
      [] OTHER -> Nothing

\* The last save, or a store that render does not own; the calls of the flight
\* get their receipt or its error.
AdvanceState(t) ==
    /\ thread[t].pc = "advance"
    /\ store' = IF Advanced(thread[t].mem) = Nothing THEN store ELSE Advanced(thread[t].mem)
    /\ Unwind(t)
    /\ UNCHANGED <<production, faults, plan, renderFiles, renders, deliveryVars, ledgers>>

\* FFmpeg, the disk or the ownership assertion fails.
RenderRaises(t) ==
    /\ thread[t].pc # "idle"
    /\ Fault
    /\ Unwind(t)
    /\ UNCHANGED <<production, store, plan, renderFiles, renders, deliveryVars, ledgers>>

\* A caller is cancelled; its flight is shielded and flies on.
CancelCaller(c) ==
    /\ At(c, "flight")
    /\ Fault
    /\ End(c)
    /\ UNCHANGED <<production, store, plan, renderVars, deliveryVars, ledgers>>

-----------------------------------------------------------------------------
(* Sidecars and the QA of the master *)

\* prepare_delivery_sidecars(): captions, thumbnail and metadata, three awaits of
\* which the reviews see only the end.
Sidecars(c) ==
    /\ InState({"FINAL_QA"}) /\ pipe.up /\ ManifestApproved
    /\ Enter(c, "sidecars")
    /\ UNCHANGED <<production, faults, store, plan, renderVars, deliveryVars, ledgers>>

MakeSidecars(c) ==
    /\ At(c, "sidecars")
    /\ \/ sidecars' = TRUE /\ UNCHANGED faults
       \/ Fault /\ UNCHANGED sidecars
    /\ End(c)
    /\ UNCHANGED <<production, store, plan, renderVars, qa, ledgers>>

\* ProductionEvidenceQA.review(): captions and metadata must exist; what it says
\* of the script, its originality, the manifest and the licences is its verdict.
EvidenceVerdicts == IF sidecars THEN BOOLEAN ELSE {FALSE}

\* PostProductionNarrativeQA.review(): the same files, read for audience, sources
\* and calls to action.
NarrativeVerdicts == IF sidecars THEN BOOLEAN ELSE {FALSE}

\* FinalRenderQA.review(): the master must exist with the bytes its receipt names;
\* streams, loudness, duration and captions are its verdict.
FinalVerdicts == IF video # Nothing /\ receipt = video THEN BOOLEAN ELSE {FALSE}

\* record_production_evidence_qa(), record_post_production_narrative_qa(): a
\* report is overwritten by the next one.
ReviewMaster(r, pass) ==
    /\ InState({"FINAL_QA"})
    /\ pass \in IF r = "evidence" THEN EvidenceVerdicts ELSE NarrativeVerdicts
    /\ qa' = IF pass THEN qa \cup {r} ELSE qa \ {r}
    /\ UNCHANGED <<production, faults, store, plan, call, renderVars, sidecars, ledgers>>

\* record_final_render_qa(): the two reports must have passed.
ReviewFinal(c) ==
    /\ InState({"FINAL_QA"}) /\ qa = Reviews
    /\ Enter(c, "finalqa")
    /\ UNCHANGED <<production, faults, store, plan, renderVars, deliveryVars, ledgers>>

\* Its report is written in a thread; then a pass opens the thumbnail gate.
CloseFinal(c) ==
    /\ At(c, "finalqa")
    /\ \/ TRUE \in FinalVerdicts /\ SaveAs(c, "WAITING_THUMBNAIL_APPROVAL", "idle")
       \/ End(c) /\ UNCHANGED store
    /\ UNCHANGED <<production, faults, plan, renderVars, deliveryVars, ledgers>>

\* reject_delivered_artifact() at the thumbnail gate
RejectMaster ==
    /\ InState({"WAITING_THUMBNAIL_APPROVAL"})
    /\ store' = TransitionTo(Loaded, "ASSEMBLING")
    /\ UNCHANGED <<production, faults, plan, call, renderVars, deliveryVars, ledgers>>

-----------------------------------------------------------------------------
DirectorCrash ==
    /\ Fault
    /\ ProductionCrash
    /\ call' = [c \in Owners |-> NoCall]
    /\ thread' = [t \in Threads |-> NoThread]
    /\ lock' = Nobody
    /\ UNCHANGED <<store, plan, renderFiles, renders, deliveryVars, ledgers>>

Preproduction(c) ==
    \/ StartEpisode(c) \/ Research(c) \/ PlanEpisode(c) \/ AskBudget(c) \/ WritePlan(c)
    \/ ContinuePlan(c) \/ Produce(c)

Compiled(c) ==
    \/ Dispatch(c) \/ OpenBaselines(c) \/ CloseBaselines(c) \/ DispatchRaises(c)
    \/ Review(c) \/ CloseReview(c)
    \/ \E j \in Jobs : j \in DOMAIN call[c].verdicts /\ RecordVerdict(c, j)

\* complete_compiled_final_qa() makes these calls in this order.
Finalize(c) ==
    \/ \E hold \in Holds : JoinFlight(c, hold)
    \/ Sidecars(c) \/ MakeSidecars(c) \/ ReviewFinal(c) \/ CloseFinal(c)
    \/ CancelCaller(c)

Render(t) ==
    \/ \E hold \in Holds : RenderElsewhere(t, hold)
    \/ LockRender(t) \/ RenderAgain(t) \/ WriteIntent(t) \/ SaveRenderState(t) \/ PublishMaster(t)
    \/ CommitCompletion(t) \/ WriteReceipt(t) \/ AdvanceState(t) \/ RenderRaises(t)

DirectorNext ==
    \/ \E c \in Owners : Preproduction(c) \/ Compiled(c) \/ Finalize(c)
    \/ \E t \in Threads : Render(t)
    \/ ProductionNext /\ UNCHANGED <<store, plan, call, renderVars, deliveryVars, ledgers>>
    \/ ApprovePlan \/ ContinueBudget \/ Activate \/ IssuePreflight \/ RejectMaster
    \/ \E r \in Reviews, pass \in BOOLEAN : ReviewMaster(r, pass)
    \/ DirectorCrash

DirectorSpec == DirectorInit /\ [][DirectorNext]_vars

-----------------------------------------------------------------------------
(* Properties *)

Mastered == {"FINAL_QA", "WAITING_THUMBNAIL_APPROVAL"}

\* The states a method of the director produces in.  CLOUD_VIDEO_GENERATION is
\* none of them: ContinueBudget enters it and no method works there.
Producing == Mastered \cup {"SCRIPTING", "SCRIPT_QA", "GENERATING_AUDIO", "STORYBOARDING",
    "GENERATING_IMAGES", "VISUAL_QA", "PLANNING_ANIMATION", "LOCAL_ANIMATION", "ASSEMBLING"}

\* Calls that have not passed the plan gate
Starting == {"research", "planning", "asking", "planfile"}

\* One master per episode: however renders, retries, crashes and a second
\* process interleave, the renderer publishes at most once, and an episode that
\* reached final QA has an intent, bytes, a completion and a receipt that bind
\* the same contract (_render_compiled_video_locked).
RenderBound ==
    /\ renders <= 1
    /\ InState(Mastered) => intent # Nothing /\ {video, completion, receipt} = {intent}

\* What was rendered was approved, and still is: every image and clip of the
\* intent has its passing verdict, and no clip follows an image that a
\* correction replaced (record_visual_qa, remediation_job, eligible_hero_jobs).
RenderedAsApproved ==
    intent # Nothing => \A s \in Submittable :
        /\ Passed(<<s, intent.scenes.images[s]>>)
        /\ s \in HeroScenes => s \in intent.scenes.clips
        /\ s \in intent.scenes.clips => intent.scenes.images[s] = "first" /\ Passed(Hero(s))

\* No work before its two human decisions: an episode is in a state the director
\* produces in, a call is past the plan gate or a render runs, only when the plan
\* on disk is approved, and within the budget or over it by the explicit choice;
\* no stale call, retry, restart or detour through the budget gate gets there
\* otherwise (continue_after_approval, _run_production).
ProductionAuthorised ==
    \/ plan.approved /\ (plan.within \/ plan.answer = "D")
    \/ /\ ~InState(Producing)
       /\ \A c \in Owners : call[c].pc \in Starting \cup {"idle"}
       /\ \A t \in Threads : thread[t].pc = "idle"
=============================================================================
