---------------------------- MODULE TwoGateRunner ----------------------------
(***************************************************************************)
(* The two-gate runner of one episode (src/hybrid/autonomous.py) on a      *)
(* worker's lease, with the executor rows of its jobs, their claims in the *)
(* standing ledger, the compiled adapter that stages the delivery, the two *)
(* human gates and the publication.                                        *)
(*                                                                         *)
(* A call is one invocation of the handler: it resumes the runner under    *)
(* runner.lock with a window of concurrent job tasks, projects the         *)
(* verdicts and stages the media.  Its code between two awaits is one turn *)
(* of an event loop, yet every durable write in it is a step of its own,   *)
(* since the process may die there.  Ownership is a token of FencedLease,  *)
(* asserted where the code asserts it.                                     *)
(***************************************************************************)
EXTENDS StandingBudget

CONSTANTS
    Episode,    \* the runner's episode
    Started,    \* the jobs start() binds
    Category,   \* Category[r]: "first", or a successor's "correction" or "hero"
    Pred,       \* Pred[r]: the job that successor r replaces
    Deps,       \* Deps[r]: payload.depends_on
    Cost,       \* the price of a job
    Calls,      \* invocations of the handler, and of publish
    Nobody,     \* runner.lock is free
    Slots,      \* provider_concurrency
    Window,     \* provider_concurrency + cpu_concurrency
    MaxTokens,  \* bound: fencing tokens granted
    MaxFaults   \* bound: crashes, failures, denials, replaced files

ASSUME RunnerConstants ==
    /\ Episode \in Episodes /\ Requests # {}
    /\ Started \subseteq Requests
    /\ Category \in [Requests -> {"first", "correction", "hero"}]
    /\ Pred \in [Requests -> Requests]
    /\ Deps \in [Requests -> SUBSET Requests]
    /\ Cost \in Nat /\ Slots \in Nat /\ Window \in Nat
    /\ MaxTokens \in Nat /\ MaxFaults \in Nat
    /\ Nobody \notin Calls

VARIABLES
    token, live, last,  \* the lease of FencedLease
    doc,        \* runner.json
    row,        \* the executor's table jobs
    lock,       \* runner.lock
    call,       \* the calls
    task,       \* task[c][r]: the complete_one(r) that call c created
    spoiled,    \* the jobs whose result file no longer has the recorded hash
    file,       \* the media in the delivery directory
    evidence,   \* evidence.json: the bytes it binds and their manifest
    posts,      \* posts[r]: how often a provider was asked to produce r
    upload,     \* what the publisher was asked to publish
    faults      \* faults left

leaseVars == <<token, live, last>>
stores == <<doc, row, claims>>
delivery == <<file, evidence>>
outside == <<spoiled, posts, upload, faults>>
vars == <<ledgerVars, leaseVars, doc, row, lock, call, task, file, evidence, outside>>

Lease == INSTANCE FencedLease

Media == {"thumbnail", "video"}
Open == {"READY", "RUNNING"}
Promoted == {"MEDIA_PENDING", "WAITING_THUMBNAIL_APPROVAL", "WAITING_VIDEO_APPROVAL",
             "READY_TO_PUBLISH", "PUBLISH_INTENT", "PUBLISHED"}
States == Open \cup Promoted \cup {"NONE", "REJECTED"}

\* "invalid" is a verdict that breaks the QA contract, or a technical failure:
\* the runner counts it as a rejection, the adapter cannot project it.
Verdicts == {"pass", "fail", "invalid"}
Rejections == {"fail", "invalid"}

\* A media file: which jobs it was rendered from, or foreign bytes.
Version == [of : SUBSET Requests, made : {"absent", "rendered", "replaced"}]
Absent == [of |-> {}, made |-> "absent"]
Rendered(R) == [of |-> R, made |-> "rendered"]
NoMedia == [k \in Media |-> Absent]
NoGate == [seen |-> Absent, approved |-> FALSE]
NoGates == [k \in Media |-> NoGate]
NoEvidence == [manifest |-> {}, media |-> NoMedia]

\* Where a task may be cancelled or overtaken, where it holds the event loop,
\* where it is inside executor.run() and holds the lock of its request.
AwaitPCs == {"begin", "slot", "run", "remote", "answer", "qa"}
SyncPCs == {"intent", "prepared", "posting", "bound", "complete"}
RunPCs == {"posting", "remote", "bound", "answer"}
DonePCs == Verdicts \cup {"failed"}
TaskPCs == {"none"} \cup AwaitPCs \cup SyncPCs \cup DonePCs

RunnerPCs == {"loop", "await", "record"}
StagePCs == {"stage", "thumbnail", "video", "judge", "deliver"}
CallPCs == {"idle", "queued", "sync", "ending", "intent", "uploaded"} \cup RunnerPCs \cup StagePCs

NoRow == [status |-> "NONE", pid |-> FALSE, qa |-> "none"]
NoTasks == [r \in Requests |-> "none"]
NoCall == [pc |-> "idle", tok |-> 0, manifest |-> {}, job |-> CHOOSE r \in Requests : TRUE]
EmptyDoc == [state |-> "NONE", jobs |-> {}, qa |-> [r \in Requests |-> "none"],
             media |-> NoMedia, gates |-> NoGates]

Document == [state : States, jobs : SUBSET Requests, qa : [Requests -> Verdicts \cup {"none"}],
             media : [Media -> Version], gates : [Media -> [seen : Version, approved : BOOLEAN]]]
JobRow == [status : {"NONE", "INTENT", "PREPARED", "SUBMITTING", "SUBMITTED", "COMPLETE", "OVERRUN"},
           pid : BOOLEAN, qa : {"none", "pass", "fail"}]
Invocation == [pc : CallPCs, tok : Nat, manifest : SUBSET Requests, job : Requests]

RunnerTypeOK ==
    /\ LedgerTypeOK /\ Lease!FencedTypeOK
    /\ doc \in Document
    /\ row \in [Requests -> JobRow]
    /\ lock \in Calls \cup {Nobody}
    /\ call \in [Calls -> Invocation]
    /\ task \in [Calls -> [Requests -> TaskPCs]]
    /\ spoiled \subseteq Requests
    /\ file \in [Media -> Version]
    /\ evidence \in [manifest : SUBSET Requests, media : [Media -> Version]]
    /\ posts \in [Requests -> Nat]
    /\ upload \in [calls : Nat, package : [Media -> Version]]
    /\ faults \in 0..MaxFaults

RunnerInit ==
    /\ LedgerInit /\ Lease!FencedInit
    /\ doc = EmptyDoc
    /\ row = [r \in Requests |-> NoRow]
    /\ lock = Nobody
    /\ call = [c \in Calls |-> NoCall]
    /\ task = [c \in Calls |-> NoTasks]
    /\ spoiled = {}
    /\ file = NoMedia
    /\ evidence = NoEvidence
    /\ posts = [r \in Requests |-> 0]
    /\ upload = [calls |-> 0, package |-> NoMedia]
    /\ faults = MaxFaults

-----------------------------------------------------------------------------
(* Helpers *)

Fault == faults > 0 /\ faults' = faults - 1

\* _assert_ownership()
Owns(c) == token[Episode] = call[c].tok /\ Episode \in live

Goto(c, pc) == call' = [call EXCEPT ![c].pc = pc]
GotoTask(c, r, pc) == task' = [task EXCEPT ![c][r] = pc]

\* The bound jobs without superseded_by, and the images among them: a hero is a
\* clip of a scene whose image stays in the compiled manifest.
ActiveOf(J) == J \ {Pred[s] : s \in J \ Started}
ImagesOf(J) == ActiveOf({r \in J : Category[r] # "hero"})
Active == ActiveOf(doc.jobs)

Inflight(c) == {r \in Requests : task[c][r] # "none"}

\* The loop of call c is not inside the turn of one of its tasks.
LoopFree(c) == \A r \in Requests : task[c][r] \notin SyncPCs

\* Task r of call c may take its next turn.
MayTurn(c, r) ==
    /\ call[c].pc # "record"
    /\ \A s \in Requests \ {r} : task[c][s] \notin SyncPCs

\* mark_unknown_if_reserved()
ForgetAll(R) == claims' = [r \in Requests |->
    IF r \in R /\ MayForget(r, 0) THEN [claims[r] EXCEPT !.state = "UNKNOWN"] ELSE claims[r]]

\* _validate_persisted_qa()
StillValid(r) == row[r].status = "COMPLETE" /\ row[r].qa = "pass" /\ r \notin spoiled
StaleQa == \E r \in doc.jobs : doc.qa[r] = "pass" /\ ~StillValid(r)

-----------------------------------------------------------------------------
(* start(), add_successors() *)

Start ==
    /\ lock = Nobody
    /\ doc.state = "NONE"
    /\ doc' = [EmptyDoc EXCEPT !.state = "READY", !.jobs = Started]
    /\ UNCHANGED <<row, ledgerVars, leaseVars, lock, call, task, delivery, outside>>

WithSuccessor(r) ==
    [doc EXCEPT !.jobs = @ \cup {r}, !.media = NoMedia, !.gates = NoGates, !.state = "RUNNING"]

AddSuccessor(r) ==
    /\ lock = Nobody
    /\ doc.state \notin {"NONE", "PUBLISHED", "PUBLISH_INTENT"}
    /\ r \notin doc.jobs /\ Pred[r] \in doc.jobs
    /\ \/ Category[r] = "hero" /\ doc.qa[Pred[r]] = "pass" /\ Category[Pred[r]] = "first"
       \/ Category[r] = "correction" /\ doc.qa[Pred[r]] \in Rejections
    /\ doc' = WithSuccessor(r)
    /\ UNCHANGED <<row, ledgerVars, leaseVars, lock, call, task, delivery, outside>>

\* Mutant: a resume runs the jobs again, whatever the state.
ResumeReopens ==
    /\ lock = Nobody
    /\ doc.jobs = Requests /\ doc.media # NoMedia
    /\ doc' = [doc EXCEPT !.state = "RUNNING"]
    /\ UNCHANGED <<row, ledgerVars, leaseVars, lock, call, task, delivery, outside>>

\* resume() without a lease, in any state: the command of the fixture harness,
\* which takes no successors and is loadable once its delivery was staged.  There
\* is nothing left to run; approvals whose bytes changed reject the runner, even
\* one that was published.  Fixtures are not told apart here: any runner that has
\* all its jobs may be resumed so.
ResumeUnowned ==
    /\ lock = Nobody
    /\ doc.jobs = Requests /\ doc.media # NoMedia
    /\ StaleQa
    /\ doc' = [doc EXCEPT !.state = "REJECTED"]
    /\ UNCHANGED <<row, ledgerVars, leaseVars, lock, call, task, delivery, outside>>

-----------------------------------------------------------------------------
(* A call: lease, runner.lock, the scheduler's loop *)

\* The worker leased the episode and its handler found work in runner.json.
Begin(c) ==
    /\ call[c].pc = "idle" /\ task[c] = NoTasks
    /\ doc.state \in Open \cup {"MEDIA_PENDING"}
    /\ last[Episode] < MaxTokens
    /\ Lease!Grant(Episode) /\ Episode \in live'
    /\ call' = [call EXCEPT ![c].pc = "queued", ![c].tok = last[Episode] + 1]
    /\ UNCHANGED <<stores, month, lock, task, delivery, outside>>

\* The call ends, and runner.lock with it when it has it.
Leave(c, pc) ==
    /\ Goto(c, pc)
    /\ lock' = IF lock = c THEN Nobody ELSE lock

\* The tasks in flight are cancelled and the claims of their jobs marked.
Abandon(c) ==
    /\ ForgetAll({r \in Requests : task[c][r] \in {"slot", "run", "remote", "answer"}})
    /\ task' = [task EXCEPT ![c] = NoTasks]

\* An exception inside the loop: only then is the lock given back.
Raise(c) == Abandon(c) /\ Leave(c, "ending")

\* resume_owned() takes the lock.  A runner past production is only re-validated.
Enter(c) ==
    /\ call[c].pc = "queued"
    /\ lock = Nobody
    /\ \/ /\ ~Owns(c)
          /\ Goto(c, "ending")
          /\ UNCHANGED <<doc, lock>>
       \/ /\ Owns(c) /\ doc.state \in Open
          /\ doc' = [doc EXCEPT !.state = "RUNNING"]
          /\ lock' = c
          /\ Goto(c, "loop")
       \/ /\ Owns(c) /\ doc.state \notin Open
          /\ doc' = IF StaleQa THEN [doc EXCEPT !.state = "REJECTED"] ELSE doc
          /\ call' = [call EXCEPT ![c].pc = IF StaleQa THEN "ending" ELSE "sync",
                                  ![c].manifest = doc.jobs]
          /\ UNCHANGED lock
    /\ UNCHANGED <<row, ledgerVars, leaseVars, task, delivery, outside>>

Pending(c) == {r \in doc.jobs \ Inflight(c) : doc.qa[r] = "none"}
Ready(c) == {r \in Pending(c) : \A d \in Deps[r] : doc.qa[d] = "pass"}
Blocked(c) == {r \in Pending(c) : \E d \in Deps[r] : doc.qa[d] \in Rejections}

Rejected(c) == (\E r \in Active : doc.qa[r] \in Rejections) \/ Blocked(c) # {}
Finished(c) == Pending(c) = {} /\ Inflight(c) = {}

\* The loop decides: save the new state and return.  The tasks in flight are
\* neither awaited nor cancelled.
Return(c, state) ==
    IF Owns(c)
    THEN /\ doc' = [doc EXCEPT !.state = state]
         /\ call' = [call EXCEPT ![c].pc = "sync", ![c].manifest = doc.jobs]
         /\ lock' = Nobody
         /\ UNCHANGED <<claims, task>>
    ELSE Raise(c) /\ UNCHANGED doc

LoopStale(c) ==
    /\ call[c].pc = "loop" /\ LoopFree(c) /\ StaleQa
    /\ doc' = IF Owns(c) THEN [doc EXCEPT !.state = "REJECTED"] ELSE doc
    /\ Raise(c)
    /\ UNCHANGED <<row, month, leaseVars, delivery, outside>>

LoopReturns(c) ==
    /\ call[c].pc = "loop" /\ LoopFree(c) /\ ~StaleQa
    /\ \/ Rejected(c) /\ Return(c, "REJECTED")
       \/ ~Rejected(c) /\ Finished(c) /\ Return(c, "MEDIA_PENDING")
    /\ UNCHANGED <<row, month, leaseVars, delivery, outside>>

\* As many ready jobs as the window has room for become tasks.
LoopDispatches(c) ==
    /\ call[c].pc = "loop" /\ LoopFree(c) /\ ~StaleQa /\ ~Rejected(c) /\ ~Finished(c)
    /\ LET room == Max({0, Window - Cardinality(Inflight(c))})
       IN  \E R \in SUBSET Ready(c) :
              /\ Cardinality(R) = Min({room, Cardinality(Ready(c))})
              /\ IF Inflight(c) \cup R = {}
                 THEN Raise(c)
                 ELSE /\ task' = [task EXCEPT ![c] =
                                     [r \in Requests |-> IF r \in R THEN "begin" ELSE @[r]]]
                      /\ Goto(c, "await")
                      /\ UNCHANGED <<claims, lock>>
    /\ UNCHANGED <<doc, row, month, leaseVars, delivery, outside>>

\* A task ended.  An exception ends the call, a rejection is saved, an approval
\* goes to the executor first.  Every new task has had its first turn by then,
\* and several may be collected, with turns in between, before the loop goes on.
Collect(c, r) ==
    /\ call[c].pc \in {"await", "loop"} /\ LoopFree(c)
    /\ task[c][r] \in DonePCs /\ \A s \in Requests : task[c][s] # "begin"
    /\ \/ /\ task[c][r] \in Rejections /\ Owns(c)
          /\ doc' = [doc EXCEPT !.qa[r] = task[c][r]]
          /\ GotoTask(c, r, "none") /\ Goto(c, "loop")
          /\ UNCHANGED <<row, claims, lock>>
       \/ /\ task[c][r] = "pass" /\ Owns(c) /\ r \notin spoiled /\ row[r].qa # "fail"
          /\ row' = [row EXCEPT ![r].qa = "pass"]
          /\ GotoTask(c, r, "none")
          /\ call' = [call EXCEPT ![c].pc = "record", ![c].job = r]
          /\ UNCHANGED <<doc, claims, lock>>
       \/ /\ \/ task[c][r] = "failed" \/ ~Owns(c)
             \/ task[c][r] = "pass" /\ (r \in spoiled \/ row[r].qa = "fail")
          /\ Raise(c)
          /\ UNCHANGED <<doc, row>>
    /\ UNCHANGED <<month, leaseVars, delivery, outside>>

\* ... and then into runner.json.
Record(c) ==
    /\ call[c].pc = "record"
    /\ IF Owns(c)
       THEN /\ doc' = [doc EXCEPT !.qa[call[c].job] = "pass"]
            /\ Goto(c, "loop")
            /\ UNCHANGED <<claims, lock, task>>
       ELSE Raise(c) /\ UNCHANGED doc
    /\ UNCHANGED <<row, month, leaseVars, delivery, outside>>

-----------------------------------------------------------------------------
(* complete_one(): one job, from its intent to its verdict *)

\* An exception inside the try block.
Fails(c, r) == ForgetAll({r}) /\ GotoTask(c, r, "failed")

\* Executor._reserve(): an overrun stops everything, a successor needs the exact
\* verdict on its predecessor in the executor's own row.
Admissible(r) ==
    /\ \A s \in Requests : row[s].status # "OVERRUN"
    /\ \/ Category[r] = "first"
       \/ /\ Category[r] = "hero"
          /\ StillValid(Pred[r])
       \/ /\ Category[r] = "correction"
          /\ row[Pred[r]].qa = "fail" /\ Pred[r] \notin spoiled
          /\ \A s \in Requests \ Started : Pred[s] = Pred[r] => row[s] = NoRow

\* The task looks at its row: nothing yet, prepared, known to the provider, or
\* neither, which is reported as incomplete and never submitted again.
TaskBegins(c, r) ==
    /\ task[c][r] = "begin" /\ MayTurn(c, r) /\ call[c].pc = "await"
    /\ \/ /\ row[r] = NoRow /\ Owns(c) /\ Admissible(r)
          /\ row' = [row EXCEPT ![r].status = "INTENT"]
          /\ GotoTask(c, r, "intent")
          /\ UNCHANGED claims
       \/ /\ row[r].status = "PREPARED"
          /\ GotoTask(c, r, "slot")
          /\ UNCHANGED <<row, claims>>
       \/ /\ row[r].pid /\ Owns(c) /\ MayBind(r, 1, 0)
          /\ Bound(r, 1, 0)
          /\ GotoTask(c, r, "slot")
          /\ UNCHANGED row
       \/ /\ \/ row[r] = NoRow /\ ~(Owns(c) /\ Admissible(r))
             \/ row[r].pid /\ ~(Owns(c) /\ MayBind(r, 1, 0))
             \/ row[r].status \in {"INTENT", "SUBMITTING"}
          /\ Fails(c, r)
          /\ UNCHANGED row
    /\ UNCHANGED <<doc, month, leaseVars, lock, call, delivery, outside>>

TaskPrepares(c, r) ==
    /\ task[c][r] = "intent"
    /\ row' = [row EXCEPT ![r].status = "PREPARED"]
    /\ GotoTask(c, r, "prepared")
    /\ UNCHANGED <<doc, ledgerVars, leaseVars, lock, call, delivery, outside>>

\* StandingBudgetLedger.reserve(), which other episodes' claims may deny.
TaskReserves(c, r) ==
    /\ task[c][r] = "prepared"
    /\ \/ \E m \in 0..month :
             /\ UNCHANGED faults
             /\ \/ /\ Owns(c) /\ Admits(r, Episode, m, Cost, "standard")
                   /\ Inserted(r, Episode, m, Cost, "standard", "FAL_READBACK_V2", Unassigned, 0)
                   /\ GotoTask(c, r, "slot")
                \/ /\ ~(Owns(c) /\ Admits(r, Episode, m, Cost, "standard"))
                   /\ Fails(c, r)
       \/ /\ Owns(c) /\ Fault
          /\ Fails(c, r)
    /\ UNCHANGED <<doc, row, month, leaseVars, lock, call, delivery, spoiled, posts, upload>>

\* Mutant: an ambiguous submission is sent again.
ResendsAmbiguous(r) == row[r].status \in {"PREPARED", "SUBMITTING"}

\* _verify_prepared_fal_admission(): only an untouched reservation is submitted.
Submittable(r) ==
    /\ row[r].status = "PREPARED"
    /\ claims[r].state = "RESERVED" /\ claims[r].pid = Unassigned

\* The task takes a provider slot of its call and looks at the fence.
TaskSlots(c, r) ==
    /\ task[c][r] = "slot" /\ MayTurn(c, r)
    /\ Cardinality({s \in Requests : task[c][s] \in RunPCs \cup {"run"}}) < Slots
    /\ IF Owns(c) THEN GotoTask(c, r, "run") /\ UNCHANGED claims ELSE Fails(c, r)
    /\ UNCHANGED <<doc, row, month, leaseVars, lock, call, delivery, outside>>

\* Executor.run() gets the lock of the request and looks at its row.
TaskRuns(c, r) ==
    /\ task[c][r] = "run" /\ MayTurn(c, r)
    /\ \A d \in Calls : task[d][r] \notin RunPCs
    /\ \/ /\ row[r].status = "COMPLETE" /\ r \notin spoiled
          /\ GotoTask(c, r, "complete")
          /\ UNCHANGED <<row, claims>>
       \/ /\ Submittable(r)
          /\ row' = [row EXCEPT ![r].status = "SUBMITTING"]
          /\ GotoTask(c, r, "posting")
          /\ UNCHANGED claims
       \/ /\ row[r].status = "SUBMITTED" /\ Owns(c)
          /\ GotoTask(c, r, "answer")
          /\ UNCHANGED <<row, claims>>
       \/ /\ \/ row[r].status = "COMPLETE" /\ r \in spoiled
             \/ row[r].status = "SUBMITTED" /\ ~Owns(c)
             \/ row[r].status \notin {"COMPLETE", "SUBMITTED"} /\ ~Submittable(r)
          /\ Fails(c, r)
          /\ UNCHANGED row
    /\ UNCHANGED <<doc, month, leaseVars, lock, call, delivery, outside>>

\* FencedProvider.submit(): the last look at the fence, then the POST.
TaskPosts(c, r) ==
    /\ task[c][r] = "posting"
    /\ IF Owns(c)
       THEN /\ posts' = [posts EXCEPT ![r] = @ + 1]
            /\ GotoTask(c, r, "remote")
            /\ UNCHANGED claims
       ELSE Fails(c, r) /\ UNCHANGED posts
    /\ UNCHANGED <<doc, row, month, leaseVars, lock, call, delivery, spoiled, upload, faults>>

\* The provider names its request: the executor's row first ...
TaskCheckpoints(c, r) ==
    /\ task[c][r] = "remote" /\ MayTurn(c, r)
    /\ row' = [row EXCEPT ![r].status = "SUBMITTED", ![r].pid = TRUE]
    /\ GotoTask(c, r, "bound")
    /\ UNCHANGED <<doc, ledgerVars, leaseVars, lock, call, delivery, outside>>

\* ... then the ledger's.
TaskBinds(c, r) ==
    /\ task[c][r] = "bound"
    /\ IF Owns(c) /\ MayBind(r, 1, 0)
       THEN Bound(r, 1, 0) /\ GotoTask(c, r, "answer")
       ELSE Fails(c, r)
    /\ UNCHANGED <<doc, row, month, leaseVars, lock, call, delivery, outside>>

\* The result arrives; one that costs more than the job freezes the executor.
TaskAnswers(c, r) ==
    /\ task[c][r] = "answer" /\ MayTurn(c, r)
    /\ \/ /\ row' = [row EXCEPT ![r].status = "COMPLETE"]
          /\ GotoTask(c, r, "complete")
          /\ UNCHANGED <<claims, faults>>
       \/ /\ row' = [row EXCEPT ![r].status = "OVERRUN"]
          /\ Fails(c, r)
          /\ Fault
    /\ UNCHANGED <<doc, month, leaseVars, lock, call, delivery, spoiled, posts, upload>>

\* The provider raises.
ProviderFails(c, r) ==
    /\ task[c][r] \in {"remote", "answer"} /\ MayTurn(c, r)
    /\ Fails(c, r)
    /\ Fault
    /\ UNCHANGED <<doc, row, month, leaseVars, lock, call, delivery, spoiled, posts, upload>>

\* Mutant: a local receipt counts as billing, the claim stays reserved.
VerifiesQuietly(c, r) ==
    /\ task[c][r] = "complete"
    /\ GotoTask(c, r, IF r \in spoiled THEN "failed" ELSE "qa")
    /\ UNCHANGED <<stores, month, leaseVars, lock, call, delivery, outside>>

\* The receipt is checked against the bytes and its claim becomes a liability of
\* unknown size; a claim that was settled meanwhile refuses that.
TaskVerifies(c, r) ==
    /\ task[c][r] = "complete"
    /\ IF MayForget(r, 0)
       THEN Forgotten(r, 0) /\ GotoTask(c, r, IF r \in spoiled THEN "failed" ELSE "qa")
       ELSE GotoTask(c, r, "failed") /\ UNCHANGED claims
    /\ UNCHANGED <<doc, row, month, leaseVars, lock, call, delivery, outside>>

\* External: the independent QA of the result.
TaskJudged(c, r) ==
    /\ task[c][r] = "qa" /\ MayTurn(c, r)
    /\ \E v \in Verdicts : GotoTask(c, r, v)
    /\ UNCHANGED <<stores, month, leaseVars, lock, call, delivery, outside>>

\* A task that its call left behind ends; nobody reads its verdict.
OrphanEnds(c, r) ==
    /\ task[c][r] \in DonePCs /\ call[c].pc \notin RunnerPCs
    /\ GotoTask(c, r, "none")
    /\ UNCHANGED <<stores, month, leaseVars, lock, call, delivery, outside>>

\* The event loop is closed after the call: asyncio.run() cancels what is left.
LoopCloses(c) ==
    /\ call[c].pc = "idle" /\ task[c] # NoTasks /\ LoopFree(c)
    /\ Abandon(c)
    /\ UNCHANGED <<doc, row, month, leaseVars, lock, call, delivery, outside>>

-----------------------------------------------------------------------------
(* The adapter after resume(): project the verdicts, stage the delivery *)

\* _synchronize_runner_qa(): rejections reach the executor's rows.  A verdict
\* that cannot be projected, or bytes that changed, end the call.
Unprojected == {r \in doc.jobs : doc.qa[r] \in Rejections /\ row[r].qa = "none"}

Projectable(r) == doc.qa[r] = "fail"

\* _promote_runner_passes(): every approval is written to the compiled lineage
\* again, from bytes that still have their hash.
Promotes(c) == Owns(c) /\ \A r \in doc.jobs : doc.qa[r] = "pass" => r \notin spoiled

SyncQa(c) ==
    /\ call[c].pc = "sync"
    /\ \/ \E r \in Unprojected :
             /\ Projectable(r) /\ Owns(c) /\ r \notin spoiled
             /\ row' = [row EXCEPT ![r].qa = doc.qa[r]]
             /\ UNCHANGED call
       \/ \E r \in Unprojected :
             /\ ~Projectable(r) \/ ~Owns(c) \/ r \in spoiled
             /\ Goto(c, "ending")
             /\ UNCHANGED row
       \/ /\ Unprojected = {}
          /\ Goto(c, IF doc.state = "MEDIA_PENDING" /\ Promotes(c) THEN "stage" ELSE "ending")
          /\ UNCHANGED row
    /\ UNCHANGED <<doc, ledgerVars, leaseVars, lock, task, delivery, outside>>

\* approved_manifest(): every image is approved and has its recorded bytes.
ManifestApproved(J) == \A r \in ImagesOf(J) : row[r].qa = "pass" /\ r \notin spoiled

\* Mutant: the delivery is rendered before the hero clips are there.
ReadyWithoutHeroes(J) == \A r \in ActiveOf(J) : row[r].qa = "pass"

\* render_ready(): moreover every hero scene has its approved clip.
RenderReady(J) ==
    /\ {h \in Requests : Category[h] = "hero"} \subseteq J
    /\ \A r \in ActiveOf(J) : row[r].qa = "pass"

\* _verify_existing_delivery()
EvidenceHolds(c) ==
    /\ evidence.manifest = ImagesOf(call[c].manifest)
    /\ evidence.media = file

\* _stage_local_delivery() begins: existing evidence is verified and reused, a
\* partial delivery without evidence is refused, otherwise the thumbnail is cut.
StageBegins(c) ==
    LET J == call[c].manifest
        ready == doc.state = "MEDIA_PENDING" /\ ManifestApproved(J)
        reuses == ready /\ evidence # NoEvidence /\ EvidenceHolds(c)
        renders == ready /\ evidence = NoEvidence /\ RenderReady(J) /\ Owns(c) /\ file = NoMedia
    IN  /\ call[c].pc = "stage"
        /\ \/ reuses /\ Goto(c, "judge") /\ UNCHANGED file
           \/ /\ renders
              /\ file' = [file EXCEPT !["thumbnail"] = Rendered(ActiveOf(J))]
              /\ Goto(c, "thumbnail")
           \/ ~reuses /\ ~renders /\ Goto(c, "ending") /\ UNCHANGED file
        /\ UNCHANGED <<stores, month, leaseVars, lock, task, evidence, outside>>

StageVideo(c) ==
    /\ call[c].pc = "thumbnail"
    /\ IF Owns(c)
       THEN /\ file' = [file EXCEPT !["video"] = Rendered(ActiveOf(call[c].manifest))]
            /\ Goto(c, "video")
       ELSE Goto(c, "ending") /\ UNCHANGED file
    /\ UNCHANGED <<stores, month, leaseVars, lock, task, evidence, outside>>

\* evidence.json is written without another look at the fence.
StageEvidence(c) ==
    /\ call[c].pc = "video"
    /\ evidence' = [manifest |-> ImagesOf(call[c].manifest), media |-> file]
    /\ Goto(c, "judge")
    /\ UNCHANGED <<stores, month, leaseVars, lock, task, file, outside>>

\* The independent media QA sees the evidence.
StageJudged(c) ==
    /\ call[c].pc = "judge"
    /\ Goto(c, "deliver") \/ Goto(c, "ending")
    /\ UNCHANGED <<stores, month, leaseVars, lock, task, delivery, outside>>

Stageable == doc.state = "MEDIA_PENDING" /\ \A r \in Active : doc.qa[r] = "pass"

\* stage_delivery_owned() under runner.lock opens the first gate.
MayDeliver(c) == Owns(c) /\ Stageable

StageDelivers(c) ==
    /\ call[c].pc = "deliver"
    /\ lock = Nobody
    /\ doc' = IF MayDeliver(c)
              THEN [doc EXCEPT !.media = file, !.state = "WAITING_THUMBNAIL_APPROVAL"]
              ELSE doc
    /\ Goto(c, "ending")
    /\ UNCHANGED <<row, ledgerVars, leaseVars, lock, task, delivery, outside>>

\* The worker releases the lease, if it still has it.
End(c) ==
    /\ call[c].pc = "ending"
    /\ IF token[Episode] = call[c].tok THEN Lease!Drop(Episode) ELSE UNCHANGED leaseVars
    /\ Goto(c, "idle")
    /\ UNCHANGED <<stores, month, lock, task, delivery, outside>>

-----------------------------------------------------------------------------
(* Human gates and publication, each under runner.lock *)

Waits(k) == IF k = "thumbnail" THEN "WAITING_THUMBNAIL_APPROVAL" ELSE "WAITING_VIDEO_APPROVAL"

\* Mutant: the gate does not compare the bytes with the staged ones.
GateForPath(k) == file[k] # Absent

GateBinds(k) == file[k] = doc.media[k]

HumanGate(k, approved) ==
    /\ lock = Nobody
    /\ doc.state = Waits(k)
    /\ GateBinds(k)
    /\ doc' = [doc EXCEPT !.gates[k] = [seen |-> file[k], approved |-> approved],
                          !.state = IF ~approved THEN "REJECTED"
                                    ELSE IF k = "thumbnail" THEN Waits("video")
                                    ELSE "READY_TO_PUBLISH"]
    /\ UNCHANGED <<row, ledgerVars, leaseVars, lock, call, task, delivery, outside>>

\* publish(): both gates and both files are checked, then the intent is written.
Publish(c) ==
    /\ call[c].pc = "idle" /\ task[c] = NoTasks
    /\ lock = Nobody
    /\ doc.state = "READY_TO_PUBLISH"
    /\ \A k \in Media : doc.gates[k].approved /\ doc.gates[k].seen = file[k]
    /\ doc' = [doc EXCEPT !.state = "PUBLISH_INTENT"]
    /\ lock' = c
    /\ Goto(c, "intent")
    /\ UNCHANGED <<row, ledgerVars, leaseVars, task, delivery, outside>>

\* External: the publisher takes the package; its answer may be lost.
Uploads(c) ==
    /\ call[c].pc = "intent"
    /\ upload' = [calls |-> upload.calls + 1, package |-> [k \in Media |-> doc.gates[k].seen]]
    /\ \/ Goto(c, "uploaded") /\ UNCHANGED <<lock, faults>>
       \/ Leave(c, "idle") /\ Fault
    /\ UNCHANGED <<stores, month, leaseVars, task, delivery, spoiled, posts>>

Published(c) ==
    /\ call[c].pc = "uploaded"
    /\ doc' = [doc EXCEPT !.state = "PUBLISHED"]
    /\ Leave(c, "idle")
    /\ UNCHANGED <<row, ledgerVars, leaseVars, task, delivery, outside>>

-----------------------------------------------------------------------------
(* Faults and the environment *)

Crash(c) ==
    /\ call[c].pc # "idle" \/ task[c] # NoTasks
    /\ Fault
    /\ task' = [task EXCEPT ![c] = NoTasks]
    /\ Leave(c, "idle")
    /\ UNCHANGED <<stores, month, leaseVars, delivery, spoiled, posts, upload>>

\* A result or a media file is replaced or removed after it was recorded.
Spoil(r) ==
    /\ row[r].status = "COMPLETE" /\ r \notin spoiled
    /\ Fault
    /\ spoiled' = spoiled \cup {r}
    /\ UNCHANGED <<stores, month, leaseVars, lock, call, task, delivery, posts, upload>>

Replace(k) ==
    /\ file[k].made = "rendered"
    /\ Fault
    /\ file' = [file EXCEPT ![k] = [of |-> {}, made |-> "replaced"]]
    /\ UNCHANGED <<stores, month, leaseVars, lock, call, task, evidence, spoiled, posts, upload>>

\* The lease expires.  A renewal that comes later fails or changes nothing.
LeaseExpires ==
    /\ token[Episode] # 0 /\ Episode \in live
    /\ live' = {} /\ Lease!Expire
    /\ UNCHANGED <<stores, month, lock, call, task, delivery, outside>>

\* The reconciler settles the bill of a job.  The runner reads no claim of a job
\* it has a verdict on, so only earlier settlements are steps here.
SettleBill(r) ==
    /\ row[r].status = "COMPLETE" /\ doc.qa[r] = "none"
    /\ claims[r].actual = Null
    /\ SettleVerifiedReceipt(r, 1, Cost)
    /\ UNCHANGED <<doc, row, leaseVars, lock, call, task, delivery, outside>>

TaskNext(c, r) ==
    \/ TaskBegins(c, r) \/ TaskPrepares(c, r) \/ TaskReserves(c, r) \/ TaskSlots(c, r) \/ TaskRuns(c, r)
    \/ TaskPosts(c, r) \/ TaskCheckpoints(c, r) \/ TaskBinds(c, r) \/ TaskAnswers(c, r)
    \/ TaskVerifies(c, r) \/ TaskJudged(c, r) \/ OrphanEnds(c, r)

CallNext(c) ==
    \/ Enter(c) \/ LoopStale(c) \/ LoopReturns(c) \/ LoopDispatches(c) \/ Record(c)
    \/ \E r \in Requests : Collect(c, r)
    \/ SyncQa(c) \/ StageBegins(c) \/ StageVideo(c) \/ StageEvidence(c) \/ StageJudged(c)
    \/ StageDelivers(c) \/ End(c) \/ Uploads(c) \/ Published(c)

RunnerNext ==
    \/ Start \/ ResumeUnowned
    \/ \E r \in Requests : AddSuccessor(r) \/ Spoil(r) \/ SettleBill(r)
    \/ \E c \in Calls : Begin(c) \/ CallNext(c) \/ Publish(c) \/ LoopCloses(c) \/ Crash(c)
    \/ \E c \in Calls, r \in Requests : TaskNext(c, r) \/ ProviderFails(c, r)
    \/ \E k \in Media : Replace(k) \/ \E approved \in BOOLEAN : HumanGate(k, approved)
    \/ LeaseExpires

RunnerSpec == RunnerInit /\ [][RunnerNext]_vars

-----------------------------------------------------------------------------
(* Properties *)

\* Whatever crashes, races or is left behind, a provider is asked for a job once,
\* for a claim that is still in the ledger, and only after every dependency has
\* passed QA in runner.json and in the executor (complete_one, Executor.run).
PostedOnceAndCovered ==
    \A r \in Requests : posts[r] > 0 =>
        /\ posts[r] = 1
        /\ claims[r].state # "NONE"
        /\ \A d \in Deps[r] : doc.qa[d] = "pass" /\ row[d].qa = "pass"

\* A recorded verdict is a verdict on a finished job whose bill is open or
\* settled, never on a plain reservation; the executor agrees with an approval
\* (complete_one, executor.qa, _save).
VerdictsHaveReceipts ==
    \A r \in Requests : doc.qa[r] # "none" =>
        /\ row[r].status = "COMPLETE"
        /\ claims[r].state \in {"UNKNOWN", "SETTLED"}
        /\ doc.qa[r] = "pass" => row[r].qa = "pass"

\* Past production every active job is approved, and the media a reviewer is
\* shown are rendered from exactly those jobs unless their bytes were replaced,
\* although rendering holds no lock: another owner may be let in, reuse what an
\* older one left behind or find it half done (_stage_delivery, add_successors).
GatesShowApprovedWork ==
    doc.state \in Promoted =>
        /\ \A r \in Active : doc.qa[r] = "pass"
        /\ \A k \in Media : doc.media[k].made = "rendered" => doc.media[k].of = Active

\* The publisher is called at most once, with the bytes that were staged and
\* that both reviewers approved (_publish, PUBLISH_INTENT).
PublishedAsApproved ==
    upload.calls > 0 =>
        /\ upload.calls = 1
        /\ \A k \in Media : /\ upload.package[k] = doc.media[k]
                            /\ doc.gates[k] = [seen |-> upload.package[k], approved |-> TRUE]

\* Decisions stay: no call and no resume takes back a verdict, in runner.json or
\* in the executor.  The decision to publish is left only because an approved
\* result changed (_resume_parallel), and for good: a runner that was rejected
\* after the publisher was asked is never produced, shown or published again.
DecisionsAreFinal ==
    [][ /\ \A r \in Requests : /\ doc.qa[r] # "none" => doc'.qa[r] = doc.qa[r]
                               /\ row[r].qa # "none" => row'[r].qa = row[r].qa
        /\ doc.state \in {"PUBLISH_INTENT", "PUBLISHED"} =>
              doc'.state \in {doc.state, "PUBLISHED"} \/ (doc'.state = "REJECTED" /\ StaleQa)
        /\ upload.calls > 0 /\ doc.state = "REJECTED" => doc'.state = "REJECTED"
      ]_vars

===============================================================================
