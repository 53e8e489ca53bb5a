---------------------------- MODULE EpisodeWorker ----------------------------
(***************************************************************************)
(* The durable episode queue and its workers (src/hybrid/worker.py), the   *)
(* gate approvals that wake them (src/hybrid/autonomous_cli.py) and the    *)
(* fenced leases they share (FencedLease, implemented by EpisodeLease).    *)
(*                                                                         *)
(* A host process serves several turns on one event loop; hosts and the    *)
(* approval command are separate processes over two SQLite databases (the  *)
(* queue and the leases), one snapshot file and one runner.json.  A queue  *)
(* mutation holds the writer lock through four durable points: mark the    *)
(* snapshot, check the lease, commit the row, publish the snapshot.        *)
(***************************************************************************)
EXTENDS FencedLease, Sequences

CONSTANTS
    Compiled,   \* the episodes whose approval takes the lease (kind "compiled")
    Hosts,      \* host processes
    Turns,      \* the run_once() slots of all hosts
    HostOf,     \* HostOf[t]: the host that turn t runs on
    Nobody,     \* the writer lock is free
    Approver,   \* the approval command holds the writer lock
    MaxRestarts,  \* bound: how often an operator starts a host again
    MaxEpoch      \* bound: tokens an approval may still take

ASSUME WorkerConstants ==
    /\ Episodes # {} /\ Compiled \subseteq Episodes
    /\ HostOf \in [Turns -> Hosts]
    /\ Nobody \notin Turns /\ Approver \notin Turns \cup {Nobody}
    /\ MaxRestarts \in Nat /\ MaxEpoch \in Nat

VARIABLES
    task,       \* table episode_tasks; status "NONE" when e is not queued
    order,      \* the queued episodes, least recently updated first
    snapshot,   \* the status snapshot file
    writer,     \* the writer lock: who holds it and how far it got
    turn,       \* run_once(): one record per turn
    host,       \* the host processes
    phase,      \* runner.json: what the episode's runner waits for
    approval,   \* the approval command
    restarts    \* restarts left

workerVars == <<task, order, snapshot, writer, turn, host, phase, approval, restarts>>
vars == <<workerVars, leaseVars>>

Statuses == {"NONE", "PENDING", "RUNNING", "WAITING", "DONE", "UNKNOWN"}
Gates == {"HUMAN_THUMBNAIL", "HUMAN_VIDEO"}
Actions == Gates \cup {"RESUME", "TERMINAL", "RECONCILE_REQUIRED"}
Phases == {"PRODUCING", "READY"} \cup Gates

\* Where a turn is.  The turns of a host interleave at its awaits only; from
\* next_pending to the handler, and from its outcome to the next await, a turn
\* holds the event loop, also while it waits for the writer lock.
AwaitPCs == {"idle", "handling", "draining", "release", "raised"}
WriterPCs == {"claim", "complete", "retry", "unknown"}
BlockingPCs == WriterPCs \cup {"picked", "outcome", "excepted", "delete"}

Row == [status : Statuses, action : Actions, epoch : Nat]
Turn == [pc : AwaitPCs \cup BlockingPCs, e : Episodes, tok : Nat, act : Actions,
         exit : {"idle", "raised"}]

NoTask == [status |-> "NONE", action |-> "RESUME", epoch |-> 0]
Idle(e) == [pc |-> "idle", e |-> e, tok |-> 0, act |-> "RESUME", exit |-> "idle"]
ApprovalOff(e) == [pc |-> "off", e |-> e, tok |-> 0, gate |-> "HUMAN_THUMBNAIL"]
Unlocked == [who |-> Nobody, at |-> "free"]

WorkerTypeOK ==
    /\ FencedTypeOK
    /\ task \in [Episodes -> Row]
    /\ order \in Seq(Episodes)
    /\ snapshot \in [status : {"CURRENT", "WRITER_IN_PROGRESS"}, tasks : [Episodes -> Row]]
    /\ writer \in [who : Turns \cup {Nobody, Approver}, at : {"free", "marked", "checked", "committed"}]
    /\ turn \in [Turns -> Turn]
    /\ host \in [Hosts -> {"serving", "ended", "closing", "down"}]
    /\ phase \in [Episodes -> Phases]
    /\ approval \in [pc : {"off", "leased", "recorded", "waking", "woken"}, e : Episodes,
                     tok : Nat, gate : Gates]
    /\ restarts \in 0..MaxRestarts

WorkerInit ==
    /\ FencedInit
    /\ task = [e \in Episodes |-> NoTask]
    /\ order = <<>>
    /\ snapshot = [status |-> "CURRENT", tasks |-> task]
    /\ writer = Unlocked
    /\ turn \in {[t \in Turns |-> Idle(CHOOSE e \in Episodes : TRUE)]}
    /\ host = [h \in Hosts |-> "serving"]
    /\ phase = [e \in Episodes |-> "PRODUCING"]
    /\ approval = ApprovalOff(CHOOSE e \in Episodes : TRUE)
    /\ restarts = MaxRestarts

-----------------------------------------------------------------------------
(* Helpers *)

\* assert_active for the lease object with this token.
Owns(e, tok) == token[e] = tok /\ e \in live

\* UPDATE ... SET updated_at: e becomes the most recently updated row.
Touched(e) ==
    LET at == CHOOSE i \in DOMAIN order : order[i] = e
        others == IF \E i \in DOMAIN order : order[i] = e
                  THEN SubSeq(order, 1, at - 1) \o SubSeq(order, at + 1, Len(order)) ELSE order
    IN  Append(others, e)

Goto(t, pc) == turn' = [turn EXCEPT ![t].pc = pc]

Publish == snapshot' = [status |-> "CURRENT", tasks |-> task']

\* read_status(): a strictly parsed, hashed and recent CURRENT document is shown,
\* anything else is STALE; the reader never opens the queue's database.
Readable == snapshot.status = "CURRENT"

\* The host's event loop is not held by another turn.
LoopFree(h) == \A t \in Turns : HostOf[t] = h => turn[t].pc \notin BlockingPCs
CanRun(t) == \A u \in Turns \ {t} : HostOf[u] = HostOf[t] => turn[u].pc \notin BlockingPCs

-----------------------------------------------------------------------------
(* The queue's clients *)

\* enqueue(): a new episode gets a row; a repeated call publishes again.
Enqueue(e) ==
    /\ writer = Unlocked
    /\ IF task[e] = NoTask
       THEN /\ task' = [task EXCEPT ![e].status = "PENDING"]
            /\ order' = Touched(e)
       ELSE UNCHANGED <<task, order>>
    /\ Publish
    /\ UNCHANGED <<writer, turn, host, phase, approval, restarts, leaseVars>>

\* enqueue() of an episode bound to another root: it raises after the marker.
EnqueueConflict(e) ==
    /\ writer = Unlocked
    /\ task[e] # NoTask
    /\ snapshot' = [snapshot EXCEPT !.status = "WRITER_IN_PROGRESS"]
    /\ UNCHANGED <<task, order, writer, turn, host, phase, approval, restarts, leaseVars>>

-----------------------------------------------------------------------------
(* run_once() up to the handler *)

\* Mutant: next_pending does not look at tasks a dead worker left RUNNING.
HeadOnlyPending == {i \in DOMAIN order : task[order[i]].status = "PENDING"}

\* The rows next_pending() orders: PENDING before RUNNING.
Eligible ==
    LET pending == {i \in DOMAIN order : task[order[i]].status = "PENDING"}
    IN  IF pending # {} THEN pending
        ELSE {i \in DOMAIN order : task[order[i]].status = "RUNNING"}

Pick(t) ==
    /\ turn[t].pc = "idle"
    /\ host[HostOf[t]] = "serving"
    /\ \E i \in Eligible :
          /\ \A j \in Eligible : i <= j
          /\ turn' = [turn EXCEPT ![t] = [Idle(order[i]) EXCEPT !.pc = "picked"]]
    /\ UNCHANGED <<task, order, snapshot, writer, host, phase, approval, restarts, leaseVars>>

\* A held lease ends the turn with None; otherwise the turn gets a new token.
Acquire(t) ==
    LET e == turn[t].e
    IN  /\ turn[t].pc = "picked"
        /\ IF token[e] # 0 /\ e \in live
           THEN Goto(t, "idle") /\ UNCHANGED leaseVars
           ELSE /\ Grant(e) /\ e \in live'
                /\ turn' = [turn EXCEPT ![t].pc = "claim", ![t].tok = last[e] + 1]
        /\ UNCHANGED <<task, order, snapshot, writer, host, phase, approval, restarts>>

-----------------------------------------------------------------------------
(* A queue mutation: claim, complete, retry or unknown *)

\* Mutant: the marker is left out, so readers keep trusting the old snapshot.
EnterUnmarked(t) ==
    /\ turn[t].pc \in WriterPCs
    /\ writer = Unlocked
    /\ writer' = [who |-> t, at |-> "marked"]
    /\ UNCHANGED <<task, order, snapshot, turn, host, phase, approval, restarts, leaseVars>>

WriterEnter(t) ==
    /\ turn[t].pc \in WriterPCs
    /\ writer = Unlocked
    /\ writer' = [who |-> t, at |-> "marked"]
    /\ snapshot' = [snapshot EXCEPT !.status = "WRITER_IN_PROGRESS"]
    /\ UNCHANGED <<task, order, turn, host, phase, approval, restarts, leaseVars>>

\* Mutant: claim trusts the lease it got from acquire().
ChecksAllButClaim(t) ==
    turn[t].pc = "claim" \/ Owns(turn[t].e, turn[t].tok)

\* _active().  claim() read the clock right after acquire(), before it waited
\* for the writer lock: for it the lease has not expired, only been replaced.
LeaseCheck(t) ==
    LET e == turn[t].e IN
    IF turn[t].pc = "claim" THEN token[e] = turn[t].tok ELSE Owns(e, turn[t].tok)

\* Where an operation that raised leaves the turn: claim() is outside the try
\* block, complete() and unknown() inside, retry() in the handler of it.
RaisesTo(pc) ==
    CASE pc = "claim" -> "raised"
      [] pc = "retry" -> "release"
      [] OTHER -> "excepted"

Abort(t) ==
    /\ writer' = Unlocked
    /\ turn' = [turn EXCEPT ![t].pc = RaisesTo(@), ![t].exit = "raised"]

WriterCheck(t) ==
    /\ writer = [who |-> t, at |-> "marked"]
    /\ IF LeaseCheck(t)
       THEN writer' = [writer EXCEPT !.at = "checked"] /\ UNCHANGED turn
       ELSE Abort(t)
    /\ UNCHANGED <<task, order, snapshot, host, phase, approval, restarts, leaseVars>>

\* complete(): what the handler's next_action makes of the row.
OutcomeStatus(act) ==
    IF act \in Gates THEN "WAITING" ELSE IF act = "TERMINAL" THEN "DONE" ELSE "PENDING"

\* Mutant: a quarantined task may be claimed again.
ClaimableWithUnknown(e) == task[e].status \in {"PENDING", "RUNNING", "UNKNOWN"}

Claimable(e) == task[e].status \in {"PENDING", "RUNNING"}

\* The WHERE clause of complete, retry and unknown.
RowOfEpoch(e, tok) == task[e].status = "RUNNING" /\ task[e].epoch = tok

\* The row after a successful UPDATE of operation pc.
NewRow(t) ==
    LET old == task[turn[t].e]
    IN  CASE turn[t].pc = "claim" -> [status |-> "RUNNING", action |-> "RESUME", epoch |-> turn[t].tok]
          [] turn[t].pc = "complete" ->
                [old EXCEPT !.status = OutcomeStatus(turn[t].act), !.action = turn[t].act]
          [] turn[t].pc = "retry" -> [old EXCEPT !.status = "PENDING", !.action = "RESUME"]
          [] OTHER -> [old EXCEPT !.status = "UNKNOWN", !.action = "RECONCILE_REQUIRED"]

\* The UPDATE and its commit.  Only retry() does not count its rows.
WriterCommit(t) ==
    LET e == turn[t].e
        matches == IF turn[t].pc = "claim" THEN Claimable(e) ELSE RowOfEpoch(e, turn[t].tok)
    IN  /\ writer = [who |-> t, at |-> "checked"]
        /\ \/ /\ matches
              /\ task' = [task EXCEPT ![e] = NewRow(t)]
              /\ order' = Touched(e)
              /\ writer' = [writer EXCEPT !.at = "committed"]
              /\ UNCHANGED turn
           \/ /\ ~matches /\ turn[t].pc = "retry"
              /\ writer' = [writer EXCEPT !.at = "committed"]
              /\ UNCHANGED <<task, order, turn>>
           \/ /\ ~matches /\ turn[t].pc # "retry"
              /\ Abort(t)
              /\ UNCHANGED <<task, order>>
        /\ UNCHANGED <<snapshot, host, phase, approval, restarts, leaseVars>>

\* unknown() keeps the lease: the turn ends there.
WriterPublish(t) ==
    /\ writer = [who |-> t, at |-> "committed"]
    /\ writer' = Unlocked
    /\ snapshot' = [status |-> "CURRENT", tasks |-> task]
    /\ Goto(t, CASE turn[t].pc = "claim" -> "handling"
                 [] turn[t].pc = "unknown" -> "idle"
                 [] OTHER -> "release")
    /\ UNCHANGED <<task, order, host, phase, approval, restarts, leaseVars>>

-----------------------------------------------------------------------------
(* The handler, the heartbeat and the end of the turn *)

\* The handler resumes the runner, staging the media once, and reports the
\* gate the runner waits for.  A fixture handler with nothing to do asserts no
\* ownership; every other path asserts it and raises when the lease is lost.
HandlerReturns(t) ==
    LET e == turn[t].e
        asserts == e \in Compiled \/ phase[e] = "PRODUCING"
        next == IF phase[e] = "PRODUCING" THEN "HUMAN_THUMBNAIL" ELSE phase[e]
    IN  /\ turn[t].pc \in {"handling", "draining"}
        /\ IF asserts /\ ~Owns(e, turn[t].tok)
           THEN /\ turn' = [turn EXCEPT ![t].pc = "excepted", ![t].exit = "raised"]
                /\ UNCHANGED phase
           ELSE /\ phase' = [phase EXCEPT ![e] = next]
                /\ turn' = [turn EXCEPT ![t].pc = "outcome",
                               ![t].act = IF next = "READY" THEN "TERMINAL" ELSE next]
        /\ UNCHANGED <<task, order, snapshot, writer, host, approval, restarts, leaseVars>>

\* The handler raises, perhaps in every call: a runner whose document is missing, or
\* whose intent was never reserved, is refused by each resume.
HandlerRaises(t) ==
    /\ turn[t].pc \in {"handling", "draining"}
    /\ turn' = [turn EXCEPT ![t].pc = "excepted", ![t].exit = "raised"]
    /\ UNCHANGED <<task, order, snapshot, writer, host, phase, approval, restarts, leaseVars>>

\* A renewal that read the clock before the expiry and got the row after it.
\* Every other renewal keeps the lease as it is here; a failed one ends the
\* heartbeat task and nothing else.
RenewLate(t) ==
    /\ turn[t].pc \in {"handling", "draining"}
    /\ token[turn[t].e] = turn[t].tok /\ turn[t].e \notin live
    /\ Refresh(turn[t].e) /\ turn[t].e \in live'
    /\ UNCHANGED workerVars

\* The shutdown deadline passes: renew, then quarantine the task.
DrainTimesOut(t) ==
    /\ turn[t].pc = "draining"
    /\ turn' = IF Owns(turn[t].e, turn[t].tok)
               THEN [turn EXCEPT ![t].pc = "unknown"]
               ELSE [turn EXCEPT ![t].pc = "excepted", ![t].exit = "raised"]
    /\ UNCHANGED <<task, order, snapshot, writer, host, phase, approval, restarts, leaseVars>>

\* assert_current() before complete().
AssertOutcome(t) ==
    /\ turn[t].pc = "outcome"
    /\ turn' = IF Owns(turn[t].e, turn[t].tok)
               THEN [turn EXCEPT ![t].pc = "complete"]
               ELSE [turn EXCEPT ![t].pc = "excepted", ![t].exit = "raised"]
    /\ UNCHANGED <<task, order, snapshot, writer, host, phase, approval, restarts, leaseVars>>

\* The except block: requeue while the lease is ours, otherwise leave both the
\* row and the lease alone.
HandleException(t) ==
    /\ turn[t].pc = "excepted"
    /\ Goto(t, IF Owns(turn[t].e, turn[t].tok) THEN "retry" ELSE "raised")
    /\ UNCHANGED <<task, order, snapshot, writer, host, phase, approval, restarts, leaseVars>>

\* The finally block, after its await: release() asserts ...
ReleaseAssert(t) ==
    /\ turn[t].pc = "release"
    /\ Goto(t, IF Owns(turn[t].e, turn[t].tok) THEN "delete" ELSE "raised")
    /\ UNCHANGED <<task, order, snapshot, writer, host, phase, approval, restarts, leaseVars>>

\* ... and deletes by token.
ReleaseDelete(t) ==
    LET e == turn[t].e
    IN  /\ turn[t].pc = "delete"
        /\ IF token[e] = turn[t].tok
           THEN Drop(e) /\ Goto(t, turn[t].exit)
           ELSE Goto(t, "raised") /\ UNCHANGED leaseVars
        /\ UNCHANGED <<task, order, snapshot, writer, host, phase, approval, restarts>>

-----------------------------------------------------------------------------
(* serve() and the host process *)

\* Cancelling a host's turns: a handler is waited for, but not a second time; a
\* turn that awaits its heartbeat in the finally block never gets to release
\* its lease.
Cancelled(h) ==
    [t \in Turns |->
        IF HostOf[t] # h THEN turn[t]
        ELSE CASE turn[t].pc = "handling" -> [turn[t] EXCEPT !.pc = "draining"]
               [] turn[t].pc = "draining" -> [turn[t] EXCEPT !.pc = "release", !.exit = "raised"]
               [] turn[t].pc \in {"release", "raised"} -> Idle(turn[t].e)
               [] OTHER -> turn[t]]

\* completed.result() re-raises what a turn raised: serve() cancels the other
\* turns and ends, while the host process keeps waiting for a signal.
TurnRaised(t) ==
    LET h == HostOf[t]
    IN  /\ turn[t].pc = "raised"
        /\ IF host[h] = "serving"
           THEN turn' = Cancelled(h) /\ host' = [host EXCEPT ![h] = "ended"]
           ELSE turn' = [turn EXCEPT ![t] = Idle(@.e)] /\ UNCHANGED host
        /\ UNCHANGED <<task, order, snapshot, writer, phase, approval, restarts, leaseVars>>

\* SIGINT or SIGTERM to a host, also to one whose serve() is ending or has ended.
Signal(h) ==
    /\ host[h] \in {"serving", "ended"}
    /\ LoopFree(h)
    /\ turn' = Cancelled(h)
    /\ host' = [host EXCEPT ![h] = "closing"]
    /\ UNCHANGED <<task, order, snapshot, writer, phase, approval, restarts, leaseVars>>

\* A host that was told to stop exits once its turns have ended.
HostExit(h) ==
    /\ host[h] = "closing"
    /\ \A t \in Turns : HostOf[t] = h => turn[t].pc = "idle"
    /\ host' = [host EXCEPT ![h] = "down"]
    /\ UNCHANGED <<task, order, snapshot, writer, turn, phase, approval, restarts, leaseVars>>

\* An operator starts the host again: EpisodeTaskQueue() publishes the committed rows.
HostStart(h) ==
    /\ host[h] = "down"
    /\ restarts > 0 /\ restarts' = restarts - 1
    /\ writer = Unlocked
    /\ host' = [host EXCEPT ![h] = "serving"]
    /\ snapshot' = [status |-> "CURRENT", tasks |-> task]
    /\ UNCHANGED <<task, order, writer, turn, phase, approval, leaseVars>>

\* The process dies.  The OS frees its locks; rows, leases and snapshot stay.
HostCrash(h) ==
    /\ host[h] # "down"
    /\ host' = [host EXCEPT ![h] = "down"]
    /\ turn' = [t \in Turns |-> IF HostOf[t] = h THEN Idle(turn[t].e) ELSE turn[t]]
    /\ writer' = IF writer.who \in {t \in Turns : HostOf[t] = h} THEN Unlocked ELSE writer
    /\ UNCHANGED <<task, order, snapshot, phase, approval, restarts, leaseVars>>

-----------------------------------------------------------------------------
(* The approval command *)

\* _approve_compiled_gate(): the task must be waiting and the lease free.
ApproveAcquire(e, gate) ==
    /\ approval.pc = "off"
    /\ e \in Compiled
    /\ task[e].status = "WAITING"
    /\ last[e] < MaxEpoch
    /\ Grant(e) /\ e \in live'
    /\ approval' = [pc |-> "leased", e |-> e, tok |-> last[e] + 1, gate |-> gate]
    /\ UNCHANGED <<task, order, snapshot, writer, turn, host, phase, restarts>>

\* _record_human_gate(): what the runner waits for after this gate.
AfterGate(gate) == IF gate = "HUMAN_THUMBNAIL" THEN "HUMAN_VIDEO" ELSE "READY"

\* record_human_gate_owned() under the lease.  Out of order, or with the lease
\* lost, it raises: the finally block releases a lease that is still current.
RecordGate ==
    LET e == approval.e
    IN  /\ approval.pc = "leased"
        /\ IF Owns(e, approval.tok) /\ phase[e] = approval.gate
           THEN /\ phase' = [phase EXCEPT ![e] = AfterGate(approval.gate)]
                /\ approval' = [approval EXCEPT !.pc = "recorded"]
           ELSE /\ approval' = [approval EXCEPT !.pc = "woken"]
                /\ UNCHANGED phase
        /\ UNCHANGED <<task, order, snapshot, writer, turn, host, restarts, leaseVars>>

\* A fixture gate is recorded without a lease, whatever the queue says.
RecordFixtureGate(e) ==
    /\ approval.pc = "off"
    /\ e \notin Compiled
    /\ phase[e] \in Gates
    /\ phase' = [phase EXCEPT ![e] = AfterGate(phase[e])]
    /\ approval' = [pc |-> "recorded", e |-> e, tok |-> 0, gate |-> phase[e]]
    /\ UNCHANGED <<task, order, snapshot, writer, turn, host, restarts, leaseVars>>

\* Mutant: any waiting gate is woken.
WakesAnyGate(e, gate) == task[e].status = "WAITING"

\* The WHERE clause of wake_gate(); the recorded receipt has the hash the row
\* waits for, since media is staged once.
Wakes(e, gate) == task[e].status = "WAITING" /\ task[e].action = gate

\* Before wake_gate() a compiled approval asserts its lease, and a fixture one skips
\* a task that is not waiting.
AssertWake ==
    LET e == approval.e
        calls == IF e \in Compiled THEN Owns(e, approval.tok) ELSE task[e].status = "WAITING"
    IN  /\ approval.pc = "recorded"
        /\ approval' = [approval EXCEPT !.pc = IF calls THEN "waking" ELSE "woken"]
        /\ UNCHANGED <<task, order, snapshot, writer, turn, host, phase, restarts, leaseVars>>

\* wake_gate() waits for the writer lock and marks the snapshot ...
WakeEnter ==
    /\ approval.pc = "waking" /\ writer = Unlocked
    /\ writer' = [who |-> Approver, at |-> "marked"]
    /\ snapshot' = [snapshot EXCEPT !.status = "WRITER_IN_PROGRESS"]
    /\ UNCHANGED <<task, order, turn, host, phase, approval, restarts, leaseVars>>

\* ... commits, no longer asking for the lease and even when it matched no row ...
WakeCommit ==
    LET e == approval.e
    IN  /\ writer = [who |-> Approver, at |-> "marked"]
        /\ IF Wakes(e, approval.gate)
           THEN /\ task' = [task EXCEPT ![e].status = "PENDING", ![e].action = "RESUME"]
                /\ order' = Touched(e)
           ELSE UNCHANGED <<task, order>>
        /\ writer' = [writer EXCEPT !.at = "committed"]
        /\ UNCHANGED <<snapshot, turn, host, phase, approval, restarts, leaseVars>>

\* ... and publishes.
WakePublish ==
    /\ writer = [who |-> Approver, at |-> "committed"]
    /\ writer' = Unlocked
    /\ snapshot' = [status |-> "CURRENT", tasks |-> task]
    /\ approval' = [approval EXCEPT !.pc = "woken"]
    /\ UNCHANGED <<task, order, turn, host, phase, restarts, leaseVars>>

\* The finally block: release a lease that is still current.
ApproveEnd ==
    LET e == approval.e
    IN  /\ approval.pc = "woken"
        /\ IF approval.tok # 0 /\ Owns(e, approval.tok) THEN Drop(e) ELSE UNCHANGED leaseVars
        /\ approval' = ApprovalOff(e)
        /\ UNCHANGED <<task, order, snapshot, writer, turn, host, phase, restarts>>

\* The command dies.  The OS frees its lock, a marker stays.
ApproveCrash ==
    /\ approval.pc # "off"
    /\ approval' = ApprovalOff(approval.e)
    /\ writer' = IF writer.who = Approver THEN Unlocked ELSE writer
    /\ UNCHANGED <<task, order, snapshot, turn, host, phase, restarts, leaseVars>>

-----------------------------------------------------------------------------
(* Time *)

\* A living process still counts on the current token of e.
Held(e) ==
    \/ \E t \in Turns : turn[t].pc # "idle" /\ turn[t].e = e /\ turn[t].tok = token[e]
    \/ approval.pc # "off" /\ approval.e = e /\ approval.tok = token[e]

\* The TTL passes.  For a lease that nobody renews any more this is bound to
\* happen; for a held one it means that heartbeats were missed, which may
\* happen at any time.
LeaseExpires(e) ==
    /\ e \in live
    /\ live' = live \ {e}
    /\ UNCHANGED <<token, last, workerVars>>

-----------------------------------------------------------------------------

\* The steps of a turn its host takes by itself; a handler ends one way or the other.
TurnStep(t) ==
    /\ CanRun(t)
    /\ \/ Pick(t) \/ Acquire(t)
       \/ WriterEnter(t) \/ WriterCheck(t) \/ WriterCommit(t) \/ WriterPublish(t)
       \/ HandlerReturns(t) \/ HandlerRaises(t) \/ DrainTimesOut(t) \/ AssertOutcome(t) \/ HandleException(t)
       \/ ReleaseAssert(t) \/ ReleaseDelete(t) \/ TurnRaised(t)

ApprovalStep ==
    \/ RecordGate \/ AssertWake \/ WakeEnter \/ WakeCommit \/ WakePublish \/ ApproveEnd

WorkerNext ==
    \/ \E t \in Turns : TurnStep(t)
    \/ \E t \in Turns : CanRun(t) /\ RenewLate(t)
    \/ \E h \in Hosts : Signal(h) \/ HostExit(h) \/ HostStart(h) \/ HostCrash(h)
    \/ \E e \in Episodes : Enqueue(e) \/ EnqueueConflict(e) \/ LeaseExpires(e)
    \/ \E e \in Episodes, gate \in Gates : ApproveAcquire(e, gate)
    \/ \E e \in Episodes : RecordFixtureGate(e)
    \/ ApprovalStep
    \/ ApproveCrash

\* Processes run, handlers end and time passes.  Nobody has to stop or start a host:
\* enqueueing, approving, signals, restarts and every failure are up to the environment.
Fairness ==
    /\ \A t \in Turns : WF_vars(TurnStep(t))
    /\ \A e \in Episodes : WF_vars(LeaseExpires(e) /\ ~Held(e))
    /\ WF_vars(ApprovalStep)

WorkerSpec == WorkerInit /\ [][WorkerNext]_vars
FairWorkerSpec == WorkerSpec /\ Fairness

-----------------------------------------------------------------------------
(* Properties *)

\* runner.json holds the approval of this gate.
Approved(e, gate) == phase[e] = "READY" \/ (gate = "HUMAN_THUMBNAIL" /\ phase[e] = "HUMAN_VIDEO")

\* read_status(): a CURRENT snapshot shows the committed rows, whatever crashed
\* or raised between marking, committing and publishing (worker.py:81-87).
SnapshotNeverLies == Readable => snapshot.tasks = task

\* A turn whose handler runs under a live lease owns the row: it is RUNNING at
\* exactly this turn's token, although row and lease live in two databases and
\* claim() checks the lease against an old clock reading (worker.py:195-211).
ActiveOwnerOwnsRow ==
    \A t \in Turns :
        turn[t].pc \in {"handling", "draining", "outcome"} /\ Owns(turn[t].e, turn[t].tok)
            => RowOfEpoch(turn[t].e, turn[t].tok)

\* Rows are claimed in the order of the tokens, also when a slow claimant gets
\* the writer lock after a faster, newer one (worker.py:200-211).
ClaimsFollowTokens ==
    [][\A e \in Episodes : task'[e].epoch >= task[e].epoch /\ task'[e].epoch <= last[e]]_vars

\* DONE and UNKNOWN_REQUIRES_RECONCILIATION are final: no expiry, restart or
\* late turn schedules the episode again (worker.py:207, 226, 244).
TerminalIsFinal ==
    [][\A e \in Episodes : task[e].status \in {"DONE", "UNKNOWN"} => task'[e] = task[e]]_vars

\* A task leaves a human gate only after that gate's approval was recorded in
\* runner.json, even by an approval that was delayed (worker.py:254-301).
GateNeedsApproval ==
    [][\A e \in Episodes :
          task[e].status = "WAITING" /\ task'[e] # task[e] => Approved(e, task[e].action)]_vars

\* While some host serves, no queued episode is forgotten: it comes to rest at a human
\* gate, done or quarantined, unless every host stops serving, through crashes, lost leases,
\* handlers that raise and rows a dead worker left RUNNING (worker.py:187-193, 312-363).
EpisodesSettle ==
    \A e \in Episodes :
        task[e].status \in {"PENDING", "RUNNING"} ~>
            \/ task[e].status \in {"WAITING", "DONE", "UNKNOWN"}
            \/ \A h \in Hosts : host[h] # "serving"

=============================================================================
