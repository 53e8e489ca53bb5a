------------------------------ MODULE RunPodHero ------------------------------
(***************************************************************************)
(* One request of the serverless hero provider                             *)
(* (src/providers/video/runpod_serverless.py): the write-ahead claim of    *)
(* the only POST, the checkpoint kept before each poll, the deadline,      *)
(* cancellation by the driver, by its caller and by cancel(), the          *)
(* verified download, and recovery after a crash.                          *)
(*                                                                         *)
(* Drivers (submit, recover, recover_local) and cancellers are coroutines  *)
(* of one event loop, so a step runs from one await to the next.  The      *)
(* process may die between two writes of a step; the steps that write      *)
(* twice have that outcome as a disjunct.  The executor holds the lock of  *)
(* the request, so one driver at a time is past its first line; submit may *)
(* be called at any time.  The remote service is external.                 *)
(***************************************************************************)
EXTENDS Naturals

CONSTANTS
    Drivers,    \* calls of submit, recover and recover_local
    Cancellers, \* calls of cancel
    NoFile      \* no checkpoint file exists

Calls == Drivers \cup Cancellers

Terminal == {"COMPLETED", "FAILED", "CANCELLED"}
Checkpoint == [id : BOOLEAN,        \* provider_id is recorded
               status : {"SUBMITTING", "RUNNING"} \cup Terminal,
               claimed : BOOLEAN,   \* cancel_claimed
               result : BOOLEAN]    \* result_path and result_sha256 are recorded
Remotes == {"none", "running", "done", "failed", "cancelled"}

ASSUME HeroConstants == Drivers \cap Cancellers = {} /\ NoFile \notin Checkpoint

\* Where a call waits: in the POST (before and after it reaches the service),
\* in the poll's sleep, for a status answer (before and after the service makes
\* it; recover() polls once before _drive()), in the download, in the control
\* request of a cancellation.  "loop" is the head of _drive()'s loop.
DrivePCs == {"sleep", "status", "check", "download"}
RecoverPCs == {"rstatus", "rcheck"}
CallPCs == {"idle", "post", "posted", "loop", "cancel"} \cup DrivePCs \cup RecoverPCs

VARIABLES
    ck,         \* the checkpoint file of the request
    file,       \* the linked output exists
    bound,      \* the executor's row holds the provider id
    pc, local,  \* local[p]: the copy of the checkpoint that call p holds
    answer,     \* answer[p]: the status in p's last response
    remote,     \* the job at the service
    posts,      \* how many submissions reached the service (2 stands for more)
    due,        \* the persisted deadline has passed
    returned    \* some call has returned a ProviderResult

callVars == <<pc, local, answer>>
heroVars == <<ck, file, bound, callVars, remote, posts, due, returned>>

FreshCheckpoint == [id |-> FALSE, status |-> "SUBMITTING", claimed |-> FALSE, result |-> FALSE]

\* The checkpoint and the calls take values of their types, the paid POST is
\* made at most once, and never without the durable record that would stop
\* another one: submit() claims before it posts and nothing removes the claim.
PostedOnceAndClaimed ==
    /\ ck \in Checkpoint \cup {NoFile}
    /\ pc \in [Calls -> CallPCs] /\ local \in [Calls -> Checkpoint]
    /\ answer \in [Calls -> Remotes] /\ remote \in Remotes
    /\ posts \in 0..2 /\ {file, bound, due, returned} \subseteq BOOLEAN
    /\ posts <= 1
    /\ posts = 1 => ck # NoFile

HeroInit ==
    /\ ck = NoFile /\ file = FALSE /\ bound = FALSE
    /\ pc = [p \in Calls |-> "idle"]
    /\ local = [p \in Calls |-> FreshCheckpoint]
    /\ answer = [p \in Calls |-> "none"]
    /\ remote = "none" /\ posts = 0 /\ due = FALSE /\ returned = FALSE

-----------------------------------------------------------------------------
(* Helpers *)

Reach(p, l) == pc' = [pc EXCEPT ![p] = l]
Keep(p, state) == local' = [local EXCEPT ![p] = state]

\* The call ends: it raises, or it has nothing more to do.
Leave(p) == Reach(p, "idle") /\ UNCHANGED <<local, answer>>

\* The executor's lock of the request.
DriverActive == \E d \in Drivers : pc[d] # "idle"

\* _parse_status(): IN_PROGRESS is RUNNING, and IN_QUEUE is polled like it.
Parsed(r) == [none |-> "RUNNING", running |-> "RUNNING", done |-> "COMPLETED",
              failed |-> "FAILED", cancelled |-> "CANCELLED"][r]

\* The driver has run out of time: the deadline check of _drive() and recover().
OverdueUnlessClaimed(state) == due /\ ~state.claimed
Overdue(state) == due

\* The claim in the freshly loaded checkpoint, looked for after every await.
NeverClaimed(loaded) == FALSE
ClaimSeen(loaded) == loaded.claimed

-----------------------------------------------------------------------------
(* _cancel_once() *)

\* The part before the await: the checkpoint is read again, a cancelled one is
\* left alone, otherwise the intent is durable before the control request.
CancelOnce(p) ==
    IF ck.status = "CANCELLED"
    THEN Leave(p) /\ UNCHANGED ck
    ELSE /\ ck' = [ck EXCEPT !.claimed = TRUE]
         /\ Keep(p, ck') /\ Reach(p, "cancel") /\ UNCHANGED answer

\* What a failed control request saves: the copy, still not terminal.
AbandonAsCancelled(state) == [state EXCEPT !.status = "CANCELLED"]
Abandon(state) == state

\* The answer of the control request, its loss, and its failure to arrive.
\* Whatever the outcome, the caller of _cancel_once() then raises or returns.
CancelStep(p) ==
    /\ pc[p] = "cancel"
    /\ \/ /\ remote' = IF remote = "running" THEN "cancelled" ELSE remote
          /\ ck' \in {[local[p] EXCEPT !.status = "CANCELLED"], Abandon(local[p])}
       \/ ck' = Abandon(local[p]) /\ UNCHANGED remote
    /\ Leave(p)
    /\ UNCHANGED <<file, bound, posts, due, returned>>

\* cancel(): only a named, unfinished job is cancelled.
Cancel(c) ==
    /\ pc[c] = "idle" /\ ck # NoFile
    /\ ck.id /\ ck.status \notin Terminal
    /\ CancelOnce(c)
    /\ UNCHANGED <<file, bound, remote, posts, due, returned>>

-----------------------------------------------------------------------------
(* submit() *)

\* _claim_submission(): the file is created exclusively.
ClaimsOver(path) == TRUE
Claims(path) == path = NoFile

Submit(d) ==
    /\ pc[d] = "idle"
    /\ Claims(ck)
    /\ ck' = FreshCheckpoint /\ Keep(d, FreshCheckpoint) /\ Reach(d, "post")
    /\ UNCHANGED <<file, bound, answer, remote, posts, due, returned>>

\* The submission reaches the service.
PostArrives(d) ==
    /\ pc[d] = "post"
    /\ posts' = IF posts = 2 THEN 2 ELSE posts + 1
    /\ remote' = "running"
    /\ Reach(d, "posted")
    /\ UNCHANGED <<ck, file, bound, local, answer, due, returned>>

\* The submission fails, times out, is cancelled, or answers without an id:
\* the outcome stays unknown and the checkpoint has no job to follow.
PostFails(d) ==
    /\ pc[d] \in {"post", "posted"}
    /\ ck' = local[d]
    /\ Leave(d)
    /\ UNCHANGED <<file, bound, remote, posts, due, returned>>

\* The answer names the job.  The id is durable before the executor hears of
\* it; its checkpoint may raise, and so may an unreadable status.
PostAnswered(d) ==
    /\ pc[d] = "posted"
    /\ \/ /\ bound' = TRUE
          /\ ck' = [local[d] EXCEPT !.id = TRUE, !.status = Parsed(remote)]
          /\ Keep(d, ck') /\ Reach(d, "loop")
          /\ answer' = [answer EXCEPT ![d] = remote]
       \/ /\ bound' \in BOOLEAN
          /\ ck' = [local[d] EXCEPT !.id = TRUE]
          /\ Leave(d)
    /\ UNCHANGED <<file, remote, posts, due, returned>>

-----------------------------------------------------------------------------
(* _drive() and _complete() *)

\* A status that ends the job is followed by the exception that reports it.
Failed(d) == ck.status \in {"FAILED", "CANCELLED"} /\ Leave(d) /\ UNCHANGED ck

\* The response does not carry a verifiable output, the bytes differ, or the
\* reported cost is not an amount, when the file is already linked.
RejectResult(d, state) ==
    /\ ck' = [state EXCEPT !.status = "FAILED"]
    /\ file' \in {file, TRUE}
    /\ Leave(d) /\ UNCHANGED returned

\* The process dies: every call is gone, the files stay.
Die == pc' = [p \in Calls |-> "idle"] /\ UNCHANGED <<local, answer>>

\* The verified file is linked, recorded and returned.  The process may die
\* between the link and the record.
DeliverHero(d, state) ==
    /\ file' = TRUE
    /\ \/ /\ ck' = [state EXCEPT !.status = "COMPLETED", !.result = TRUE]
          /\ returned' = TRUE /\ Leave(d)
       \/ Die /\ UNCHANGED <<ck, returned>>

\* The head of the loop reads the checkpoint again.
LoopCompleted(d) ==
    /\ pc[d] = "loop" /\ ck.status = "COMPLETED"
    /\ \/ RejectResult(d, ck)
       \/ file /\ DeliverHero(d, ck)
       \/ /\ ~file /\ Keep(d, ck) /\ Reach(d, "download")
          /\ UNCHANGED <<ck, file, answer, returned>>
    /\ UNCHANGED <<bound, remote, posts, due>>

LoopUnfinished(d) ==
    /\ pc[d] = "loop" /\ ck.status # "COMPLETED"
    /\ \/ Failed(d)
       \/ /\ ck.status \notin Terminal
          /\ IF Overdue(ck)
             THEN CancelOnce(d)
             ELSE Keep(d, ck) /\ Reach(d, "sleep") /\ UNCHANGED <<ck, answer>>
    /\ UNCHANGED <<file, bound, remote, posts, due, returned>>

\* After the sleep, and again after the status request, a claim sends the
\* driver back to the head of the loop and the deadline ends it.
Wake(d) ==
    /\ pc[d] = "sleep"
    /\ \/ ck.claimed /\ Reach(d, "loop") /\ UNCHANGED <<ck, local, answer>>
       \/ ~ck.claimed /\ due /\ CancelOnce(d)
       \/ ~ck.claimed /\ ~due /\ Reach(d, "status") /\ UNCHANGED <<ck, local, answer>>
    /\ UNCHANGED <<file, bound, remote, posts, due, returned>>

\* The status answer is a view of the job when the service made it; it is used
\* a step later.
StatusAnswered(d) ==
    /\ pc[d] \in {"status", "rstatus"}
    /\ answer' = [answer EXCEPT ![d] = remote]
    /\ Reach(d, IF pc[d] = "status" THEN "check" ELSE "rcheck")
    /\ UNCHANGED <<ck, file, bound, local, remote, posts, due, returned>>

\* No answer within the bound of the poll.
StatusTimeout(d) ==
    /\ pc[d] \in {"status", "check"}
    /\ CancelOnce(d)
    /\ UNCHANGED <<file, bound, remote, posts, due, returned>>

\* The transport raised something else.
TransportRaises(d) ==
    /\ pc[d] \in {"status", "check", "download"}
    /\ Leave(d)
    /\ UNCHANGED <<ck, file, bound, remote, posts, due, returned>>

\* The answer is used unless a cancellation was claimed or time ran out while
\* it was under way; an unknown status raises.
StatusChecked(d) ==
    /\ pc[d] = "check"
    /\ \/ ClaimSeen(ck) /\ Reach(d, "loop") /\ UNCHANGED <<ck, local, answer>>
       \/ ~ClaimSeen(ck) /\ due /\ CancelOnce(d)
       \/ /\ ~ClaimSeen(ck) /\ ~due
          /\ ck' = [local[d] EXCEPT !.status = Parsed(answer[d])]
          /\ Reach(d, "loop") /\ UNCHANGED <<local, answer>>
    /\ UNCHANGED <<file, bound, remote, posts, due, returned>>

\* The bytes arrive; the copy read before the download is what is saved.
Downloaded(d) ==
    /\ pc[d] = "download"
    /\ \/ RejectResult(d, local[d])
       \/ DeliverHero(d, local[d])
    /\ UNCHANGED <<bound, remote, posts, due>>

\* The caller cancels the driver while _drive() waits: its handler sends the
\* cancellation, shielded.
CallerCancels(d) ==
    /\ pc[d] \in DrivePCs
    /\ CancelOnce(d)
    /\ UNCHANGED <<file, bound, remote, posts, due, returned>>

-----------------------------------------------------------------------------
(* recover() and recover_local() *)

\* recover_local() first tells the executor the id that only the checkpoint has.
\* A cancellation that never finished is sent again; a settled checkpoint is
\* answered from disk; a job out of time is cancelled; otherwise it is polled.
Recover(d) ==
    /\ pc[d] = "idle" /\ ~DriverActive
    /\ ck # NoFile /\ ck.id
    /\ bound' = TRUE
    /\ \/ /\ ck.claimed /\ ck.status # "CANCELLED"
          /\ CancelOnce(d) /\ UNCHANGED returned
       \/ /\ ~ck.claimed /\ ck.status = "COMPLETED" /\ ck.result
          /\ file /\ returned' = TRUE
          /\ UNCHANGED <<ck, callVars>>
       \/ /\ ~ck.claimed \/ ck.status = "CANCELLED"
          /\ Failed(d) /\ UNCHANGED returned
       \/ /\ ~ck.claimed /\ ck.status \notin Terminal /\ Overdue(ck)
          /\ CancelOnce(d) /\ UNCHANGED returned
       \/ /\ ~ck.claimed /\ ~ck.result
          /\ \/ ck.status = "COMPLETED"
             \/ ck.status \notin Terminal /\ ~Overdue(ck)
          /\ Keep(d, ck) /\ Reach(d, "rstatus") /\ UNCHANGED <<ck, answer, returned>>
    /\ UNCHANGED <<file, remote, posts, due>>

\* The poll times out: a job known to be complete is left for another recovery.
RecoverTimeout(d) ==
    /\ pc[d] \in RecoverPCs
    /\ IF local[d].status = "COMPLETED"
       THEN Leave(d) /\ UNCHANGED ck
       ELSE CancelOnce(d)
    /\ UNCHANGED <<file, bound, remote, posts, due, returned>>

\* The transport raises, or the caller cancels: recover() has no handler.
RecoverRaises(d) ==
    /\ pc[d] \in RecoverPCs
    /\ Leave(d)
    /\ UNCHANGED <<ck, file, bound, remote, posts, due, returned>>

RecoverChecked(d) ==
    /\ pc[d] = "rcheck"
    /\ \/ ClaimSeen(ck) /\ Leave(d) /\ UNCHANGED ck
       \/ /\ ~ClaimSeen(ck) /\ local[d].status # "COMPLETED" /\ due
          /\ CancelOnce(d)
       \/ /\ ~ClaimSeen(ck)
          /\ local[d].status = "COMPLETED" \/ ~due
          /\ ck' = [local[d] EXCEPT !.status = Parsed(answer[d])]
          /\ Reach(d, "loop") /\ UNCHANGED <<local, answer>>
    /\ UNCHANGED <<file, bound, remote, posts, due, returned>>

-----------------------------------------------------------------------------
(* The service and the environment *)

RemoteEnds ==
    /\ remote = "running"
    /\ remote' \in {"done", "failed", "cancelled"}
    /\ UNCHANGED <<ck, file, bound, callVars, posts, due, returned>>

\* The deadline, persisted by the submission, passes.
Deadline ==
    /\ ck # NoFile /\ ~due
    /\ due' = TRUE
    /\ UNCHANGED <<ck, file, bound, callVars, remote, posts, returned>>

Crash ==
    /\ \E p \in Calls : pc[p] # "idle"
    /\ Die
    /\ UNCHANGED <<ck, file, bound, remote, posts, due, returned>>

\* What a driver does by itself once its call has begun.
DriverStep(d) ==
    \/ PostArrives(d) \/ PostFails(d) \/ PostAnswered(d)
    \/ LoopCompleted(d) \/ LoopUnfinished(d) \/ Wake(d)
    \/ StatusAnswered(d) \/ StatusTimeout(d) \/ TransportRaises(d) \/ StatusChecked(d)
    \/ Downloaded(d)
    \/ RecoverTimeout(d) \/ RecoverRaises(d) \/ RecoverChecked(d)
    \/ CancelStep(d)

HeroNext ==
    \/ \E d \in Drivers : Submit(d) \/ Recover(d) \/ DriverStep(d) \/ CallerCancels(d)
    \/ \E c \in Cancellers : Cancel(c) \/ CancelStep(c)
    \/ RemoteEnds \/ Deadline \/ Crash

\* The event loop resumes every coroutine whose await has ended, every await
\* of the driver is bounded by wait_for or by the poll's delay, and the clock
\* moves on.  Nothing else is assumed: not that the service answers, nor that
\* a job ends.
HeroSpec ==
    /\ HeroInit /\ [][HeroNext]_heroVars
    /\ WF_heroVars(Deadline)
    /\ \A d \in Drivers : WF_heroVars(DriverStep(d))

-----------------------------------------------------------------------------
(* Properties *)

\* A checkpoint says the job has ended only when the service has ended it: an
\* intent to cancel, a lost answer or a stale copy saved late never makes a
\* running, paid job look finished, and COMPLETED is said of a done job only.
TerminalIsEvidenced ==
    /\ ck # NoFile /\ ck.status \in Terminal => remote \notin {"none", "running"}
    /\ ck # NoFile /\ ck.status = "COMPLETED" => remote = "done"

\* Once a driver has returned the clip, the checkpoint holds its result for
\* every later recovery, and no cancellation, before or after, was accepted:
\* the reloads after each await order the claim of cancel() and the driver.
DeliveredStaysDelivered ==
    returned => /\ file /\ ck.status = "COMPLETED"
                /\ ck.result /\ ~ck.claimed

\* A call of submit or recover comes back, whatever the service does and
\* whoever has claimed a cancellation: the persisted deadline bounds it.
DriverReturns == \A d \in Drivers : pc[d] # "idle" ~> pc[d] = "idle"
=============================================================================
