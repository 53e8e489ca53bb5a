--------------------------- MODULE BillingSnapshot ---------------------------
(***************************************************************************)
(* The life of a FAL request over two databases and a snapshot file: the   *)
(* executor's job rows (src/hybrid/execution.py), the ledger's claims      *)
(* (StandingBudget), the coordinator that pairs their writes under one OS  *)
(* lock (src/hybrid/billing_snapshot.py) and the settlement service that   *)
(* reconciles them with the provider's bill (billing_reconciler.py).       *)
(*                                                                         *)
(* Processes call admit(), run_admitted() and reconcile() in any order and *)
(* at the same time, and may die between any two durable writes.  A call   *)
(* that raises ends; a marker it published stays.                          *)
(***************************************************************************)
EXTENDS StandingBudget

CONSTANTS
    Procs,       \* processes that call the settlement service
    Nobody,      \* a lock is free
    Cost,        \* Cost[r]: job.cost of request r
    EpisodeOf,   \* EpisodeOf[r]: the episode r is admitted for
    JobLimit,    \* config.limit of the executor
    MaxGen,      \* bound: no call starts after this snapshot generation
    MaxFaults    \* bound: crashes and lost answers

ASSUME BillingConstants ==
    /\ Nobody \notin Procs /\ Requests # {}
    /\ Cost \in [Requests -> Nat \ {0}]
    /\ EpisodeOf \in [Requests -> Episodes]
    /\ JobLimit \in Nat /\ MaxGen \in Nat /\ MaxFaults \in Nat

VARIABLES
    job,        \* table jobs of the executor; status "NONE" when there is no row
    snapshot,   \* billing-status.json
    lock,       \* who holds .billing-status.lock
    running,    \* running[r]: who holds the executor's lock of request r
    proc,       \* the call each process is in
    posts,      \* posts[r]: POSTs the provider received for r
    faults      \* faults left

billingVars == <<job, snapshot, lock, running, proc, posts, faults>>
vars == <<billingVars, ledgerVars>>

JobStatuses == {"NONE", "INTENT", "PREPARED", "SUBMITTING", "SUBMITTED", "COMPLETE", "OVERRUN"}
Job == [status : JobStatuses, gen : Nat, pid : Nat, charged : Nat]
NoJob == [status |-> "NONE", gen |-> 0, pid |-> Unassigned, charged |-> 0]

\* The steps of prepare_and_reserve, of Executor.run, of its checkpoint, of
\* reconcile, of mark_unknown and of settle_verified_receipt.
AdmitPCs == {"intent", "prepared", "reserve", "publish"}
RunPCs == {"inspect", "direct", "submitting", "post", "recover", "bind", "resolve"}
BindPCs == {"bind_job", "bind_claim", "bind_publish"}
ReconcilePCs == {"readback", "forget", "unknown", "settle"}
UnknownPCs == {"unknown_job", "unknown_claim"}
SettlePCs == {"settle_job", "settle_claim", "settle_pin"}
PCs == {"idle"} \cup AdmitPCs \cup RunPCs \cup BindPCs \cup ReconcilePCs \cup UnknownPCs \cup SettlePCs

Outside(r) == [pc |-> "idle", r |-> r, gen |-> 0, pid |-> Unassigned, bill |-> 0]
AnyRequest == CHOOSE r \in Requests : TRUE

BillingTypeOK ==
    /\ LedgerTypeOK
    /\ job \in [Requests -> Job]
    /\ snapshot \in [status : {"CURRENT", "WRITER_IN_PROGRESS"}, gen : Nat, r : Requests,
                     job : Job, claim : Claim]
    /\ lock \in Procs \cup {Nobody}
    /\ running \in [Requests -> Procs \cup {Nobody}]
    /\ proc \in [Procs -> [pc : PCs, r : Requests, gen : Nat, pid : Nat, bill : Nat]]
    /\ posts \in [Requests -> Nat]
    /\ faults \in 0..MaxFaults

Marker(r, g) == [status |-> "WRITER_IN_PROGRESS", gen |-> g, r |-> r, job |-> NoJob, claim |-> NoClaim]

BillingInit ==
    /\ LedgerInit
    /\ job = [r \in Requests |-> NoJob]
    /\ snapshot = Marker(AnyRequest, 0)
    /\ lock = Nobody
    /\ running = [r \in Requests |-> Nobody]
    /\ proc = [p \in Procs |-> Outside(AnyRequest)]
    /\ posts = [r \in Requests |-> 0]
    /\ faults = MaxFaults

-----------------------------------------------------------------------------
(* Helpers *)

Fault == faults > 0 /\ faults' = faults - 1

At(p, pc) == proc[p].pc = pc
Goto(p, pc) == proc' = [proc EXCEPT ![p].pc = pc] /\ UNCHANGED <<lock, running>>

\* Mutant: an error path returns without letting go of the coordinator lock.
EndHoldingLock(p) ==
    /\ proc' = [proc EXCEPT ![p] = Outside(AnyRequest)]
    /\ running' = [r \in Requests |-> IF running[r] = p THEN Nobody ELSE running[r]]
    /\ UNCHANGED lock

\* The call returns or raises, or its process dies: the OS drops its locks.
End(p) ==
    /\ proc' = [proc EXCEPT ![p] = Outside(AnyRequest)]
    /\ lock' = IF lock = p THEN Nobody ELSE lock
    /\ running' = [r \in Requests |-> IF running[r] = p THEN Nobody ELSE running[r]]

\* A process starts a call; the bound keeps the generations finite.
Free(p) == proc[p].pc = "idle" /\ snapshot.gen < MaxGen

SetJob(r, j) == job' = [job EXCEPT ![r] = j]

\* Take the coordinator lock, allocate a generation and publish the marker.
Mark(p, r, pc) ==
    /\ lock = Nobody
    /\ lock' = p
    /\ snapshot' = Marker(r, snapshot.gen + 1)
    /\ proc' = [proc EXCEPT ![p] = [@ EXCEPT !.pc = pc, !.r = r, !.gen = snapshot.gen + 1]]
    /\ UNCHANGED running

\* Mutant: the generations of the rows are not compared.
CoherentIds(r, g) ==
    job[r].status # "NONE" /\ claims[r].state # "NONE" /\ job[r].pid = claims[r].pid

\* _current(): both rows carry this generation and the same remote id.
Coherent(r, g) ==
    /\ job[r].status # "NONE" /\ claims[r].state # "NONE"
    /\ job[r].gen = g /\ claims[r].gen = g
    /\ job[r].pid = claims[r].pid

Published(r, g) ==
    snapshot' = IF Coherent(r, g)
                THEN [status |-> "CURRENT", gen |-> g, r |-> r, job |-> job[r], claim |-> claims[r]]
                ELSE snapshot

\* Executor._reserve(): no overrun on record and room under the job limit.
Charged == MapThenSumSet(LAMBDA r : job[r].charged, Requests)
JobAdmits(r) ==
    /\ \A q \in Requests : job[q].status # "OVERRUN"
    /\ Charged + Cost[r] <= JobLimit

\* The row _reserve() inserts.
Intent(r, g) == SetJob(r, [status |-> "INTENT", gen |-> g, pid |-> Unassigned, charged |-> Cost[r]])

-----------------------------------------------------------------------------
(* prepare_and_reserve() *)

Admit(p, r) ==
    /\ Free(p)
    /\ Mark(p, r, "intent")
    /\ UNCHANGED <<job, posts, faults, ledgerVars>>

\* prepare_intent() up to the commit of a new row; an existing row is kept.
AdmitIntent(p) ==
    LET r == proc[p].r
    IN  /\ At(p, "intent")
        /\ \/ /\ job[r].status = "NONE" /\ JobAdmits(r)
              /\ Intent(r, proc[p].gen) /\ Goto(p, "prepared")
           \/ /\ job[r].status \in {"PREPARED", "INTENT", "COMPLETE"}
              /\ Goto(p, "reserve") /\ UNCHANGED job
           \/ /\ IF job[r].status = "NONE" THEN ~JobAdmits(r)
                 ELSE job[r].status \notin {"PREPARED", "INTENT", "COMPLETE"}
              /\ End(p) /\ UNCHANGED job
        /\ UNCHANGED <<snapshot, posts, faults, ledgerVars>>

AdmitPrepared(p) ==
    /\ At(p, "prepared")
    /\ SetJob(proc[p].r, [job[proc[p].r] EXCEPT !.status = "PREPARED"])
    /\ Goto(p, "reserve")
    /\ UNCHANGED <<snapshot, posts, faults, ledgerVars>>

AdmitReserve(p) ==
    LET r == proc[p].r
        same == SameClaim(r, EpisodeOf[r], Cost[r], "standard", "FAL_READBACK_V2", Unassigned)
        new(m) == Admits(r, EpisodeOf[r], m, Cost[r], "standard")
    IN  /\ At(p, "reserve")
        /\ \/ same /\ Goto(p, "publish") /\ UNCHANGED claims
           \/ \E m \in 0..month :
                 \/ /\ new(m) /\ Goto(p, "publish")
                    /\ Inserted(r, EpisodeOf[r], m, Cost[r], "standard", "FAL_READBACK_V2", Unassigned, proc[p].gen)
                 \/ ~same /\ ~new(m) /\ End(p) /\ UNCHANGED claims
        /\ UNCHANGED <<job, snapshot, posts, faults, month>>

\* The last step of every coordinator method but the checkpoint's.
Publish(p) ==
    /\ At(p, "publish")
    /\ Published(proc[p].r, proc[p].gen)
    /\ End(p)
    /\ UNCHANGED <<job, posts, faults, ledgerVars>>

-----------------------------------------------------------------------------
(* run_admitted(): Executor.run() with submit_prepared *)

Run(p, r) ==
    /\ Free(p)
    /\ running[r] = Nobody
    /\ running' = [running EXCEPT ![r] = p]
    /\ proc' = [proc EXCEPT ![p] = [@ EXCEPT !.pc = "inspect", !.r = r]]
    /\ UNCHANGED <<job, snapshot, lock, posts, faults, ledgerVars>>

\* Mutant: the claim of the intent is not looked at.
AdmittedUnseen(r) == TRUE

\* _verify_prepared_fal_admission(): the claim that pays for this intent.
Admitted(r) ==
    /\ claims[r].state = "RESERVED"
    /\ claims[r].mode = "FAL_READBACK_V2"
    /\ claims[r].pid = Unassigned
    /\ claims[r].cap = Cost[r]

\* Mutant: an intent whose fate is unknown is submitted again.
ResubmitsAmbiguous(s) == s \in {"PREPARED", "SUBMITTING"}

\* The row statuses from which run() may go on to the POST.
Submittable(s) == s = "PREPARED"

\* What run() does with the row it finds.
RunInspect(p) ==
    LET r == proc[p].r
        s == job[r].status
    IN  /\ At(p, "inspect")
        /\ \/ /\ s = "NONE" /\ JobAdmits(r)          \* a request nobody admitted
              /\ Intent(r, 0) /\ Goto(p, "direct")
           \/ Submittable(s) /\ Admitted(r) /\ Goto(p, "submitting") /\ UNCHANGED job
           \/ s = "SUBMITTED" /\ Goto(p, "recover") /\ UNCHANGED job
           \/ /\ \/ s = "NONE" /\ ~JobAdmits(r)
                 \/ Submittable(s) /\ ~Admitted(r)
                 \/ ~Submittable(s) /\ s \in {"INTENT", "SUBMITTING", "COMPLETE", "OVERRUN"}
              /\ End(p) /\ UNCHANGED job
        /\ UNCHANGED <<snapshot, posts, faults, ledgerVars>>

\* A fresh FAL row takes the path of a prepared intent.
RunDirect(p) ==
    /\ At(p, "direct")
    /\ SetJob(proc[p].r, [job[proc[p].r] EXCEPT !.status = "PREPARED"])
    /\ Goto(p, "inspect")
    /\ UNCHANGED <<snapshot, posts, faults, ledgerVars>>

RunSubmitting(p) ==
    /\ At(p, "submitting")
    /\ SetJob(proc[p].r, [job[proc[p].r] EXCEPT !.status = "SUBMITTING"])
    /\ Goto(p, "post")
    /\ UNCHANGED <<snapshot, posts, faults, ledgerVars>>

\* submit(): the POST reaches the provider; its answer, which names the remote
\* id, may be lost.
RunPost(p) ==
    LET r == proc[p].r
    IN  /\ At(p, "post")
        /\ posts' = [posts EXCEPT ![r] = @ + 1]
        /\ \/ /\ proc' = [proc EXCEPT ![p] = [@ EXCEPT !.pc = "bind", !.pid = posts[r] + 1]]
              /\ UNCHANGED <<lock, running, faults>>
           \/ Fault /\ End(p)
        /\ UNCHANGED <<job, snapshot, ledgerVars>>

\* recover() fetches the result of the remote id on record; a provider
\* may checkpoint an id again, the same or (wrongly) another one.
RunRecover(p) ==
    /\ At(p, "recover")
    /\ \/ Goto(p, "resolve")
       \/ /\ \E pid \in {job[proc[p].r].pid, job[proc[p].r].pid + 1} :
                proc' = [proc EXCEPT ![p] = [@ EXCEPT !.pc = "bind", !.pid = pid]]
          /\ UNCHANGED <<lock, running>>
    /\ UNCHANGED <<job, snapshot, posts, faults, ledgerVars>>

\* checkpoint_provider_binding(), called inside run().
BindMark(p) ==
    /\ At(p, "bind")
    /\ Mark(p, proc[p].r, "bind_job")
    /\ UNCHANGED <<job, posts, faults, ledgerVars>>

\* _checkpoint_provider_binding() writes the remote id once.
BindJob(p) ==
    LET r == proc[p].r
    IN  /\ At(p, "bind_job")
        /\ \/ /\ job[r].pid = proc[p].pid /\ Goto(p, "bind_claim") /\ UNCHANGED job
           \/ /\ job[r].pid = Unassigned /\ Goto(p, "bind_claim")
              /\ SetJob(r, [job[r] EXCEPT !.pid = proc[p].pid, !.status = "SUBMITTED", !.gen = proc[p].gen])
           \/ job[r].pid \notin {Unassigned, proc[p].pid} /\ End(p) /\ UNCHANGED job
        /\ UNCHANGED <<snapshot, posts, faults, ledgerVars>>

BindClaim(p) ==
    LET r == proc[p].r
    IN  /\ At(p, "bind_claim")
        /\ \/ MayBind(r, proc[p].pid, proc[p].gen) /\ Bound(r, proc[p].pid, proc[p].gen) /\ Goto(p, "bind_publish")
           \/ ~MayBind(r, proc[p].pid, proc[p].gen) /\ End(p) /\ UNCHANGED claims
        /\ UNCHANGED <<job, snapshot, posts, faults, month>>

BindPublish(p) ==
    LET r == proc[p].r
    IN  /\ At(p, "bind_publish")
        /\ Published(r, proc[p].gen)
        /\ \/ /\ Coherent(r, proc[p].gen)
              /\ proc' = [proc EXCEPT ![p].pc = "resolve"]
              /\ lock' = Nobody /\ UNCHANGED running
           \/ ~Coherent(r, proc[p].gen) /\ End(p)
        /\ UNCHANGED <<job, posts, faults, ledgerVars>>

\* The provider's result, from submit() or recover(): COMPLETE, or OVERRUN when
\* it cost more than the job allowed, or an exception that changes nothing.
RunResolve(p) ==
    LET r == proc[p].r
    IN  /\ At(p, "resolve")
        /\ \/ /\ faults' = faults
              /\ \E a \in Amounts :
                    SetJob(r, [job[r] EXCEPT !.charged = a,
                                  !.status = IF a > Cost[r] THEN "OVERRUN" ELSE "COMPLETE"])
           \/ Fault /\ UNCHANGED job
        /\ End(p)
        /\ UNCHANGED <<snapshot, posts, ledgerVars>>

-----------------------------------------------------------------------------
(* reconcile() *)

\* The rows agree on a remote id (a mismatch is refused before anything is
\* written): ask the provider, or give up at once when the window the operator
\* gave is not fresh.
Reconcile(p, r) ==
    /\ Free(p)
    /\ job[r].pid # Unassigned
    /\ claims[r].state # "NONE"
    /\ claims[r].pid = job[r].pid
    /\ \E pc \in {"readback", "forget"} :
          proc' = [proc EXCEPT ![p] = [@ EXCEPT !.pc = pc, !.r = r, !.pid = job[r].pid]]
    /\ UNCHANGED <<job, snapshot, lock, running, posts, faults, ledgerVars>>

\* readback(): the provider's bill; not one complete billed event means UNKNOWN.
Readback(p) ==
    /\ At(p, "readback")
    /\ \/ \E a \in Amounts : proc' = [proc EXCEPT ![p] = [@ EXCEPT !.pc = "settle", !.bill = a]]
       \/ proc' = [proc EXCEPT ![p].pc = "forget"]
    /\ UNCHANGED <<job, snapshot, lock, running, posts, faults, ledgerVars>>

\* _unknown() reads the claim before it takes the lock.
UnknownRead(p) ==
    /\ At(p, "forget")
    /\ \/ claims[proc[p].r].actual = Null /\ Goto(p, "unknown")
       \/ claims[proc[p].r].actual # Null /\ End(p)
    /\ UNCHANGED <<job, snapshot, posts, faults, ledgerVars>>

UnknownMark(p) ==
    /\ At(p, "unknown")
    /\ Mark(p, proc[p].r, "unknown_job")
    /\ UNCHANGED <<job, posts, faults, ledgerVars>>

\* _set_billing_snapshot_generation() of the executor, first write of both
\* mark_unknown() and settle_verified_receipt().
PinJob(p) ==
    LET r == proc[p].r
    IN  /\ proc[p].pc \in {"unknown_job", "settle_job"}
        /\ SetJob(r, [job[r] EXCEPT !.gen = proc[p].gen])
        /\ Goto(p, IF At(p, "unknown_job") THEN "unknown_claim" ELSE "settle_claim")
        /\ UNCHANGED <<snapshot, posts, faults, ledgerVars>>

UnknownClaim(p) ==
    LET r == proc[p].r
    IN  /\ At(p, "unknown_claim")
        /\ \/ MayForget(r, proc[p].gen) /\ Forgotten(r, proc[p].gen) /\ Goto(p, "publish")
           \/ ~MayForget(r, proc[p].gen) /\ End(p) /\ UNCHANGED claims
        /\ UNCHANGED <<job, snapshot, posts, faults, month>>

SettleMark(p) ==
    /\ At(p, "settle")
    /\ Mark(p, proc[p].r, "settle_job")
    /\ UNCHANGED <<job, posts, faults, ledgerVars>>

SettleClaim(p) ==
    LET r == proc[p].r
        may == claims[r].pid = proc[p].pid /\ MaySettle(r, "FAL_READBACK_V2", proc[p].bill)
    IN  /\ At(p, "settle_claim")
        /\ \/ may /\ Settled(r, proc[p].bill, proc[p].gen) /\ Goto(p, "settle_pin")
           \/ ~may /\ End(p) /\ UNCHANGED claims
        /\ UNCHANGED <<job, snapshot, posts, faults, month>>

SettlePin(p) ==
    /\ At(p, "settle_pin")
    /\ Repinned(proc[p].r, proc[p].gen)
    /\ Goto(p, "publish")
    /\ UNCHANGED <<job, snapshot, posts, faults, month>>

-----------------------------------------------------------------------------

\* A process dies in the middle of a call.
Crash(p) ==
    /\ ~At(p, "idle")
    /\ Fault
    /\ End(p)
    /\ UNCHANGED <<job, snapshot, posts, ledgerVars>>

CallStep(p) ==
    \/ AdmitIntent(p) \/ AdmitPrepared(p) \/ AdmitReserve(p) \/ Publish(p)
    \/ RunInspect(p) \/ RunDirect(p) \/ RunSubmitting(p) \/ RunPost(p) \/ RunRecover(p)
    \/ BindMark(p) \/ BindJob(p) \/ BindClaim(p) \/ BindPublish(p) \/ RunResolve(p)
    \/ Readback(p) \/ UnknownRead(p) \/ UnknownMark(p) \/ PinJob(p) \/ UnknownClaim(p)
    \/ SettleMark(p) \/ SettleClaim(p) \/ SettlePin(p)

BillingNext ==
    \E p \in Procs :
       \/ \E r \in Requests :
             Admit(p, r) \/ Run(p, r) \/ Reconcile(p, r)
       \/ CallStep(p)
       \/ Crash(p)

BillingSpec == BillingInit /\ [][BillingNext]_vars

\* A live process keeps executing its call.
FairBillingSpec == BillingSpec /\ \A p \in Procs : WF_vars(CallStep(p))

-----------------------------------------------------------------------------
(* Properties *)

\* Whatever crashes, is lost or runs at the same time, the provider receives at
\* most one POST for a request: SUBMITTING is durable before the POST and no
\* call submits from it (Executor.run).
SubmittedOnce == \A r \in Requests : posts[r] <= 1

\* A request the provider received has a claim of exactly its cost and a job row
\* past PREPARED, and an actual is on record only for the remote id that both
\* rows carry (_verify_prepared_fal_admission, _settle_verified_receipt).
EveryPostIsFunded ==
    \A r \in Requests :
       /\ posts[r] > 0 =>
             /\ claims[r].state # "NONE" /\ claims[r].cap = Cost[r]
             /\ job[r].status \notin {"NONE", "INTENT", "PREPARED"}
       /\ claims[r].actual # Null =>
             /\ posts[r] > 0
             /\ claims[r].pid = job[r].pid /\ claims[r].pid # Unassigned

\* A snapshot that says CURRENT shows the claim as the ledger holds it, and both
\* rows are pinned to its generation and carry one remote id: a writer that died
\* between the two databases is never presented as coherent (_marker, _current).
CurrentIsCoherent ==
    snapshot.status = "CURRENT" =>
       LET r == snapshot.r
       IN  /\ claims[r] = snapshot.claim
           /\ claims[r].gen = snapshot.gen /\ job[r].gen = snapshot.gen
           /\ job[r].pid = claims[r].pid

\* Every call returns: a checkpoint waits for the coordinator lock while it
\* holds the lock of its request, and the holder never waits for a request.
CallsEnd == \A p \in Procs : ~At(p, "idle") ~> At(p, "idle")

===============================================================================
