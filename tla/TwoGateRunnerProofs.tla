------------------------- MODULE TwoGateRunnerProofs -------------------------
(***************************************************************************)
(* The two-gate runner, for any jobs, calls, successors and faults.        *)
(*                                                                         *)
(* Three things order what the calls do.  A job's row in the executor says *)
(* where the one task that may write it stands (JobInv).  runner.lock is   *)
(* held while verdicts are recorded (CallInv).  Rendering holds no lock:   *)
(* there the token orders the calls, and the fact that every new successor *)
(* is a leaf of the manifest tells old media from new ones (StageInv).     *)
(***************************************************************************)
EXTENDS TwoGateRunner, StandingBudgetProofs

\* The row was handed to a provider.
Sent == {"SUBMITTING", "SUBMITTED", "COMPLETE", "OVERRUN"}
Liable == {"UNKNOWN", "SETTLED"}

\* The calls that look at the fence, and whose token is current, live or not.
FencedPCs == {"queued", "sync"} \cup RunnerPCs \cup StagePCs
Holds(c) == token[Episode] = call[c].tok /\ call[c].pc \in FencedPCs

\* Tokens are fresh: the current one is the newest, and no two calls share one.
TokensFresh ==
    /\ token[Episode] \in {0, last[Episode]}
    /\ \A c \in Calls : /\ call[c].tok <= last[Episode]
                        /\ call[c].pc \in FencedPCs => call[c].tok # 0
    /\ \A c, d \in Calls : c # d /\ call[c].tok = call[d].tok => call[c].tok = 0

DepsPassed(r) == \A d \in Deps[r] : doc.qa[d] = "pass"

\* What the row of r says when a task of r is at p.
TaskFits(p, r) ==
    /\ p = "intent" => row[r].status = "INTENT"
    /\ p = "posting" => row[r].status = "SUBMITTING" /\ posts[r] = 0
    /\ p = "remote" => row[r].status = "SUBMITTING"
    /\ p \in {"bound", "answer"} => row[r].status = "SUBMITTED"
    /\ p = "complete" => row[r].status = "COMPLETE"
    /\ p \in {"qa"} \cup Verdicts => row[r].status = "COMPLETE" /\ claims[r].state \in Liable
    /\ p # "none" => DepsPassed(r)

\* One task of a job writes its row, and row, claim, posts and verdict agree.
JobInv(r) ==
    /\ \A c \in Calls : TaskFits(task[c][r], r)
    /\ \A c, d \in Calls : /\ task[c][r] = "intent" /\ task[d][r] = "intent" => c = d
                           /\ task[c][r] \in RunPCs /\ task[d][r] \in RunPCs => c = d
    /\ row[r].status \in Sent => claims[r].state # "NONE"
    /\ posts[r] > 0 => posts[r] = 1 /\ row[r].status \in Sent /\ DepsPassed(r)
    /\ doc.qa[r] # "none" => row[r].status = "COMPLETE" /\ claims[r].state \in Liable
    /\ doc.qa[r] = "pass" => row[r].qa = "pass"

\* A runner has the lock and judges only jobs without a verdict; a call that
\* waits for the lock has no tasks, and finds work if it is the owner; a
\* publisher has the lock behind its intent.
CallInv(c) ==
    /\ call[c].pc \in RunnerPCs =>
          /\ lock = c /\ doc.state = "RUNNING"
          /\ \A r \in Requests : task[c][r] # "none" => doc.qa[r] = "none"
    /\ call[c].pc = "record" =>
          /\ task[c][call[c].job] = "none" /\ doc.qa[call[c].job] = "none"
          /\ row[call[c].job].status = "COMPLETE" /\ row[call[c].job].qa = "pass"
          /\ claims[call[c].job].state \in Liable
    /\ call[c].pc = "queued" =>
          /\ \A r \in Requests : task[c][r] = "none"
          /\ Holds(c) => doc.state \in Open \cup {"MEDIA_PENDING"}
    /\ call[c].pc \in {"intent", "uploaded"} => lock = c /\ doc.state = "PUBLISH_INTENT"
    /\ call[c].pc = "intent" => upload.calls = 0

\* runner.json: media and gates exist only past production, a gate binds the
\* staged bytes, the intent to publish is behind both gates, and only a runner that
\* has all its jobs is rejected after it was published.
DocInv ==
    /\ doc.state = "NONE" => doc.jobs = {} /\ \A r \in Requests : doc.qa[r] = "none"
    /\ doc.state \in Open \cup {"NONE", "MEDIA_PENDING"} => doc.media = NoMedia /\ doc.gates = NoGates
    /\ \A s \in doc.jobs \ Started : Pred[s] \in doc.jobs
    /\ \A k \in Media : doc.gates[k].approved => doc.gates[k].seen = doc.media[k]
    /\ doc.state \in {"PUBLISH_INTENT", "PUBLISHED"} => \A k \in Media : doc.gates[k].approved
    /\ doc.state # "NONE" => Started \subseteq doc.jobs
    /\ upload.calls > 0 => \/ doc.state \in {"PUBLISH_INTENT", "PUBLISHED"}
                           \/ doc.state = "REJECTED" /\ doc.jobs = Requests

Heroes == {h \in Requests : Category[h] = "hero"}

\* The rendered files are made from the jobs J.
MadeFrom(J) == \A k \in Media : file[k].made = "rendered" => file[k].of = ActiveOf(J)

\* J has every hero, and is either what runner.json binds or lacks one of its images.
Tells(J) ==
    /\ J \subseteq doc.jobs /\ Heroes \subseteq J
    /\ J = doc.jobs \/ ~(ImagesOf(doc.jobs) \subseteq J)

\* A call that stages: the owner's manifest is the present one, there is one
\* renderer, and what the owner may deliver is made from the present jobs.
StageInv(c) ==
    /\ call[c].pc \in {"sync"} \cup StagePCs /\ Holds(c) /\ doc.state = "MEDIA_PENDING"
          => call[c].manifest = doc.jobs
    /\ call[c].pc \in {"thumbnail", "video"} =>
          /\ evidence = NoEvidence /\ file["thumbnail"].made # "absent"
          /\ Tells(call[c].manifest) /\ MadeFrom(call[c].manifest)
          /\ \A d \in Calls : call[d].pc \in {"thumbnail", "video"} => d = c
    /\ call[c].pc \in {"judge", "deliver"} =>
          /\ evidence # NoEvidence
          /\ Holds(c) /\ doc.state = "MEDIA_PENDING" => MadeFrom(doc.jobs)

\* The evidence is of one manifest, from which the files are made.
EvidenceInv ==
    evidence # NoEvidence =>
        \E J \in SUBSET Requests : evidence.manifest = ImagesOf(J) /\ Tells(J) /\ MadeFrom(J)

RunnerInv ==
    /\ RunnerTypeOK /\ TokensFresh
    /\ \A r \in Requests : JobInv(r)
    /\ \A c \in Calls : CallInv(c) /\ StageInv(c)
    /\ DocInv /\ EvidenceInv /\ GatesShowApprovedWork /\ PublishedAsApproved

-----------------------------------------------------------------------------
(* Lemmas about the operators *)

\* What a step may do to the claims: none disappears, a liability stays one.
ClaimsMove ==
    /\ claims' \in [Requests -> Claim]
    /\ \A q \in Requests : /\ claims[q].state # "NONE" => claims'[q].state # "NONE"
                           /\ claims[q].state \in Liable => claims'[q].state \in Liable

\* mark_unknown_if_reserved() of several claims.
LEMMA ForgetAllMoves ==
    ASSUME LedgerTypeOK, NEW R, ForgetAll(R)
    PROVE  ClaimsMove
<1> DEFINE f(q) == IF q \in R /\ MayForget(q, 0) THEN [claims[q] EXCEPT !.state = "UNKNOWN"] ELSE claims[q]
<1>1. \A q \in Requests : claims[q] \in Claim
  BY DEF LedgerTypeOK
<1>2. ASSUME NEW q \in Requests
      PROVE  /\ f(q) \in Claim
             /\ claims[q].state # "NONE" => f(q).state # "NONE"
             /\ claims[q].state \in Liable => f(q).state \in Liable
  BY <1>1 DEF Claim, Liable
<1>3. claims' = [q \in Requests |-> f(q)]
  BY Zenon DEF ForgetAll
<1> HIDE DEF f
<1> QED
  BY <1>2, <1>3 DEF ClaimsMove

\* Claims that do not change.
LEMMA ClaimsSame ==
    ASSUME LedgerTypeOK, claims' = claims
    PROVE  ClaimsMove
BY DEF LedgerTypeOK, ClaimsMove

\* A reservation (reserve).
LEMMA InsertedMoves ==
    ASSUME LedgerTypeOK, NEW r \in Requests, NEW m \in 0..month, Admits(r, Episode, m, Cost, "standard"),
           Inserted(r, Episode, m, Cost, "standard", "FAL_READBACK_V2", Unassigned, 0)
    PROVE  ClaimsMove
<1> DEFINE n == [state |-> "RESERVED", episode |-> Episode, month |-> m, cap |-> Cost,
                 kind |-> "standard", actual |-> Null, mode |-> "FAL_READBACK_V2",
                 pid |-> Unassigned, gen |-> 0]
<1>1. n \in Claim /\ n.state = "RESERVED"
  BY LedgerConstants, RunnerConstants DEF Claim, LedgerTypeOK, Kinds, Modes, Unassigned
<1>2. claims[r].state = "NONE"
  BY Zenon DEF Admits
<1>3. claims' = [claims EXCEPT ![r] = n]
  BY Zenon DEF Inserted
<1> HIDE DEF n
<1> QED
  BY <1>1, <1>2, <1>3 DEF ClaimsMove, LedgerTypeOK, Liable

\* A remote id is bound (bind_provider_request_id).
LEMMA BoundMoves ==
    ASSUME LedgerTypeOK, NEW r \in Requests, Bound(r, 1, 0)
    PROVE  ClaimsMove
<1> DEFINE n == [claims[r] EXCEPT !.pid = 1]
<1>1. claims[r] \in Claim
  BY DEF LedgerTypeOK
<1>2. n \in Claim /\ n.state = claims[r].state
  BY <1>1 DEF Claim
<1>3. claims' = claims \/ claims' = [claims EXCEPT ![r] = n]
  BY DEF Bound, Pinned
<1> HIDE DEF n
<1> QED
  BY <1>2, <1>3 DEF ClaimsMove, LedgerTypeOK

\* A claim becomes a liability of unknown size (mark_unknown).
LEMMA ForgottenMoves ==
    ASSUME LedgerTypeOK, NEW r \in Requests, Forgotten(r, 0)
    PROVE  ClaimsMove /\ claims'[r].state = "UNKNOWN"
<1> DEFINE n == [claims[r] EXCEPT !.state = "UNKNOWN"]
<1>1. claims[r] \in Claim
  BY DEF LedgerTypeOK
<1>2. n \in Claim /\ n.state = "UNKNOWN"
  BY <1>1 DEF Claim
<1>3. claims' = [claims EXCEPT ![r] = n]
  BY DEF Forgotten, Pinned
<1> HIDE DEF n
<1> QED
  BY <1>2, <1>3 DEF ClaimsMove, LedgerTypeOK, Liable

\* The reconciler settles a bill (_settle_verified_receipt).
LEMMA SettledMoves ==
    ASSUME LedgerTypeOK, NEW r \in Requests, Settled(r, Cost, 0)
    PROVE  ClaimsMove
<1> DEFINE n == [claims[r] EXCEPT !.state = "SETTLED", !.actual = Cost]
<1>1. claims[r] \in Claim
  BY DEF LedgerTypeOK
<1>2. n \in Claim /\ n.state = "SETTLED"
  BY <1>1, RunnerConstants DEF Claim
<1>3. claims' = claims \/ claims' = [claims EXCEPT ![r] = n]
  BY DEF Settled, Pinned
<1> HIDE DEF n
<1> QED
  BY <1>2, <1>3 DEF ClaimsMove, LedgerTypeOK, Liable

\* A call moves to p and keeps the rest.
LEMMA GotoFacts ==
    ASSUME call \in [Calls -> Invocation], NEW c \in Calls, NEW p \in CallPCs, Goto(c, p)
    PROVE  /\ call' \in [Calls -> Invocation]
           /\ call'[c].pc = p /\ call'[c].tok = call[c].tok
           /\ call'[c].manifest = call[c].manifest /\ call'[c].job = call[c].job
           /\ \A d \in Calls \ {c} : call'[d] = call[d]
BY DEF Goto, Invocation

\* A task moves to p.
LEMMA GotoTaskFacts ==
    ASSUME task \in [Calls -> [Requests -> TaskPCs]], NEW c \in Calls, NEW r \in Requests,
           NEW p \in TaskPCs, GotoTask(c, r, p)
    PROVE  /\ task' \in [Calls -> [Requests -> TaskPCs]]
           /\ task'[c][r] = p
           /\ \A d \in Calls, q \in Requests : d # c \/ q # r => task'[d][q] = task[d][q]
BY DEF GotoTask

\* The tasks of a call are cancelled.
LEMMA AbandonFacts ==
    ASSUME RunnerTypeOK, NEW c \in Calls, Abandon(c)
    PROVE  /\ ClaimsMove
           /\ task' \in [Calls -> [Requests -> TaskPCs]]
           /\ \A q \in Requests : task'[c][q] = "none"
           /\ \A d \in Calls \ {c} : task'[d] = task[d]
<1>1. ClaimsMove
  BY ForgetAllMoves DEF Abandon, RunnerTypeOK
<1>2. NoTasks \in [Requests -> TaskPCs] /\ \A q \in Requests : NoTasks[q] = "none"
  BY DEF NoTasks, TaskPCs
<1>3. task' = [task EXCEPT ![c] = NoTasks] /\ task \in [Calls -> [Requests -> TaskPCs]]
  BY DEF Abandon, RunnerTypeOK
<1> QED
  BY <1>1, <1>2, <1>3

\* Two calls do not both hold the current token.
LEMMA HoldsOnce ==
    ASSUME TokensFresh, NEW c \in Calls, NEW d \in Calls, Holds(c), Holds(d)
    PROVE  c = d
BY DEF TokensFresh, Holds

\* The fence, for a call that looks at it.
LEMMA OwnerHolds ==
    ASSUME NEW c \in Calls, Owns(c), call[c].pc \in FencedPCs
    PROVE  Holds(c)
BY DEF Owns, Holds

-----------------------------------------------------------------------------
(* What a step leaves alone *)

\* A job that no step writes: tasks may end, claims may move, verdicts may come.
LEMMA JobKeeps ==
    ASSUME NEW q \in Requests, JobInv(q), ClaimsMove,
           DepsPassed(q) => DepsPassed(q)', doc'.qa[q] = doc.qa[q],
           row'[q].status = row[q].status, row[q].qa = "pass" => row'[q].qa = "pass",
           posts'[q] = posts[q], \A d \in Calls : task'[d][q] \in {task[d][q], "none"}
    PROVE  JobInv(q)'
<1>1. \A d \in Calls : TaskFits(task[d][q], q)'
  <2> SUFFICES ASSUME NEW d \in Calls PROVE TaskFits(task[d][q], q)'
    OBVIOUS
  <2>1. TaskFits(task[d][q], q) /\ task'[d][q] \in {task[d][q], "none"}
    BY DEF JobInv
  <2> QED
    BY <2>1 DEF TaskFits, ClaimsMove, Verdicts
<1>2. \A c, d \in Calls : /\ task'[c][q] = "intent" /\ task'[d][q] = "intent" => c = d
                          /\ task'[c][q] \in RunPCs /\ task'[d][q] \in RunPCs => c = d
  BY DEF JobInv, RunPCs
<1> QED
  BY <1>1, <1>2 DEF JobInv, ClaimsMove, Sent, Liable

\* A task of r moves to p without a write to the row.
LEMMA JobTaskMoves ==
    ASSUME NEW c \in Calls, NEW r \in Requests, NEW p \in TaskPCs,
           \A q \in Requests : JobInv(q), task \in [Calls -> [Requests -> TaskPCs]],
           ClaimsMove, UNCHANGED <<doc, row, posts>>, GotoTask(c, r, p),
           TaskFits(p, r)', p # "intent",
           p \in RunPCs => \/ task[c][r] \in RunPCs
                           \/ \A d \in Calls : task[d][r] \notin RunPCs
    PROVE  \A q \in Requests : JobInv(q)'
<1>1. /\ task'[c][r] = p
      /\ \A d \in Calls, q \in Requests : d # c \/ q # r => task'[d][q] = task[d][q]
  BY GotoTaskFacts
<1>2. ASSUME NEW q \in Requests, q # r PROVE JobInv(q)'
  BY <1>1, <1>2, JobKeeps DEF DepsPassed
<1>3. JobInv(r)'
  <2>1. \A d \in Calls : TaskFits(task[d][r], r)'
    <3> SUFFICES ASSUME NEW d \in Calls, d # c PROVE TaskFits(task[d][r], r)'
      BY <1>1
    <3>1. TaskFits(task[d][r], r) /\ task'[d][r] = task[d][r]
      BY <1>1 DEF JobInv
    <3> QED
      BY <3>1 DEF TaskFits, ClaimsMove, Verdicts, DepsPassed
  <2>2. \A d, e \in Calls : /\ task'[d][r] = "intent" /\ task'[e][r] = "intent" => d = e
                            /\ task'[d][r] \in RunPCs /\ task'[e][r] \in RunPCs => d = e
    BY <1>1 DEF JobInv
  <2> QED
    BY <2>1, <2>2 DEF JobInv, ClaimsMove, Sent, Liable, DepsPassed
<1> QED
  BY <1>2, <1>3

\* A task of r moves to p and writes the row.
LEMMA JobRowMoves ==
    ASSUME NEW c \in Calls, NEW r \in Requests, NEW p \in TaskPCs, NEW s,
           \A q \in Requests : JobInv(q), task \in [Calls -> [Requests -> TaskPCs]],
           row \in [Requests -> JobRow], row' \in [Requests -> JobRow],
           ClaimsMove, UNCHANGED <<doc, posts>>, GotoTask(c, r, p),
           \A q \in Requests \ {r} : row'[q] = row[q],
           row'[r].status = s, row'[r].qa = row[r].qa, row[r].status # "COMPLETE",
           s \in Sent => claims[r].state # "NONE",
           row[r].status \in Sent => s \in Sent,
           TaskFits(p, r)',
           \A d \in Calls \ {c} : task[d][r] \notin RunPCs,
           \A d \in Calls \ {c} : task[d][r] # "intent"
    PROVE  \A q \in Requests : JobInv(q)'
<1>1. /\ task'[c][r] = p
      /\ \A d \in Calls, q \in Requests : d # c \/ q # r => task'[d][q] = task[d][q]
  BY GotoTaskFacts
<1>2. ASSUME NEW q \in Requests, q # r PROVE JobInv(q)'
  BY <1>1, <1>2, JobKeeps DEF DepsPassed
<1>3. JobInv(r)'
  <2>1. \A d \in Calls : TaskFits(task[d][r], r)'
    <3> SUFFICES ASSUME NEW d \in Calls, d # c PROVE TaskFits(task[d][r], r)'
      BY <1>1
    <3>1. TaskFits(task[d][r], r) /\ task'[d][r] = task[d][r]
      BY <1>1 DEF JobInv
    <3> QED
      BY <3>1 DEF TaskFits, RunPCs, Verdicts, DepsPassed
  <2>2. \A d, e \in Calls : /\ task'[d][r] = "intent" /\ task'[e][r] = "intent" => d = e
                            /\ task'[d][r] \in RunPCs /\ task'[e][r] \in RunPCs => d = e
    BY <1>1 DEF JobInv
  <2>3. claims[r].state # "NONE" => claims'[r].state # "NONE"
    BY DEF ClaimsMove
  <2>4. doc'.qa[r] = "none"
    BY DEF JobInv
  <2> QED
    BY <2>1, <2>2, <2>3, <2>4 DEF JobInv, DepsPassed
<1> QED
  BY <1>2, <1>3

\* A call that does not move, in a step that leaves runner.json alone.
LEMMA CallStays ==
    ASSUME NEW d \in Calls, CallInv(d), call \in [Calls -> Invocation], call'[d] = call[d], doc' = doc,
           lock' = lock \/ lock # d,
           token'[Episode] = token[Episode] \/ token'[Episode] # call[d].tok,
           call[d].pc = "intent" => upload' = upload,
           \A r \in Requests : task'[d][r] \in {task[d][r], "none"} \/ task[d][r] # "none",
           \A r \in Requests : /\ row[r].status = "COMPLETE" => row'[r].status = "COMPLETE"
                               /\ row[r].qa = "pass" => row'[r].qa = "pass",
           ClaimsMove
    PROVE  CallInv(d)'
<1>1. call[d].job \in Requests
  BY DEF Invocation
<1>2. call[d].pc = "queued" /\ Holds(d)' => Holds(d)
  BY DEF Holds
<1> QED
  BY <1>1, <1>2 DEF CallInv, ClaimsMove, RunnerPCs

\* The same for what it stages, when neither the files nor the evidence change.
LEMMA StageStays ==
    ASSUME NEW d \in Calls, StageInv(d), call'[d] = call[d], doc' = doc,
           token'[Episode] = token[Episode] \/ token'[Episode] # call[d].tok,
           UNCHANGED <<file, evidence>>,
           \A e \in Calls : call'[e].pc \in {"thumbnail", "video"} => call[e].pc \in {"thumbnail", "video"}
    PROVE  StageInv(d)'
<1>1. Holds(d)' => Holds(d)
  BY DEF Holds
<1>2. \A J : MadeFrom(J) => MadeFrom(J)'
  BY DEF MadeFrom
<1>3. \A J : Tells(J) => Tells(J)'
  BY DEF Tells
<1> QED
  BY <1>1, <1>2, <1>3 DEF StageInv, StagePCs

\* Steps that leave runner.json, the media and the upload alone, and in which
\* one call moves at most.
LEMMA CallSteps ==
    ASSUME RunnerInv, RunnerTypeOK', NEW c \in Calls,
           UNCHANGED <<doc, file, evidence, upload, last>>,
           token'[Episode] \in {token[Episode], 0},
           call'[c].tok = call[c].tok, call'[c].pc \in FencedPCs => call[c].pc \in FencedPCs,
           call'[c].pc \in {"thumbnail", "video"} => call[c].pc \in {"thumbnail", "video"},
           \A d \in Calls \ {c} : call'[d] = call[d],
           lock' = lock \/ lock \in {c, Nobody},
           \A d \in Calls \ {c}, r \in Requests :
               task'[d][r] \in {task[d][r], "none"} \/ task[d][r] # "none",
           \A r \in Requests : /\ row[r].status = "COMPLETE" => row'[r].status = "COMPLETE"
                               /\ row[r].qa = "pass" => row'[r].qa = "pass",
           ClaimsMove, \A r \in Requests : JobInv(r)',
           CallInv(c)', StageInv(c)'
    PROVE  RunnerInv'
<1>0. /\ call \in [Calls -> Invocation] /\ call' \in [Calls -> Invocation]
      /\ last[Episode] \in Nat /\ \A d \in Calls : call[d].tok \in Nat
  BY RunnerConstants DEF RunnerInv, RunnerTypeOK, Lease!FencedTypeOK, Invocation
<1>1. TokensFresh'
  BY <1>0 DEF RunnerInv, TokensFresh
<1>2. ASSUME NEW d \in Calls, d # c PROVE CallInv(d)' /\ StageInv(d)'
  <2>1. lock' = lock \/ lock # d
    BY <1>2, RunnerConstants
  <2>2. \/ token'[Episode] = token[Episode] \/ token'[Episode] # call[d].tok
        \/ call[d].pc \notin FencedPCs
    BY <1>0 DEF RunnerInv, TokensFresh
  <2>3. CASE token'[Episode] = token[Episode] \/ token'[Episode] # call[d].tok
    <3>1. CallInv(d)'
      BY <1>0, <1>2, <2>1, <2>3, CallStays DEF RunnerInv
    <3>2. StageInv(d)'
      BY <1>0, <1>2, <2>3, StageStays DEF RunnerInv
    <3> QED
      BY <3>1, <3>2
  <2>4. CASE call[d].pc \notin FencedPCs
    BY <1>2, <2>1, <2>4 DEF RunnerInv, CallInv, StageInv, FencedPCs, RunnerPCs, StagePCs
  <2> QED
    BY <2>2, <2>3, <2>4
<1>3. DocInv' /\ GatesShowApprovedWork' /\ PublishedAsApproved'
  BY DEF RunnerInv, DocInv, GatesShowApprovedWork, PublishedAsApproved, Active
<1>4. EvidenceInv'
  BY DEF RunnerInv, EvidenceInv, Tells, MadeFrom
<1> QED
  BY <1>1, <1>2, <1>3, <1>4 DEF RunnerInv

\* A call at its end has nothing to keep.
LEMMA EndedKeeps ==
    ASSUME NEW c \in Calls, call'[c].pc \in {"idle", "ending"}
    PROVE  CallInv(c)' /\ StageInv(c)'
BY DEF CallInv, StageInv, RunnerPCs, StagePCs

-----------------------------------------------------------------------------
(* The tasks *)

\* A task step: the task of a job moves, with its row, its claim and its posts.
LEMMA TaskSteps ==
    ASSUME RunnerInv, NEW c \in Calls, NEW r \in Requests, NEW p \in TaskPCs, GotoTask(c, r, p),
           task[c][r] # "none",
           UNCHANGED <<doc, month, leaseVars, lock, call, delivery, spoiled, upload>>,
           row' \in [Requests -> JobRow], posts' \in [Requests -> Nat], faults' \in 0..MaxFaults,
           \A q \in Requests : /\ row[q].status = "COMPLETE" => row'[q].status = "COMPLETE"
                               /\ row[q].qa = "pass" => row'[q].qa = "pass",
           ClaimsMove, \A q \in Requests : JobInv(q)'
    PROVE  RunnerInv'
<1>0. RunnerTypeOK
  BY DEF RunnerInv
<1>1. /\ task' \in [Calls -> [Requests -> TaskPCs]]
      /\ \A d \in Calls, q \in Requests : d # c \/ q # r => task'[d][q] = task[d][q]
  BY <1>0, GotoTaskFacts DEF RunnerTypeOK
<1>2. RunnerTypeOK'
  BY <1>0, <1>1 DEF RunnerTypeOK, LedgerTypeOK, Lease!FencedTypeOK, leaseVars, delivery, ClaimsMove
<1>3. \A d \in Calls, q \in Requests : task'[d][q] \in {task[d][q], "none"} \/ task[d][q] # "none"
  BY <1>1
<1>4. CallInv(c)'
  BY <1>0, <1>3, CallStays DEF RunnerInv, RunnerTypeOK, leaseVars
<1>5. StageInv(c)'
  BY StageStays DEF RunnerInv, leaseVars, delivery
<1> QED
  BY <1>2, <1>3, <1>4, <1>5, CallSteps DEF leaseVars, delivery

\* What a task step starts from.
LEMMA TaskFacts ==
    ASSUME RunnerInv, NEW c \in Calls, NEW r \in Requests
    PROVE  /\ RunnerTypeOK /\ LedgerTypeOK /\ \A q \in Requests : JobInv(q)
           /\ task \in [Calls -> [Requests -> TaskPCs]] /\ TaskFits(task[c][r], r)
           /\ row \in [Requests -> JobRow] /\ row[r] \in JobRow
           /\ posts \in [Requests -> Nat] /\ faults \in 0..MaxFaults
           /\ Fault => faults' \in 0..MaxFaults
           /\ claims[r] \in Claim
BY RunnerConstants DEF RunnerInv, RunnerTypeOK, LedgerTypeOK, JobInv, Fault

\* A task moves to p without a write to its row.
LEMMA TaskGoes ==
    ASSUME RunnerInv, NEW c \in Calls, NEW r \in Requests, NEW p \in TaskPCs, GotoTask(c, r, p),
           task[c][r] # "none",
           UNCHANGED <<doc, row, month, leaseVars, lock, call, delivery, spoiled, posts, upload>>,
           faults' \in 0..MaxFaults, ClaimsMove, p # "intent",
           p \in RunPCs => \/ task[c][r] \in RunPCs
                           \/ \A d \in Calls : task[d][r] \notin RunPCs,
           TaskFits(p, r)'
    PROVE  RunnerInv'
<1>1. \A q \in Requests : JobInv(q)'
  BY TaskFacts, JobTaskMoves
<1> QED
  BY <1>1, TaskFacts, TaskSteps

\* A task moves where nothing is claimed of its row.
LEMMA TaskFree ==
    ASSUME RunnerInv, NEW c \in Calls, NEW r \in Requests,
           NEW p \in {"slot", "run", "failed", "none"}, GotoTask(c, r, p), task[c][r] # "none",
           UNCHANGED <<doc, row, month, leaseVars, lock, call, delivery, spoiled, posts, upload>>,
           faults' \in 0..MaxFaults, ClaimsMove
    PROVE  RunnerInv'
<1>1. p \in TaskPCs /\ p \notin RunPCs /\ p # "intent"
  BY DEF TaskPCs, AwaitPCs, DonePCs, RunPCs
<1>2. TaskFits(p, r)'
  BY TaskFacts DEF TaskFits, Verdicts, DepsPassed
<1> QED
  BY <1>1, <1>2, TaskGoes

\* An exception inside the try block of complete_one().
LEMMA TaskFails ==
    ASSUME RunnerInv, NEW c \in Calls, NEW r \in Requests, Fails(c, r), task[c][r] # "none",
           UNCHANGED <<doc, row, month, leaseVars, lock, call, delivery, spoiled, posts, upload>>,
           faults' \in 0..MaxFaults
    PROVE  RunnerInv'
<1>1. ClaimsMove /\ GotoTask(c, r, "failed")
  BY TaskFacts, ForgetAllMoves DEF Fails
<1> QED
  BY <1>1, TaskFree

\* A task moves to p and writes the status s of its row.
LEMMA TaskWrites ==
    ASSUME RunnerInv, NEW c \in Calls, NEW r \in Requests, NEW p \in TaskPCs, GotoTask(c, r, p),
           NEW s \in {"INTENT", "PREPARED", "SUBMITTING", "SUBMITTED", "COMPLETE", "OVERRUN"},
           NEW b \in BOOLEAN,
           row' = [row EXCEPT ![r] = [status |-> s, pid |-> b, qa |-> row[r].qa]],
           task[c][r] # "none", row[r].status # "COMPLETE",
           UNCHANGED <<doc, month, leaseVars, lock, call, delivery, spoiled, posts, upload>>,
           faults' \in 0..MaxFaults, ClaimsMove,
           s \in Sent => claims[r].state # "NONE", row[r].status \in Sent => s \in Sent,
           TaskFits(p, r)',
           \A d \in Calls \ {c} : task[d][r] \notin RunPCs /\ task[d][r] # "intent"
    PROVE  RunnerInv'
<1>1. /\ row' \in [Requests -> JobRow] /\ \A q \in Requests \ {r} : row'[q] = row[q]
      /\ row'[r].status = s /\ row'[r].qa = row[r].qa
  BY TaskFacts DEF JobRow
<1>2. \A q \in Requests : JobInv(q)'
  BY <1>1, TaskFacts, JobRowMoves
<1>3. \A q \in Requests : /\ row[q].status = "COMPLETE" => row'[q].status = "COMPLETE"
                          /\ row[q].qa = "pass" => row'[q].qa = "pass"
  BY <1>1
<1> QED
  BY <1>1, <1>2, <1>3, TaskFacts, TaskSteps

\* Writing one field of a row, as a whole row.
LEMMA RowWrite ==
    ASSUME row \in [Requests -> JobRow], NEW r \in Requests, NEW s, NEW b
    PROVE  /\ [row EXCEPT ![r].status = s]
                 = [row EXCEPT ![r] = [status |-> s, pid |-> row[r].pid, qa |-> row[r].qa]]
           /\ [row EXCEPT ![r].status = s, ![r].pid = b]
                 = [row EXCEPT ![r] = [status |-> s, pid |-> b, qa |-> row[r].qa]]
           /\ row[r].pid \in BOOLEAN
<1>1. row[r] \in JobRow /\ row[r].pid \in BOOLEAN
  BY DEF JobRow
<1>2. [row[r] EXCEPT !.status = s] = [status |-> s, pid |-> row[r].pid, qa |-> row[r].qa]
  BY <1>1 DEF JobRow
<1> DEFINE one == [row EXCEPT ![r].status = s]
           new == [status |-> s, pid |-> row[r].pid, qa |-> row[r].qa]
<1>3. one = [row EXCEPT ![r] = new]
  BY <1>1, <1>2, Zenon
<1>4. [one EXCEPT ![r].pid = b] = [row EXCEPT ![r] = [status |-> s, pid |-> b, qa |-> row[r].qa]]
  <2>1. [new EXCEPT !.pid = b] = [status |-> s, pid |-> b, qa |-> row[r].qa]
    OBVIOUS
  <2> HIDE DEF new
  <2> QED
    BY <1>3, <2>1
<1> QED
  BY <1>1, <1>3, <1>4

\* A task looks at its row.
LEMMA TaskBeginsKeeps ==
    ASSUME RunnerInv, NEW c \in Calls, NEW r \in Requests, TaskBegins(c, r)
    PROVE  RunnerInv'
<1>0. /\ task[c][r] = "begin" /\ faults' \in 0..MaxFaults
      /\ UNCHANGED <<doc, month, leaseVars, lock, call, delivery, spoiled, posts, upload>>
  BY TaskFacts DEF TaskBegins, outside
<1>1. CASE /\ row[r] = NoRow /\ row' = [row EXCEPT ![r].status = "INTENT"]
           /\ GotoTask(c, r, "intent") /\ UNCHANGED claims
  <2>1. row[r].status = "NONE"
    BY <1>1 DEF NoRow
  <2>2. ClaimsMove
    BY <1>1, TaskFacts, ClaimsSame
  <2>3. row' = [row EXCEPT ![r] = [status |-> "INTENT", pid |-> row[r].pid, qa |-> row[r].qa]]
        /\ row[r].pid \in BOOLEAN
    BY <1>1, TaskFacts, RowWrite
  <2>4. TaskFits("intent", r)'
    BY <1>0, <2>3, TaskFacts DEF TaskFits, DepsPassed, Verdicts, JobRow
  <2>5. \A d \in Calls : task[d][r] \notin RunPCs /\ task[d][r] # "intent"
    BY <2>1, TaskFacts DEF JobInv, TaskFits, RunPCs
  <2> QED
    BY <1>0, <1>1, <2>1, <2>2, <2>3, <2>4, <2>5, TaskWrites DEF Sent, TaskPCs, SyncPCs
<1>2. CASE GotoTask(c, r, "slot") /\ UNCHANGED <<row, claims>>
  BY <1>0, <1>2, TaskFacts, ClaimsSame, TaskFree
<1>3. CASE GotoTask(c, r, "slot") /\ UNCHANGED row /\ Bound(r, 1, 0)
  BY <1>0, <1>3, TaskFacts, BoundMoves, TaskFree
<1>4. CASE Fails(c, r) /\ UNCHANGED row
  BY <1>0, <1>4, TaskFails
<1> QED
  BY <1>1, <1>2, <1>3, <1>4, Zenon DEF TaskBegins

\* The intent becomes a prepared row.
LEMMA TaskPreparesKeeps ==
    ASSUME RunnerInv, NEW c \in Calls, NEW r \in Requests, TaskPrepares(c, r)
    PROVE  RunnerInv'
<1>0. /\ task[c][r] = "intent" /\ faults' \in 0..MaxFaults /\ GotoTask(c, r, "prepared")
      /\ row' = [row EXCEPT ![r].status = "PREPARED"] /\ claims' = claims
      /\ UNCHANGED <<doc, month, leaseVars, lock, call, delivery, spoiled, posts, upload>>
  BY TaskFacts DEF TaskPrepares, outside, ledgerVars
<1>1. row[r].status = "INTENT"
  BY <1>0, TaskFacts DEF TaskFits
<1>2. ClaimsMove
  BY <1>0, TaskFacts, ClaimsSame
<1>3. row' = [row EXCEPT ![r] = [status |-> "PREPARED", pid |-> row[r].pid, qa |-> row[r].qa]]
      /\ row[r].pid \in BOOLEAN
  BY <1>0, TaskFacts, RowWrite
<1>4. TaskFits("prepared", r)'
  BY <1>0, TaskFacts DEF TaskFits, DepsPassed, Verdicts
<1>5. \A d \in Calls \ {c} : task[d][r] \notin RunPCs /\ task[d][r] # "intent"
  <2> SUFFICES ASSUME NEW d \in Calls \ {c} PROVE task[d][r] \notin RunPCs /\ task[d][r] # "intent"
    OBVIOUS
  <2>1. TaskFits(task[d][r], r)
    BY TaskFacts
  <2>2. task[d][r] # "intent"
    BY <1>0, TaskFacts DEF JobInv
  <2> QED
    BY <1>1, <2>1, <2>2 DEF TaskFits, RunPCs
<1> QED
  BY <1>0, <1>1, <1>2, <1>3, <1>4, <1>5, TaskWrites DEF Sent, TaskPCs, SyncPCs

\* The reservation.
LEMMA TaskReservesKeeps ==
    ASSUME RunnerInv, NEW c \in Calls, NEW r \in Requests, TaskReserves(c, r)
    PROVE  RunnerInv'
<1>0. /\ task[c][r] = "prepared"
      /\ UNCHANGED <<doc, row, month, leaseVars, lock, call, delivery, spoiled, posts, upload>>
  BY DEF TaskReserves
<1>1. ASSUME NEW m \in 0..month, Admits(r, Episode, m, Cost, "standard"), GotoTask(c, r, "slot"), UNCHANGED faults,
             Inserted(r, Episode, m, Cost, "standard", "FAL_READBACK_V2", Unassigned, 0)
      PROVE  RunnerInv'
  BY <1>0, <1>1, TaskFacts, InsertedMoves, TaskFree
<1>2. CASE Fails(c, r) /\ UNCHANGED faults
  BY <1>0, <1>2, TaskFacts, TaskFails
<1>3. CASE Fails(c, r) /\ Fault
  BY <1>0, <1>3, TaskFacts, TaskFails
<1> QED
  BY <1>1, <1>2, <1>3, Zenon DEF TaskReserves

\* The provider slot.
LEMMA TaskSlotsKeeps ==
    ASSUME RunnerInv, NEW c \in Calls, NEW r \in Requests, TaskSlots(c, r)
    PROVE  RunnerInv'
<1>0. /\ task[c][r] = "slot" /\ faults' \in 0..MaxFaults
      /\ UNCHANGED <<doc, row, month, leaseVars, lock, call, delivery, spoiled, posts, upload>>
      /\ (GotoTask(c, r, "run") /\ UNCHANGED claims) \/ Fails(c, r)
  BY TaskFacts DEF TaskSlots, outside
<1>1. CASE GotoTask(c, r, "run") /\ UNCHANGED claims
  BY <1>0, <1>1, TaskFacts, ClaimsSame, TaskFree
<1> QED
  BY <1>0, <1>1, TaskFails

\* Executor.run() under the lock of the request.
LEMMA TaskRunsKeeps ==
    ASSUME RunnerInv, NEW c \in Calls, NEW r \in Requests, TaskRuns(c, r)
    PROVE  RunnerInv'
<1>0. /\ task[c][r] = "run" /\ faults' \in 0..MaxFaults /\ \A d \in Calls : task[d][r] \notin RunPCs
      /\ UNCHANGED <<doc, month, leaseVars, lock, call, delivery, spoiled, posts, upload>>
      /\ DepsPassed(r) /\ DepsPassed(r)'
  BY TaskFacts DEF TaskRuns, outside, TaskFits, DepsPassed
<1>1. CASE row[r].status = "COMPLETE" /\ GotoTask(c, r, "complete") /\ UNCHANGED <<row, claims>>
  <2>1. TaskFits("complete", r)' /\ "complete" \in TaskPCs \ RunPCs
    BY <1>0, <1>1 DEF TaskFits, Verdicts, TaskPCs, SyncPCs, RunPCs
  <2> QED
    BY <1>0, <1>1, <2>1, TaskFacts, ClaimsSame, TaskGoes
<1>2. CASE /\ Submittable(r) /\ row' = [row EXCEPT ![r].status = "SUBMITTING"]
           /\ GotoTask(c, r, "posting") /\ UNCHANGED claims
  <2>1. row[r].status = "PREPARED" /\ claims[r].state = "RESERVED"
    BY <1>2 DEF Submittable
  <2>2. row' = [row EXCEPT ![r] = [status |-> "SUBMITTING", pid |-> row[r].pid, qa |-> row[r].qa]]
        /\ row[r].pid \in BOOLEAN
    BY <1>2, TaskFacts, RowWrite
  <2>3. row'[r].status = "SUBMITTING"
    BY <2>2, TaskFacts DEF JobRow
  <2>4. posts'[r] = 0
    BY <1>0, <2>1, TaskFacts DEF JobInv, Sent
  <2>5. TaskFits("posting", r)'
    BY <1>0, <2>3, <2>4 DEF TaskFits, Verdicts
  <2>6. \A d \in Calls : task[d][r] # "intent"
    BY <2>1, TaskFacts DEF JobInv, TaskFits
  <2> QED
    BY <1>0, <1>2, <2>1, <2>2, <2>5, <2>6, TaskFacts, ClaimsSame, TaskWrites DEF Sent, TaskPCs, SyncPCs
<1>3. CASE row[r].status = "SUBMITTED" /\ GotoTask(c, r, "answer") /\ UNCHANGED <<row, claims>>
  <2>1. TaskFits("answer", r)' /\ "answer" \in TaskPCs
    BY <1>0, <1>3 DEF TaskFits, Verdicts, TaskPCs, AwaitPCs
  <2> QED
    BY <1>0, <1>3, <2>1, TaskFacts, ClaimsSame, TaskGoes
<1>4. CASE Fails(c, r) /\ UNCHANGED row
  BY <1>0, <1>4, TaskFails
<1> QED
  BY <1>1, <1>2, <1>3, <1>4, Zenon DEF TaskRuns

\* Only one task of a job is inside executor.run().
LEMMA RunsAlone ==
    ASSUME RunnerInv, NEW c \in Calls, NEW r \in Requests, task[c][r] \in RunPCs
    PROVE  /\ \A d \in Calls \ {c} : task[d][r] \notin RunPCs /\ task[d][r] # "intent"
           /\ claims[r].state # "NONE"
<1>1. \A d \in Calls \ {c} : task[d][r] \notin RunPCs
  BY TaskFacts DEF JobInv
<1>2. row[r].status \in Sent /\ row[r].status # "INTENT"
  BY TaskFacts DEF TaskFits, RunPCs, Sent
<1>3. \A d \in Calls \ {c} : task[d][r] # "intent"
  BY <1>2, TaskFacts DEF JobInv, TaskFits
<1> QED
  BY <1>1, <1>2, <1>3, TaskFacts DEF JobInv

\* The POST.
LEMMA TaskPostsKeeps ==
    ASSUME RunnerInv, NEW c \in Calls, NEW r \in Requests, TaskPosts(c, r)
    PROVE  RunnerInv'
<1>0. /\ task[c][r] = "posting" /\ faults' \in 0..MaxFaults
      /\ UNCHANGED <<doc, row, month, leaseVars, lock, call, delivery, spoiled, upload>>
      /\ row[r].status = "SUBMITTING" /\ posts[r] = 0 /\ DepsPassed(r) /\ DepsPassed(r)'
  BY TaskFacts DEF TaskPosts, TaskFits, DepsPassed
<1>1. CASE Fails(c, r) /\ UNCHANGED posts
  BY <1>0, <1>1, TaskFails
<1>2. CASE GotoTask(c, r, "remote") /\ UNCHANGED claims /\ posts' = [posts EXCEPT ![r] = @ + 1]
  <2>1. /\ posts' \in [Requests -> Nat] /\ posts'[r] = 1
        /\ \A q \in Requests \ {r} : posts'[q] = posts[q]
    BY <1>0, <1>2, TaskFacts
  <2>2. ClaimsMove
    BY <1>2, TaskFacts, ClaimsSame
  <2>3. /\ "remote" \in TaskPCs /\ task'[c][r] = "remote"
        /\ \A d \in Calls, q \in Requests : d # c \/ q # r => task'[d][q] = task[d][q]
    BY <1>2, TaskFacts, GotoTaskFacts DEF TaskPCs, AwaitPCs
  <2>4. ASSUME NEW q \in Requests, q # r PROVE JobInv(q)'
    BY <1>0, <2>1, <2>2, <2>3, <2>4, TaskFacts, JobKeeps DEF DepsPassed
  <2>5. \A d \in Calls \ {c} : task[d][r] \notin RunPCs /\ task[d][r] # "intent"
    BY <1>0, RunsAlone DEF RunPCs
  <2>6. JobInv(r)'
    <3>1. \A d \in Calls : TaskFits(task[d][r], r)'
      <4>1. TaskFits(task[c][r], r)'
        BY <1>0, <2>3 DEF TaskFits, Verdicts
      <4>2. ASSUME NEW d \in Calls, d # c PROVE TaskFits(task[d][r], r)'
        <5>1. TaskFits(task[d][r], r) /\ task'[d][r] = task[d][r] /\ task[d][r] # "posting"
          BY <2>3, <2>5, <4>2, TaskFacts DEF RunPCs
        <5> QED
          BY <1>0, <1>2, <5>1 DEF TaskFits, Verdicts, DepsPassed
      <4> QED
        BY <4>1, <4>2
    <3>2. \A d, e \in Calls : /\ task'[d][r] = "intent" /\ task'[e][r] = "intent" => d = e
                              /\ task'[d][r] \in RunPCs /\ task'[e][r] \in RunPCs => d = e
      BY <2>3, <2>5
    <3>3. JobInv(r)
      BY TaskFacts
    <3> QED
      BY <1>0, <1>2, <2>1, <3>1, <3>2, <3>3 DEF JobInv, Sent
  <2>7. \A q \in Requests : JobInv(q)'
    BY <2>4, <2>6
  <2> QED
    BY <1>0, <1>2, <2>1, <2>2, <2>3, <2>7, TaskFacts, TaskSteps
<1> QED
  BY <1>1, <1>2, Zenon DEF TaskPosts

\* The remote id reaches the row.
LEMMA TaskCheckpointsKeeps ==
    ASSUME RunnerInv, NEW c \in Calls, NEW r \in Requests, TaskCheckpoints(c, r)
    PROVE  RunnerInv'
<1>0. /\ task[c][r] = "remote" /\ faults' \in 0..MaxFaults /\ GotoTask(c, r, "bound")
      /\ row' = [row EXCEPT ![r].status = "SUBMITTED", ![r].pid = TRUE] /\ claims' = claims
      /\ UNCHANGED <<doc, month, leaseVars, lock, call, delivery, spoiled, posts, upload>>
      /\ row[r].status = "SUBMITTING" /\ DepsPassed(r)'
  BY TaskFacts DEF TaskCheckpoints, outside, ledgerVars, TaskFits, DepsPassed
<1>1. row' = [row EXCEPT ![r] = [status |-> "SUBMITTED", pid |-> TRUE, qa |-> row[r].qa]]
  BY <1>0, TaskFacts, RowWrite
<1>2. row'[r].status = "SUBMITTED"
  BY <1>1, TaskFacts DEF JobRow
<1>3. TaskFits("bound", r)' /\ "bound" \in TaskPCs
  BY <1>0, <1>2 DEF TaskFits, Verdicts, TaskPCs, SyncPCs
<1>4. /\ \A d \in Calls \ {c} : task[d][r] \notin RunPCs /\ task[d][r] # "intent"
      /\ claims[r].state # "NONE"
  BY <1>0, RunsAlone DEF RunPCs
<1> QED
  BY <1>0, <1>1, <1>3, <1>4, TaskFacts, ClaimsSame, TaskWrites DEF Sent

\* ... and the claim.
LEMMA TaskBindsKeeps ==
    ASSUME RunnerInv, NEW c \in Calls, NEW r \in Requests, TaskBinds(c, r)
    PROVE  RunnerInv'
<1>0. /\ task[c][r] = "bound" /\ faults' \in 0..MaxFaults
      /\ UNCHANGED <<doc, row, month, leaseVars, lock, call, delivery, spoiled, posts, upload>>
      /\ row[r].status = "SUBMITTED" /\ DepsPassed(r)'
      /\ (Bound(r, 1, 0) /\ GotoTask(c, r, "answer")) \/ Fails(c, r)
  BY TaskFacts DEF TaskBinds, outside, TaskFits, DepsPassed
<1>1. CASE Bound(r, 1, 0) /\ GotoTask(c, r, "answer")
  <2>1. TaskFits("answer", r)' /\ "answer" \in TaskPCs /\ "bound" \in RunPCs
    BY <1>0 DEF TaskFits, Verdicts, TaskPCs, AwaitPCs, RunPCs
  <2> QED
    BY <1>0, <1>1, <2>1, TaskFacts, BoundMoves, TaskGoes
<1> QED
  BY <1>0, <1>1, TaskFails

\* The result arrives.
LEMMA TaskAnswersKeeps ==
    ASSUME RunnerInv, NEW c \in Calls, NEW r \in Requests, TaskAnswers(c, r)
    PROVE  RunnerInv'
<1>0. /\ task[c][r] = "answer"
      /\ UNCHANGED <<doc, month, leaseVars, lock, call, delivery, spoiled, posts, upload>>
      /\ row[r].status = "SUBMITTED" /\ DepsPassed(r)'
  BY TaskFacts DEF TaskAnswers, TaskFits, DepsPassed
<1>1. /\ \A d \in Calls \ {c} : task[d][r] \notin RunPCs /\ task[d][r] # "intent"
      /\ claims[r].state # "NONE"
  BY <1>0, RunsAlone DEF RunPCs
<1>2. CASE /\ row' = [row EXCEPT ![r].status = "COMPLETE"] /\ GotoTask(c, r, "complete")
           /\ UNCHANGED <<claims, faults>>
  <2>1. row' = [row EXCEPT ![r] = [status |-> "COMPLETE", pid |-> row[r].pid, qa |-> row[r].qa]]
        /\ row[r].pid \in BOOLEAN
    BY <1>2, TaskFacts, RowWrite
  <2>2. row'[r].status = "COMPLETE"
    BY <2>1, TaskFacts DEF JobRow
  <2>3. TaskFits("complete", r)' /\ "complete" \in TaskPCs
    BY <1>0, <2>2 DEF TaskFits, Verdicts, TaskPCs, SyncPCs
  <2> QED
    BY <1>0, <1>1, <1>2, <2>1, <2>3, TaskFacts, ClaimsSame, TaskWrites DEF Sent
<1>3. CASE row' = [row EXCEPT ![r].status = "OVERRUN"] /\ Fails(c, r) /\ Fault
  <2>1. row' = [row EXCEPT ![r] = [status |-> "OVERRUN", pid |-> row[r].pid, qa |-> row[r].qa]]
        /\ row[r].pid \in BOOLEAN
    BY <1>3, TaskFacts, RowWrite
  <2>2. ClaimsMove /\ GotoTask(c, r, "failed")
    BY <1>3, TaskFacts, ForgetAllMoves DEF Fails
  <2>3. TaskFits("failed", r)' /\ "failed" \in TaskPCs
    BY <1>0 DEF TaskFits, Verdicts, TaskPCs, DonePCs
  <2> QED
    BY <1>0, <1>1, <1>3, <2>1, <2>2, <2>3, TaskFacts, TaskWrites DEF Sent
<1> QED
  BY <1>2, <1>3, Zenon DEF TaskAnswers

\* The provider raises.
LEMMA ProviderFailsKeeps ==
    ASSUME RunnerInv, NEW c \in Calls, NEW r \in Requests, ProviderFails(c, r)
    PROVE  RunnerInv'
<1>1. task[c][r] # "none" /\ Fails(c, r) /\ faults' \in 0..MaxFaults
  BY TaskFacts DEF ProviderFails
<1> QED
  BY <1>1, TaskFails DEF ProviderFails

\* The receipt is verified.
LEMMA TaskVerifiesKeeps ==
    ASSUME RunnerInv, NEW c \in Calls, NEW r \in Requests, TaskVerifies(c, r)
    PROVE  RunnerInv'
<1>0. /\ task[c][r] = "complete" /\ faults' \in 0..MaxFaults
      /\ UNCHANGED <<doc, row, month, leaseVars, lock, call, delivery, spoiled, posts, upload>>
      /\ row[r].status = "COMPLETE" /\ DepsPassed(r)'
  BY TaskFacts DEF TaskVerifies, outside, TaskFits, DepsPassed
<1>1. CASE GotoTask(c, r, "failed") /\ UNCHANGED claims
  BY <1>0, <1>1, TaskFacts, ClaimsSame, TaskFree
<1>2. CASE Forgotten(r, 0) /\ GotoTask(c, r, "failed")
  BY <1>0, <1>2, TaskFacts, ForgottenMoves, TaskFree
<1>3. CASE Forgotten(r, 0) /\ GotoTask(c, r, "qa")
  <2>1. ClaimsMove /\ claims'[r].state = "UNKNOWN"
    BY <1>3, TaskFacts, ForgottenMoves
  <2>2. TaskFits("qa", r)' /\ "qa" \in TaskPCs \ RunPCs
    BY <1>0, <2>1 DEF TaskFits, Verdicts, TaskPCs, AwaitPCs, RunPCs, Liable
  <2> QED
    BY <1>0, <1>3, <2>1, <2>2, TaskGoes
<1> QED
  BY <1>1, <1>2, <1>3 DEF TaskVerifies

\* The verdict of the independent QA.
LEMMA TaskJudgedKeeps ==
    ASSUME RunnerInv, NEW c \in Calls, NEW r \in Requests, TaskJudged(c, r)
    PROVE  RunnerInv'
<1>0. /\ task[c][r] = "qa" /\ faults' \in 0..MaxFaults /\ UNCHANGED claims
      /\ UNCHANGED <<doc, row, month, leaseVars, lock, call, delivery, spoiled, posts, upload>>
      /\ row[r].status = "COMPLETE" /\ claims[r].state \in Liable /\ DepsPassed(r)'
  BY TaskFacts DEF TaskJudged, stores, outside, TaskFits, DepsPassed
<1>1. PICK v \in Verdicts : GotoTask(c, r, v)
  BY DEF TaskJudged
<1>2. TaskFits(v, r)' /\ v \in TaskPCs \ RunPCs /\ v # "intent"
  BY <1>0 DEF TaskFits, Verdicts, TaskPCs, DonePCs, RunPCs
<1> QED
  BY <1>0, <1>1, <1>2, TaskFacts, ClaimsSame, TaskGoes

\* A task nobody waits for ends.
LEMMA OrphanEndsKeeps ==
    ASSUME RunnerInv, NEW c \in Calls, NEW r \in Requests, OrphanEnds(c, r)
    PROVE  RunnerInv'
<1>0. /\ task[c][r] # "none" /\ faults' \in 0..MaxFaults /\ UNCHANGED claims
      /\ UNCHANGED <<doc, row, month, leaseVars, lock, call, delivery, spoiled, posts, upload>>
  BY TaskFacts DEF OrphanEnds, DonePCs, Verdicts, stores, outside
<1> QED
  BY <1>0, TaskFacts, ClaimsSame, TaskFree DEF OrphanEnds

\* Every step of a task keeps the invariant.
LEMMA TaskNextKeeps ==
    ASSUME RunnerInv, NEW c \in Calls, NEW r \in Requests, TaskNext(c, r) \/ ProviderFails(c, r)
    PROVE  RunnerInv'
BY TaskBeginsKeeps, TaskPreparesKeeps, TaskReservesKeeps, TaskSlotsKeeps, TaskRunsKeeps,
   TaskPostsKeeps, TaskCheckpointsKeeps, TaskBindsKeeps, TaskAnswersKeeps, ProviderFailsKeeps,
   TaskVerifiesKeeps, TaskJudgedKeeps, OrphanEndsKeeps, Zenon DEF TaskNext

-----------------------------------------------------------------------------
(* Steps of a call that leave runner.json alone *)

\* A call ends or dies, with or without its tasks, and gives back what it holds.
LEMMA Retires ==
    ASSUME RunnerInv, NEW c \in Calls, call' \in [Calls -> Invocation],
           call'[c].pc \in {"idle", "ending"}, call'[c].tok = call[c].tok,
           \A d \in Calls \ {c} : call'[d] = call[d],
           task' \in [Calls -> [Requests -> TaskPCs]],
           \A d \in Calls, q \in Requests : task'[d][q] \in {task[d][q], "none"}, ClaimsMove,
           UNCHANGED <<doc, row, month, delivery, spoiled, posts, upload, last>>,
           token' \in [Episodes -> Nat], live' \subseteq Episodes,
           token'[Episode] \in {token[Episode], 0},
           lock' \in Calls \cup {Nobody}, lock' = lock \/ lock = c, faults' \in 0..MaxFaults
    PROVE  RunnerInv'
<1>1. RunnerTypeOK'
  BY DEF RunnerInv, RunnerTypeOK, LedgerTypeOK, Lease!FencedTypeOK, delivery, ClaimsMove
<1>2. \A q \in Requests : JobInv(q)'
  BY JobKeeps DEF RunnerInv, DepsPassed
<1>3. CallInv(c)' /\ StageInv(c)'
  BY EndedKeeps
<1>4. call'[c].pc \notin FencedPCs /\ call'[c].pc \notin {"thumbnail", "video"}
  BY DEF FencedPCs, RunnerPCs, StagePCs
<1> QED
  BY <1>1, <1>2, <1>3, <1>4, CallSteps DEF delivery

\* What a step of a call starts from.
LEMMA CallFacts ==
    ASSUME RunnerInv, NEW c \in Calls
    PROVE  /\ RunnerTypeOK /\ LedgerTypeOK /\ CallInv(c) /\ StageInv(c) /\ TokensFresh
           /\ call \in [Calls -> Invocation] /\ call[c] \in Invocation
           /\ task \in [Calls -> [Requests -> TaskPCs]]
           /\ token \in [Episodes -> Nat] /\ last \in [Episodes -> Nat] /\ live \subseteq Episodes
           /\ lock \in Calls \cup {Nobody} /\ doc \in Document
           /\ Fault => faults' \in 0..MaxFaults
           /\ faults \in 0..MaxFaults
           /\ claims' = claims => ClaimsMove
BY RunnerConstants DEF RunnerInv, RunnerTypeOK, Lease!FencedTypeOK, Fault, LedgerTypeOK, ClaimsMove

\* An exception inside the loop.
LEMMA RaiseKeeps ==
    ASSUME RunnerInv, NEW c \in Calls, Raise(c),
           UNCHANGED <<doc, row, month, leaseVars, delivery, outside>>
    PROVE  RunnerInv'
<1>1. /\ ClaimsMove /\ task' \in [Calls -> [Requests -> TaskPCs]]
      /\ \A d \in Calls, q \in Requests : task'[d][q] \in {task[d][q], "none"}
  BY AbandonFacts DEF Raise, RunnerInv
<1>2. Goto(c, "ending") /\ lock' = IF lock = c THEN Nobody ELSE lock
  BY DEF Raise, Leave
<1>3. /\ call' \in [Calls -> Invocation] /\ call'[c].pc = "ending" /\ call'[c].tok = call[c].tok
      /\ \A d \in Calls \ {c} : call'[d] = call[d]
  BY <1>2, CallFacts, GotoFacts DEF CallPCs
<1> QED
  BY <1>1, <1>2, <1>3, CallFacts, Retires DEF leaseVars, outside

\* A call moves to p in a step that writes nothing else.
LEMMA MovesOn ==
    ASSUME RunnerInv, NEW c \in Calls, NEW p \in CallPCs, Goto(c, p),
           UNCHANGED <<stores, month, leaseVars, lock, task, delivery, outside>>,
           p \in FencedPCs => call[c].pc \in FencedPCs, p \notin {"thumbnail", "video"},
           CallInv(c)', StageInv(c)'
    PROVE  RunnerInv'
<1>1. /\ call' \in [Calls -> Invocation] /\ call'[c].pc = p /\ call'[c].tok = call[c].tok
      /\ \A d \in Calls \ {c} : call'[d] = call[d]
  BY CallFacts, GotoFacts
<1>2. RunnerTypeOK'
  BY <1>1, CallFacts
     DEF RunnerTypeOK, LedgerTypeOK, Lease!FencedTypeOK, stores, leaseVars, delivery, outside
<1>3. ClaimsMove
  BY CallFacts DEF stores
<1>4. \A q \in Requests : JobInv(q)'
  BY <1>3, JobKeeps DEF RunnerInv, DepsPassed, stores, outside
<1> QED
  BY <1>1, <1>2, <1>3, <1>4, CallSteps DEF stores, leaseVars, delivery, outside

\* A call moves to its end.
LEMMA MovesToEnd ==
    ASSUME RunnerInv, NEW c \in Calls, Goto(c, "ending"),
           UNCHANGED <<stores, month, leaseVars, lock, task, delivery, outside>>
    PROVE  RunnerInv'
<1>1. "ending" \in CallPCs /\ "ending" \notin FencedPCs
  BY DEF CallPCs, FencedPCs, RunnerPCs, StagePCs
<1>2. call'[c].pc = "ending"
  BY <1>1, CallFacts, GotoFacts
<1>3. CallInv(c)' /\ StageInv(c)'
  BY <1>2, EndedKeeps
<1> QED
  BY <1>1, <1>3, MovesOn

\* The worker releases the lease.
LEMMA EndKeeps ==
    ASSUME RunnerInv, NEW c \in Calls, End(c)
    PROVE  RunnerInv'
<1>1. /\ Goto(c, "idle") /\ UNCHANGED <<stores, month, lock, task, delivery, outside>>
      /\ Lease!Drop(Episode) \/ UNCHANGED leaseVars
  BY DEF End
<1>2. /\ call' \in [Calls -> Invocation] /\ call'[c].pc = "idle" /\ call'[c].tok = call[c].tok
      /\ \A d \in Calls \ {c} : call'[d] = call[d]
  BY <1>1, CallFacts, GotoFacts DEF CallPCs
<1>3. /\ last' = last /\ token' \in [Episodes -> Nat] /\ live' \subseteq Episodes
      /\ token'[Episode] \in {token[Episode], 0}
  BY <1>1, CallFacts, RunnerConstants DEF Lease!Drop, leaseVars
<1> QED
  BY <1>1, <1>2, <1>3, CallFacts, Retires DEF stores, outside

\* The process of a call dies.
LEMMA CrashKeeps ==
    ASSUME RunnerInv, NEW c \in Calls, Crash(c)
    PROVE  RunnerInv'
<1>1. /\ Goto(c, "idle") /\ lock' = IF lock = c THEN Nobody ELSE lock
      /\ UNCHANGED <<stores, month, leaseVars, delivery, spoiled, posts, upload>>
      /\ faults' \in 0..MaxFaults /\ task' = [task EXCEPT ![c] = NoTasks]
  BY CallFacts DEF Crash, Leave
<1>2. /\ call' \in [Calls -> Invocation] /\ call'[c].pc = "idle" /\ call'[c].tok = call[c].tok
      /\ \A d \in Calls \ {c} : call'[d] = call[d]
  BY <1>1, CallFacts, GotoFacts DEF CallPCs
<1>3. NoTasks \in [Requests -> TaskPCs] /\ \A q \in Requests : NoTasks[q] = "none"
  BY DEF NoTasks, TaskPCs
<1>4. /\ task' \in [Calls -> [Requests -> TaskPCs]]
      /\ \A d \in Calls, q \in Requests : task'[d][q] \in {task[d][q], "none"}
  BY <1>1, <1>3, CallFacts
<1> QED
  BY <1>1, <1>2, <1>4, CallFacts, Retires DEF stores, leaseVars

\* asyncio.run() cancels what a call left behind.
LEMMA LoopClosesKeeps ==
    ASSUME RunnerInv, NEW c \in Calls, LoopCloses(c)
    PROVE  RunnerInv'
<1>1. /\ ClaimsMove /\ task' \in [Calls -> [Requests -> TaskPCs]]
      /\ \A d \in Calls, q \in Requests : task'[d][q] \in {task[d][q], "none"}
  BY AbandonFacts DEF LoopCloses, RunnerInv
<1> QED
  BY <1>1, CallFacts, Retires DEF LoopCloses, leaseVars, outside

\* Steps in which no call and no task moves, and that write neither runner.json
\* nor rows nor media.
LEMMA StillKeeps ==
    ASSUME RunnerInv, RunnerTypeOK', ClaimsMove,
           UNCHANGED <<doc, row, posts, delivery, upload, lock, call, task, token, last>>
    PROVE  RunnerInv'
<1>1. \A q \in Requests : JobInv(q)'
  BY JobKeeps DEF RunnerInv, DepsPassed
<1>2. \A d \in Calls : CallInv(d)'
  BY CallStays DEF RunnerInv, RunnerTypeOK
<1>3. \A d \in Calls : StageInv(d)'
  BY StageStays DEF RunnerInv, delivery
<1>4. TokensFresh' /\ DocInv' /\ EvidenceInv' /\ GatesShowApprovedWork' /\ PublishedAsApproved'
  BY DEF RunnerInv, TokensFresh, DocInv, EvidenceInv, Tells, MadeFrom, GatesShowApprovedWork,
         PublishedAsApproved, Active, delivery
<1> QED
  BY <1>1, <1>2, <1>3, <1>4 DEF RunnerInv

\* The bytes of a result are replaced.
LEMMA SpoilKeeps ==
    ASSUME RunnerInv, NEW r \in Requests, Spoil(r)
    PROVE  RunnerInv'
<1>1. claims' = claims /\ faults' \in 0..MaxFaults /\ LedgerTypeOK
  BY RunnerConstants DEF Spoil, stores, Fault, RunnerInv, RunnerTypeOK
<1>2. RunnerTypeOK'
  BY <1>1 DEF RunnerInv, RunnerTypeOK, LedgerTypeOK, Lease!FencedTypeOK, Spoil, stores, leaseVars, delivery
<1> QED
  BY <1>1, <1>2, ClaimsSame, StillKeeps DEF Spoil, stores, leaseVars

\* The lease expires.
LEMMA LeaseExpiresKeeps ==
    ASSUME RunnerInv, LeaseExpires
    PROVE  RunnerInv'
<1>1. claims' = claims /\ LedgerTypeOK /\ UNCHANGED <<token, last>>
  BY DEF LeaseExpires, stores, RunnerInv, RunnerTypeOK, Lease!Expire
<1>2. RunnerTypeOK'
  BY <1>1 DEF RunnerInv, RunnerTypeOK, LedgerTypeOK, Lease!FencedTypeOK, LeaseExpires, stores,
              delivery, outside
<1> QED
  BY <1>1, <1>2, ClaimsSame, StillKeeps DEF LeaseExpires, stores, outside

\* The reconciler settles a bill.
LEMMA SettleBillKeeps ==
    ASSUME RunnerInv, NEW r \in Requests, SettleBill(r)
    PROVE  RunnerInv'
<1>1. Settled(r, Cost, 0) /\ month' = month /\ LedgerTypeOK
  BY DEF SettleBill, SettleVerifiedReceipt, RunnerInv, RunnerTypeOK
<1>2. ClaimsMove
  BY <1>1, SettledMoves
<1>3. RunnerTypeOK'
  BY <1>1, <1>2 DEF RunnerInv, RunnerTypeOK, LedgerTypeOK, Lease!FencedTypeOK, SettleBill, ClaimsMove,
                    leaseVars, delivery, outside
<1> QED
  BY <1>2, <1>3, StillKeeps DEF SettleBill, leaseVars, outside

-----------------------------------------------------------------------------
(* Rendering, which holds no lock *)

\* Steps of a call that stages: only the media change.
LEMMA MediaSteps ==
    ASSUME RunnerInv, NEW c \in Calls, NEW p \in StagePCs, Goto(c, p), call[c].pc \in StagePCs,
           UNCHANGED <<stores, month, leaseVars, lock, task, outside>>,
           file' \in [Media -> Version],
           evidence' \in [manifest : SUBSET Requests, media : [Media -> Version]],
           \A d \in Calls : StageInv(d)', EvidenceInv'
    PROVE  RunnerInv'
<1>1. /\ call' \in [Calls -> Invocation] /\ call'[c].pc = p /\ call'[c].tok = call[c].tok
      /\ \A d \in Calls \ {c} : call'[d] = call[d]
  BY CallFacts, GotoFacts DEF CallPCs
<1>2. RunnerTypeOK'
  BY <1>1, CallFacts DEF RunnerTypeOK, LedgerTypeOK, Lease!FencedTypeOK, stores, leaseVars, outside
<1>3. ClaimsMove
  BY CallFacts DEF stores
<1>4. \A q \in Requests : JobInv(q)'
  BY <1>3, JobKeeps DEF RunnerInv, DepsPassed, stores, outside
<1>5. CallInv(c)'
  BY <1>1 DEF CallInv, StagePCs, RunnerPCs
<1>6. ASSUME NEW d \in Calls, d # c PROVE CallInv(d)'
  BY <1>1, <1>3, <1>6, CallStays DEF RunnerInv, RunnerTypeOK, stores, leaseVars, outside
<1>7. TokensFresh'
  BY <1>1 DEF RunnerInv, TokensFresh, leaseVars, FencedPCs
<1>8. DocInv' /\ GatesShowApprovedWork' /\ PublishedAsApproved'
  BY DEF RunnerInv, DocInv, GatesShowApprovedWork, PublishedAsApproved, Active, stores, outside
<1> QED
  BY <1>2, <1>4, <1>5, <1>6, <1>7, <1>8 DEF RunnerInv

\* The jobs a manifest renders are among its jobs, and so are its images.
LEMMA ManifestFacts ==
    ASSUME NEW J, J \subseteq Requests
    PROVE  /\ ActiveOf(J) \subseteq J /\ ImagesOf(J) \subseteq J
           /\ Rendered(ActiveOf(J)) \in Version
           /\ Rendered(ActiveOf(J)).made = "rendered" /\ Rendered(ActiveOf(J)).of = ActiveOf(J)
BY DEF ActiveOf, ImagesOf, Rendered, Version

\* The thumbnail is cut, from the manifest the owner has.
LEMMA RenderKeeps ==
    ASSUME RunnerInv, NEW c \in Calls, call[c].pc = "stage", Goto(c, "thumbnail"), Owns(c),
           doc.state = "MEDIA_PENDING", evidence = NoEvidence, file = NoMedia,
           RenderReady(call[c].manifest),
           file' = [file EXCEPT !["thumbnail"] = Rendered(ActiveOf(call[c].manifest))],
           UNCHANGED <<stores, month, leaseVars, lock, task, evidence, outside>>
    PROVE  RunnerInv'
<1> DEFINE J == call[c].manifest
<1>0. J \in SUBSET Requests /\ doc.jobs \in SUBSET Requests
  BY CallFacts DEF Invocation, Document
<1>1. J = doc.jobs
  BY CallFacts, OwnerHolds DEF StageInv, StagePCs, FencedPCs
<1>2. Tells(J)
  BY <1>1 DEF Tells, RenderReady, Heroes
<1>3. /\ call' \in [Calls -> Invocation] /\ call'[c].pc = "thumbnail" /\ call'[c].tok = call[c].tok
      /\ call'[c].manifest = J /\ \A d \in Calls \ {c} : call'[d] = call[d]
  BY CallFacts, GotoFacts DEF CallPCs, StagePCs
<1>4. /\ file' \in [Media -> Version] /\ file'["video"].made = "absent"
      /\ file'["thumbnail"].made = "rendered" /\ file'["thumbnail"].of = ActiveOf(J)
  BY <1>0, ManifestFacts DEF Media, NoMedia, Absent, RunnerInv, RunnerTypeOK
<1> HIDE DEF J
<1>5. MadeFrom(call[c].manifest)'
  BY <1>3, <1>4 DEF MadeFrom, Media
<1>6. ASSUME NEW d \in Calls, d # c PROVE call[d].pc \notin {"thumbnail", "video", "judge", "deliver"}
  BY DEF RunnerInv, StageInv, NoMedia, Absent, Media
<1>7. StageInv(c)'
  <2>1. Tells(call[c].manifest)'
    BY <1>2, <1>3 DEF Tells, stores
  <2> QED
    BY <1>1, <1>3, <1>4, <1>5, <1>6, <2>1 DEF StageInv, StagePCs, stores
<1>8. ASSUME NEW d \in Calls, d # c PROVE StageInv(d)'
  BY <1>3, <1>6, <1>8 DEF RunnerInv, StageInv, Holds, stores, leaseVars
<1>9. EvidenceInv'
  BY DEF EvidenceInv
<1>10. "thumbnail" \in StagePCs /\ "stage" \in StagePCs
  BY DEF StagePCs
<1>11. evidence' \in [manifest : SUBSET Requests, media : [Media -> Version]]
  BY CallFacts DEF RunnerTypeOK
<1> QED
  BY <1>4, <1>7, <1>8, <1>9, <1>10, <1>11, MediaSteps

\* Evidence for the present manifest is evidence of media made from it.
LEMMA ReuseKeeps ==
    ASSUME RunnerInv, NEW c \in Calls, call[c].pc = "stage", Goto(c, "judge"),
           doc.state = "MEDIA_PENDING", evidence # NoEvidence, EvidenceHolds(c),
           UNCHANGED <<stores, month, leaseVars, lock, task, delivery, outside>>
    PROVE  RunnerInv'
<1>1. "judge" \in CallPCs /\ "judge" \in StagePCs /\ "stage" \in FencedPCs /\ "stage" \in StagePCs
  BY DEF CallPCs, StagePCs, FencedPCs
<1>2. /\ call'[c].pc = "judge" /\ call'[c].tok = call[c].tok /\ call'[c].manifest = call[c].manifest
  BY <1>1, CallFacts, GotoFacts
<1>3. ASSUME Holds(c) PROVE MadeFrom(doc.jobs)
  <2>1. call[c].manifest = doc.jobs
    BY <1>1, <1>3, CallFacts DEF StageInv
  <2>2. PICK J \in SUBSET Requests : evidence.manifest = ImagesOf(J) /\ Tells(J) /\ MadeFrom(J)
    BY DEF RunnerInv, EvidenceInv
  <2>3. ImagesOf(doc.jobs) \subseteq J
    BY <2>1, <2>2, ManifestFacts DEF EvidenceHolds
  <2> QED
    BY <2>2, <2>3 DEF Tells
<1>4. StageInv(c)'
  BY <1>1, <1>2, <1>3, CallFacts DEF StageInv, Holds, MadeFrom, stores, leaseVars, delivery
<1>5. CallInv(c)'
  BY <1>2 DEF CallInv, RunnerPCs
<1> QED
  BY <1>1, <1>4, <1>5, MovesOn

\* _stage_local_delivery() begins.
LEMMA StageBeginsKeeps ==
    ASSUME RunnerInv, NEW c \in Calls, StageBegins(c)
    PROVE  RunnerInv'
<1>1. CASE /\ call[c].pc = "stage" /\ Goto(c, "judge") /\ UNCHANGED file
           /\ doc.state = "MEDIA_PENDING" /\ evidence # NoEvidence /\ EvidenceHolds(c)
  BY <1>1, ReuseKeeps DEF StageBegins, delivery
<1>2. CASE /\ call[c].pc = "stage" /\ Goto(c, "thumbnail") /\ Owns(c)
           /\ doc.state = "MEDIA_PENDING" /\ evidence = NoEvidence /\ file = NoMedia
           /\ RenderReady(call[c].manifest)
           /\ file' = [file EXCEPT !["thumbnail"] = Rendered(ActiveOf(call[c].manifest))]
  BY <1>2, RenderKeeps DEF StageBegins
<1>3. CASE Goto(c, "ending") /\ UNCHANGED file
  BY <1>3, MovesToEnd DEF StageBegins, delivery
<1> QED
  BY <1>1, <1>2, <1>3, Zenon DEF StageBegins

\* The video is rendered from the same manifest, by the only renderer.
LEMMA StageVideoKeeps ==
    ASSUME RunnerInv, NEW c \in Calls, StageVideo(c)
    PROVE  RunnerInv'
<1> DEFINE J == call[c].manifest
<1>0. /\ call[c].pc = "thumbnail" /\ J \in SUBSET Requests
      /\ UNCHANGED <<stores, month, leaseVars, lock, task, evidence, outside>>
  BY CallFacts DEF StageVideo, Invocation
<1>1. CASE Goto(c, "ending") /\ UNCHANGED file
  BY <1>0, <1>1, MovesToEnd DEF delivery
<1>2. CASE Goto(c, "video") /\ file' = [file EXCEPT !["video"] = Rendered(ActiveOf(J))]
  <2>1. /\ evidence = NoEvidence /\ file["thumbnail"].made # "absent" /\ Tells(J) /\ MadeFrom(J)
        /\ \A d \in Calls \ {c} : call[d].pc \notin {"thumbnail", "video"}
    BY <1>0, CallFacts DEF StageInv
  <2>2. /\ call'[c].pc = "video" /\ call'[c].tok = call[c].tok /\ call'[c].manifest = J
        /\ \A d \in Calls \ {c} : call'[d] = call[d]
    BY <1>2, CallFacts, GotoFacts DEF CallPCs, StagePCs
  <2>3. /\ file' \in [Media -> Version] /\ file'["thumbnail"] = file["thumbnail"]
        /\ file'["video"].made = "rendered" /\ file'["video"].of = ActiveOf(J)
    BY <1>0, <1>2, ManifestFacts DEF Media, RunnerInv, RunnerTypeOK
  <2> HIDE DEF J
  <2>4. MadeFrom(call[c].manifest)' /\ Tells(call[c].manifest)'
    BY <1>0, <2>1, <2>2, <2>3 DEF MadeFrom, Media, Tells, stores
  <2>5. \A d \in Calls \ {c} : call[d].pc \notin {"judge", "deliver"}
    BY <2>1 DEF RunnerInv, StageInv
  <2>6. StageInv(c)'
    <3>1. Holds(c)' => Holds(c)
      BY <1>0, <2>2 DEF Holds, leaseVars, FencedPCs, StagePCs
    <3> QED
      BY <1>0, <2>1, <2>2, <2>3, <2>4, <3>1, CallFacts DEF StageInv, StagePCs, stores, J
  <2>7. ASSUME NEW d \in Calls, d # c PROVE StageInv(d)'
    BY <1>0, <2>1, <2>2, <2>5, <2>7 DEF RunnerInv, StageInv, Holds, stores, leaseVars
  <2>8. EvidenceInv' /\ evidence' \in [manifest : SUBSET Requests, media : [Media -> Version]]
    BY <1>0, <2>1, CallFacts DEF EvidenceInv, RunnerTypeOK, NoEvidence
  <2> QED
    BY <1>0, <1>2, <2>3, <2>6, <2>7, <2>8, MediaSteps DEF StagePCs
<1> QED
  BY <1>1, <1>2 DEF StageVideo

\* The evidence names the manifest the files are made from.
LEMMA StageEvidenceKeeps ==
    ASSUME RunnerInv, NEW c \in Calls, StageEvidence(c)
    PROVE  RunnerInv'
<1> DEFINE J == call[c].manifest
<1>0. /\ call[c].pc = "video" /\ J \in SUBSET Requests /\ Goto(c, "judge")
      /\ UNCHANGED <<stores, month, leaseVars, lock, task, file, outside>>
      /\ evidence' = [manifest |-> ImagesOf(J), media |-> file]
  BY CallFacts DEF StageEvidence, Invocation
<1>1. /\ evidence = NoEvidence /\ file["thumbnail"].made # "absent" /\ Tells(J) /\ MadeFrom(J)
      /\ \A d \in Calls \ {c} : call[d].pc \notin {"thumbnail", "video"}
  BY <1>0, CallFacts DEF StageInv
<1>2. /\ call'[c].pc = "judge" /\ call'[c].tok = call[c].tok /\ call'[c].manifest = J
      /\ \A d \in Calls \ {c} : call'[d] = call[d]
  BY <1>0, CallFacts, GotoFacts DEF CallPCs, StagePCs
<1>3. evidence' # NoEvidence
  BY <1>0, <1>1 DEF NoEvidence, NoMedia, Absent, Media
<1>4. /\ evidence' \in [manifest : SUBSET Requests, media : [Media -> Version]]
      /\ file' \in [Media -> Version]
  BY <1>0, ManifestFacts, CallFacts DEF RunnerTypeOK
<1>5. EvidenceInv'
  <2>1. evidence'.manifest = ImagesOf(J)
    BY <1>0
  <2>2. \A K : (K = J => Tells(K)' /\ MadeFrom(K)')
    BY <1>0, <1>1 DEF Tells, MadeFrom, stores
  <2> QED
    BY <1>0, <2>1, <2>2 DEF EvidenceInv
<1> HIDE DEF J
<1>6. \A d \in Calls \ {c} : call[d].pc \notin {"judge", "deliver"}
  BY <1>1 DEF RunnerInv, StageInv
<1>7. StageInv(c)'
  <2>1. Holds(c)' => Holds(c)
    BY <1>0, <1>2 DEF Holds, leaseVars, FencedPCs, StagePCs
  <2>2. MadeFrom(J) /\ J = doc.jobs => MadeFrom(doc.jobs)'
    BY <1>0 DEF MadeFrom, stores
  <2> QED
    BY <1>0, <1>1, <1>2, <1>3, <2>1, <2>2, CallFacts DEF StageInv, StagePCs, stores, J
<1>8. ASSUME NEW d \in Calls, d # c PROVE StageInv(d)'
  BY <1>0, <1>1, <1>2, <1>6, <1>8 DEF RunnerInv, StageInv, Holds, stores, leaseVars
<1> QED
  BY <1>0, <1>4, <1>5, <1>7, <1>8, MediaSteps DEF StagePCs

\* The independent media QA.
LEMMA StageJudgedKeeps ==
    ASSUME RunnerInv, NEW c \in Calls, StageJudged(c)
    PROVE  RunnerInv'
<1>0. call[c].pc = "judge" /\ UNCHANGED <<stores, month, leaseVars, lock, task, delivery, outside>>
  BY DEF StageJudged
<1>1. CASE Goto(c, "deliver")
  <2>1. "deliver" \in CallPCs /\ "judge" \in FencedPCs
    BY DEF CallPCs, StagePCs, FencedPCs
  <2>2. call'[c].pc = "deliver" /\ call'[c].tok = call[c].tok /\ call'[c].manifest = call[c].manifest
    BY <1>1, <2>1, CallFacts, GotoFacts
  <2>3. StageInv(c)'
    BY <1>0, <2>1, <2>2, CallFacts DEF StageInv, StagePCs, Holds, MadeFrom, stores, leaseVars, delivery
  <2>4. CallInv(c)'
    BY <2>2 DEF CallInv, RunnerPCs
  <2> QED
    BY <1>0, <1>1, <2>1, <2>3, <2>4, MovesOn
<1> QED
  BY <1>0, <1>1, MovesToEnd DEF StageJudged

\* A media file is replaced.
LEMMA ReplaceKeeps ==
    ASSUME RunnerInv, NEW k \in Media, Replace(k)
    PROVE  RunnerInv'
<1>0. /\ UNCHANGED <<stores, month, leaseVars, lock, call, task, evidence, spoiled, posts, upload>>
      /\ file' = [file EXCEPT ![k] = [of |-> {}, made |-> "replaced"]]
      /\ faults' \in 0..MaxFaults /\ LedgerTypeOK /\ file \in [Media -> Version]
  BY RunnerConstants DEF Replace, Fault, RunnerInv, RunnerTypeOK
<1>1. /\ file' \in [Media -> Version]
      /\ \A m \in Media : file'[m] = file[m] \/ file'[m].made = "replaced"
  BY <1>0 DEF Version
<1>2. RunnerTypeOK'
  BY <1>0, <1>1 DEF RunnerInv, RunnerTypeOK, LedgerTypeOK, Lease!FencedTypeOK, stores, leaseVars
<1>3. ClaimsMove
  BY <1>0, ClaimsSame DEF stores
<1>4. \A q \in Requests : JobInv(q)'
  BY <1>0, <1>3, JobKeeps DEF RunnerInv, DepsPassed, stores
<1>5. \A d \in Calls : CallInv(d)'
  BY <1>0, <1>3, CallStays DEF RunnerInv, RunnerTypeOK, stores, leaseVars
<1>6. /\ file["thumbnail"].made # "absent" => file'["thumbnail"].made # "absent"
      /\ MadeFrom(doc.jobs) => MadeFrom(doc.jobs)'
      /\ \A d \in Calls : MadeFrom(call[d].manifest) => MadeFrom(call[d].manifest)'
      /\ \A d \in Calls : Tells(call[d].manifest) => Tells(call[d].manifest)'
      /\ \A d \in Calls : Holds(d)' => Holds(d)
  BY <1>0, <1>1 DEF MadeFrom, Tells, Media, Holds, stores, leaseVars
<1>7. \A d \in Calls : StageInv(d)'
  BY <1>0, <1>6 DEF RunnerInv, StageInv, stores
<1>8. TokensFresh' /\ DocInv' /\ GatesShowApprovedWork' /\ PublishedAsApproved'
  BY <1>0 DEF RunnerInv, TokensFresh, DocInv, GatesShowApprovedWork, PublishedAsApproved, Active,
              stores, leaseVars
<1>9. EvidenceInv'
  BY <1>0, <1>1 DEF RunnerInv, EvidenceInv, Tells, MadeFrom, stores
<1> QED
  BY <1>2, <1>4, <1>5, <1>7, <1>8, <1>9 DEF RunnerInv

-----------------------------------------------------------------------------
(* The loop *)

\* A rejection reaches the executor's row, or the call goes on.
LEMMA SyncQaKeeps ==
    ASSUME RunnerInv, NEW c \in Calls, SyncQa(c)
    PROVE  RunnerInv'
<1>0. call[c].pc = "sync" /\ UNCHANGED <<doc, ledgerVars, leaseVars, lock, task, delivery, outside>>
  BY DEF SyncQa
<1>1. ASSUME NEW r \in Unprojected, Projectable(r), row' = [row EXCEPT ![r].qa = doc.qa[r]], UNCHANGED call
      PROVE  RunnerInv'
  <2>1. r \in Requests /\ row[r].qa = "none" /\ doc.qa[r] = "fail"
    BY <1>1, CallFacts DEF Unprojected, Projectable, Document
  <2>2. /\ row' \in [Requests -> JobRow] /\ row'[r].qa = "fail" /\ row'[r].status = row[r].status
        /\ \A q \in Requests \ {r} : row'[q] = row[q]
    BY <1>1, <2>1, CallFacts DEF RunnerTypeOK, JobRow
  <2>3. RunnerTypeOK'
    BY <1>0, <1>1, <2>2, CallFacts
       DEF RunnerTypeOK, LedgerTypeOK, Lease!FencedTypeOK, ledgerVars, leaseVars, delivery, outside
  <2>4. ClaimsMove
    BY <1>0, CallFacts DEF ledgerVars
  <2>5. \A q \in Requests : JobInv(q)'
    BY <1>0, <2>1, <2>2, <2>4, JobKeeps DEF RunnerInv, DepsPassed, outside
  <2>6. \A q \in Requests : /\ row[q].status = "COMPLETE" => row'[q].status = "COMPLETE"
                            /\ row[q].qa = "pass" => row'[q].qa = "pass"
    BY <2>1, <2>2
  <2>7. CallInv(c)'
    BY <1>0, <1>1, <2>4, <2>6, CallFacts, CallStays DEF leaseVars, outside
  <2>8. StageInv(c)'
    BY <1>0, <1>1, CallFacts, StageStays DEF leaseVars, delivery
  <2> QED
    BY <1>0, <1>1, <2>3, <2>4, <2>5, <2>6, <2>7, <2>8, CallSteps DEF leaseVars, delivery, outside
<1>2. CASE Goto(c, "ending") /\ UNCHANGED row
  BY <1>0, <1>2, MovesToEnd DEF stores, ledgerVars
<1>3. CASE Goto(c, "stage") /\ UNCHANGED row
  <2>1. "stage" \in CallPCs /\ "sync" \in FencedPCs
    BY DEF CallPCs, StagePCs, FencedPCs
  <2>2. call'[c].pc = "stage" /\ call'[c].tok = call[c].tok /\ call'[c].manifest = call[c].manifest
    BY <1>3, <2>1, CallFacts, GotoFacts
  <2>3. StageInv(c)'
    BY <1>0, <2>1, <2>2, CallFacts DEF StageInv, StagePCs, Holds, leaseVars
  <2>4. CallInv(c)'
    BY <2>2 DEF CallInv, RunnerPCs
  <2> QED
    BY <1>0, <1>3, <2>1, <2>3, <2>4, MovesOn DEF stores, ledgerVars
<1> QED
  BY <1>1, <1>2, <1>3 DEF SyncQa

\* As many ready jobs as fit become tasks.
LEMMA LoopDispatchesKeeps ==
    ASSUME RunnerInv, NEW c \in Calls, LoopDispatches(c)
    PROVE  RunnerInv'
<1>0. call[c].pc = "loop" /\ UNCHANGED <<doc, row, month, leaseVars, delivery, outside>>
  BY DEF LoopDispatches
<1>1. CASE Raise(c)
  BY <1>0, <1>1, RaiseKeeps
<1>2. ASSUME NEW R \in SUBSET Ready(c), Goto(c, "await"), UNCHANGED <<claims, lock>>,
             task' = [task EXCEPT ![c] = [r \in Requests |-> IF r \in R THEN "begin" ELSE @[r]]]
      PROVE  RunnerInv'
  <2>1. /\ call' \in [Calls -> Invocation] /\ call'[c].pc = "await" /\ call'[c].tok = call[c].tok
        /\ \A d \in Calls \ {c} : call'[d] = call[d]
    BY <1>2, CallFacts, GotoFacts DEF CallPCs, RunnerPCs
  <2>2. /\ task' \in [Calls -> [Requests -> TaskPCs]]
        /\ \A d \in Calls \ {c} : task'[d] = task[d]
        /\ \A q \in Requests : task'[c][q] = IF q \in R THEN "begin" ELSE task[c][q]
    <3>1. "begin" \in TaskPCs
      BY DEF TaskPCs, AwaitPCs
    <3> QED
      BY <1>2, <3>1, CallFacts
  <2>3. \A q \in R : task[c][q] = "none" /\ doc.qa[q] = "none" /\ DepsPassed(q) /\ q \in Requests
    BY CallFacts DEF Ready, Pending, Inflight, DepsPassed, Document
  <2>4. ClaimsMove
    BY <1>2, CallFacts
  <2>5. RunnerTypeOK'
    BY <1>0, <1>2, <2>1, <2>2, CallFacts
       DEF RunnerTypeOK, LedgerTypeOK, Lease!FencedTypeOK, leaseVars, delivery, outside
  <2>6. ASSUME NEW q \in Requests PROVE JobInv(q)'
    <3>1. CASE q \notin R
      BY <1>0, <2>2, <2>4, <3>1, JobKeeps DEF RunnerInv, DepsPassed, outside
    <3>2. CASE q \in R
      <4>1. JobInv(q) /\ DepsPassed(q)'
        BY <1>0, <2>3, <3>2 DEF RunnerInv, DepsPassed
      <4>2. \A d \in Calls : TaskFits(task[d][q], q)'
        <5>1. TaskFits(task[c][q], q)'
          BY <2>2, <3>2, <4>1 DEF TaskFits, Verdicts
        <5>2. ASSUME NEW d \in Calls, d # c PROVE TaskFits(task[d][q], q)'
          BY <1>0, <1>2, <2>2, <4>1, <5>2 DEF JobInv, TaskFits, Verdicts, outside
        <5> QED
          BY <5>1, <5>2
      <4>3. \A d, e \in Calls : /\ task'[d][q] = "intent" /\ task'[e][q] = "intent" => d = e
                                /\ task'[d][q] \in RunPCs /\ task'[e][q] \in RunPCs => d = e
        BY <2>2, <3>2, <4>1 DEF JobInv, RunPCs
      <4> QED
        BY <1>0, <1>2, <4>1, <4>2, <4>3 DEF JobInv, outside
    <3> QED
      BY <3>1, <3>2
  <2>7. CallInv(c)'
    BY <1>0, <1>2, <2>1, <2>2, <2>3, CallFacts DEF CallInv, RunnerPCs
  <2>8. StageInv(c)' /\ call[c].pc \in FencedPCs /\ call'[c].pc \notin {"thumbnail", "video"}
    BY <1>0, <2>1 DEF StageInv, StagePCs, FencedPCs, RunnerPCs
  <2> QED
    BY <1>0, <1>2, <2>1, <2>2, <2>4, <2>5, <2>6, <2>7, <2>8, CallSteps DEF leaseVars, delivery, outside
<1>3. PICK R \in SUBSET Ready(c) :
        \/ Raise(c)
        \/ /\ task' = [task EXCEPT ![c] = [r \in Requests |-> IF r \in R THEN "begin" ELSE @[r]]]
           /\ Goto(c, "await")
           /\ UNCHANGED <<claims, lock>>
  BY Zenon DEF LoopDispatches
<1> QED
  BY <1>1, <1>2, <1>3

\* A verdict is written to runner.json by the call that has the lock.
LEMMA QaSteps ==
    ASSUME RunnerInv, NEW c \in Calls, NEW r \in Requests, NEW v \in Verdicts,
           call[c].pc \in RunnerPCs, Goto(c, "loop"),
           doc' = [doc EXCEPT !.qa[r] = v], doc.qa[r] = "none",
           row[r].status = "COMPLETE", claims[r].state \in Liable, v = "pass" => row[r].qa = "pass",
           task' \in [Calls -> [Requests -> TaskPCs]], task'[c][r] = "none",
           \A d \in Calls, q \in Requests : task'[d][q] \in {task[d][q], "none"},
           UNCHANGED <<row, ledgerVars, leaseVars, lock, delivery, outside>>
    PROVE  RunnerInv'
<1>1. /\ call' \in [Calls -> Invocation] /\ call'[c].pc = "loop" /\ call'[c].tok = call[c].tok
      /\ \A d \in Calls \ {c} : call'[d] = call[d]
  BY CallFacts, GotoFacts DEF CallPCs, RunnerPCs
<1>2. /\ doc' \in Document /\ doc'.qa[r] = v /\ \A q \in Requests \ {r} : doc'.qa[q] = doc.qa[q]
      /\ doc'.state = doc.state /\ doc'.jobs = doc.jobs /\ doc'.media = doc.media /\ doc'.gates = doc.gates
  BY CallFacts DEF Document
<1>3. RunnerTypeOK'
  BY <1>1, <1>2, CallFacts
     DEF RunnerTypeOK, LedgerTypeOK, Lease!FencedTypeOK, ledgerVars, leaseVars, delivery, outside
<1>4. ClaimsMove
  BY CallFacts DEF ledgerVars
<1>5. \A q \in Requests : DepsPassed(q) => DepsPassed(q)'
  BY <1>2, RunnerConstants DEF DepsPassed
<1>6. ASSUME NEW q \in Requests PROVE JobInv(q)'
  <2>1. CASE q # r
    BY <1>2, <1>4, <1>5, <2>1, JobKeeps DEF RunnerInv, outside
  <2>2. CASE q = r
    <3>1. JobInv(r)
      BY DEF RunnerInv
    <3>2. \A d \in Calls : TaskFits(task[d][r], r)'
      BY <1>5, <3>1 DEF JobInv, TaskFits, Verdicts, ledgerVars, outside
    <3>3. \A d, e \in Calls : /\ task'[d][r] = "intent" /\ task'[e][r] = "intent" => d = e
                              /\ task'[d][r] \in RunPCs /\ task'[e][r] \in RunPCs => d = e
      BY <3>1 DEF JobInv, RunPCs
    <3> QED
      BY <1>2, <1>5, <2>2, <3>1, <3>2, <3>3 DEF JobInv, Sent, Liable, ledgerVars, outside
  <2> QED
    BY <2>1, <2>2
<1>7. lock = c /\ doc.state = "RUNNING"
  BY CallFacts DEF CallInv
<1>8. CallInv(c)'
  BY <1>1, <1>2, <1>7, CallFacts DEF CallInv, RunnerPCs
<1>9. StageInv(c)'
  BY <1>1 DEF StageInv, StagePCs
<1>10. ASSUME NEW d \in Calls, d # c PROVE CallInv(d)' /\ StageInv(d)'
  <2>1. CallInv(d) /\ StageInv(d) /\ call'[d] = call[d] /\ (Holds(d)' => Holds(d))
    BY <1>1, <1>10 DEF RunnerInv, Holds, leaseVars
  <2>2. CallInv(d)'
    BY <1>2, <1>7, <1>10, <2>1 DEF CallInv, RunnerPCs, outside
  <2>3. /\ Tells(call[d].manifest) => Tells(call[d].manifest)'
        /\ MadeFrom(call[d].manifest) => MadeFrom(call[d].manifest)'
        /\ MadeFrom(doc.jobs) => MadeFrom(doc.jobs)'
    BY <1>2, <2>1 DEF Tells, MadeFrom, delivery
  <2>4. \A e \in Calls : call'[e].pc \in {"thumbnail", "video"} => call[e].pc \in {"thumbnail", "video"}
    BY <1>1
  <2> QED
    BY <1>2, <1>7, <2>1, <2>2, <2>3, <2>4 DEF StageInv, delivery
<1>11. TokensFresh'
  <2>1. call[c].pc \in FencedPCs
    BY DEF FencedPCs
  <2>2. \A d \in Calls : call'[d].tok = call[d].tok /\ (call'[d].pc \in FencedPCs => call[d].pc \in FencedPCs)
    BY <1>1, <2>1
  <2>3. TokensFresh /\ UNCHANGED <<token, live, last>>
    BY DEF RunnerInv, leaseVars
  <2>4. /\ token'[Episode] \in {0, last'[Episode]}
        /\ \A d \in Calls : /\ call'[d].tok <= last'[Episode]
                            /\ call'[d].pc \in FencedPCs => call'[d].tok # 0
    BY <2>2, <2>3 DEF TokensFresh
  <2>5. \A d, q \in Calls : d # q /\ call'[d].tok = call'[q].tok => call'[d].tok = 0
    <3>1. SUFFICES ASSUME NEW d \in Calls, NEW q \in Calls, d # q, call'[d].tok = call'[q].tok
                   PROVE  call'[d].tok = 0
      OBVIOUS
    <3>2. call[d].tok = call[q].tok
      BY <2>2, <3>1
    <3> QED
      BY <2>2, <2>3, <3>1, <3>2 DEF TokensFresh
  <2> QED
    BY <2>4, <2>5 DEF TokensFresh
<1>12. DocInv' /\ GatesShowApprovedWork' /\ PublishedAsApproved'
  <2>1. DocInv /\ upload' = upload
    BY DEF RunnerInv, outside
  <2>2. DocInv'
    BY <1>2, <1>7, <2>1 DEF DocInv
  <2> QED
    BY <1>2, <1>7, <2>1, <2>2 DEF RunnerInv, GatesShowApprovedWork, PublishedAsApproved, Promoted
<1>13. EvidenceInv'
  BY <1>2 DEF RunnerInv, EvidenceInv, Tells, MadeFrom, delivery
<1> QED
  BY <1>3, <1>6, <1>8, <1>9, <1>10, <1>11, <1>12, <1>13 DEF RunnerInv

\* A task ended: its verdict is recorded, or handed to the executor first.
LEMMA CollectKeeps ==
    ASSUME RunnerInv, NEW c \in Calls, NEW r \in Requests, Collect(c, r)
    PROVE  RunnerInv'
<1>0. /\ call[c].pc \in {"await", "loop"} /\ UNCHANGED <<month, leaseVars, delivery, outside>>
      /\ task[c][r] \in DonePCs
  BY DEF Collect
<1>1. /\ call[c].pc \in RunnerPCs /\ task[c][r] # "none" /\ doc.qa[r] = "none"
      /\ lock = c /\ doc.state = "RUNNING"
      /\ task[c][r] \in Verdicts => row[r].status = "COMPLETE" /\ claims[r].state \in Liable
  BY <1>0, CallFacts, TaskFacts DEF CallInv, RunnerPCs, DonePCs, Verdicts, TaskFits
<1>2. CASE /\ task[c][r] \in Rejections /\ doc' = [doc EXCEPT !.qa[r] = task[c][r]]
           /\ GotoTask(c, r, "none") /\ Goto(c, "loop") /\ UNCHANGED <<row, claims, lock>>
  <2>1. /\ task' \in [Calls -> [Requests -> TaskPCs]] /\ task'[c][r] = "none"
        /\ \A d \in Calls, q \in Requests : task'[d][q] \in {task[d][q], "none"}
    BY <1>2, CallFacts, GotoTaskFacts DEF TaskPCs
  <2>2. task[c][r] \in Verdicts /\ task[c][r] # "pass"
    BY <1>2 DEF Rejections, Verdicts
  <2> QED
    BY <1>0, <1>1, <1>2, <2>1, <2>2, QaSteps DEF ledgerVars
<1>3. CASE /\ task[c][r] = "pass" /\ row' = [row EXCEPT ![r].qa = "pass"] /\ GotoTask(c, r, "none")
           /\ call' = [call EXCEPT ![c].pc = "record", ![c].job = r] /\ UNCHANGED <<doc, claims, lock>>
  <2>1. /\ task' \in [Calls -> [Requests -> TaskPCs]] /\ task'[c][r] = "none"
        /\ \A d \in Calls, q \in Requests : task'[d][q] \in {task[d][q], "none"}
    BY <1>3, CallFacts, GotoTaskFacts DEF TaskPCs
  <2>2. /\ call' \in [Calls -> Invocation] /\ call'[c].pc = "record" /\ call'[c].job = r
        /\ call'[c].tok = call[c].tok /\ \A d \in Calls \ {c} : call'[d] = call[d]
    <3>1. "record" \in CallPCs
      BY DEF CallPCs, RunnerPCs
    <3> QED
      BY <1>3, <3>1, CallFacts DEF Invocation
  <2>3. /\ row' \in [Requests -> JobRow] /\ row'[r].qa = "pass" /\ row'[r].status = row[r].status
        /\ \A q \in Requests \ {r} : row'[q] = row[q]
    BY <1>3, CallFacts DEF RunnerTypeOK, JobRow
  <2>4. RunnerTypeOK'
    BY <1>0, <1>3, <2>1, <2>2, <2>3, CallFacts
       DEF RunnerTypeOK, LedgerTypeOK, Lease!FencedTypeOK, leaseVars, delivery, outside
  <2>5. ClaimsMove
    BY <1>3, CallFacts
  <2>6. \A q \in Requests : JobInv(q)'
    BY <1>0, <1>3, <2>1, <2>3, <2>5, JobKeeps DEF RunnerInv, DepsPassed, outside
  <2>7. row[r].status = "COMPLETE" /\ claims[r].state \in Liable
    BY <1>1, <1>3 DEF Verdicts
  <2>8. CallInv(c)'
    BY <1>1, <1>3, <2>1, <2>2, <2>3, <2>7, CallFacts DEF CallInv
  <2>9. StageInv(c)' /\ call[c].pc \in FencedPCs /\ call'[c].pc \notin {"thumbnail", "video"}
    BY <1>1, <2>2 DEF StageInv, StagePCs, FencedPCs
  <2> QED
    BY <1>0, <1>3, <2>1, <2>2, <2>3, <2>4, <2>5, <2>6, <2>8, <2>9, CallSteps
       DEF leaseVars, delivery, outside
<1>4. CASE Raise(c) /\ UNCHANGED <<doc, row>>
  BY <1>0, <1>4, RaiseKeeps
<1> QED
  BY <1>2, <1>3, <1>4, Zenon DEF Collect

\* An approval the executor has taken is written to runner.json.
LEMMA RecordKeeps ==
    ASSUME RunnerInv, NEW c \in Calls, Record(c)
    PROVE  RunnerInv'
<1>0. call[c].pc = "record" /\ UNCHANGED <<row, month, leaseVars, delivery, outside>>
  BY DEF Record
<1>1. /\ call[c].pc \in RunnerPCs /\ call[c].job \in Requests /\ CallInv(c)
      /\ task \in [Calls -> [Requests -> TaskPCs]]
  BY <1>0, CallFacts DEF RunnerPCs, Invocation
<1>2. /\ task[c][call[c].job] = "none" /\ doc.qa[call[c].job] = "none"
      /\ row[call[c].job].status = "COMPLETE" /\ row[call[c].job].qa = "pass"
      /\ claims[call[c].job].state \in Liable
  BY <1>0, <1>1 DEF CallInv
<1>3. CASE /\ doc' = [doc EXCEPT !.qa[call[c].job] = "pass"] /\ Goto(c, "loop")
           /\ UNCHANGED <<claims, lock, task>>
  BY <1>0, <1>1, <1>2, <1>3, QaSteps DEF ledgerVars, Verdicts
<1>4. CASE Raise(c) /\ UNCHANGED doc
  BY <1>0, <1>4, RaiseKeeps
<1> QED
  BY <1>3, <1>4, Zenon DEF Record

-----------------------------------------------------------------------------
(* Steps that change the state of the runner *)

\* Whoever changes runner.json has the lock or finds it free: x is the call that
\* does, or nobody's name.  No verdict changes.
LEMMA DocSteps ==
    ASSUME RunnerInv, RunnerTypeOK', NEW x, lock \in {Nobody, x},
           doc'.qa = doc.qa, doc.jobs \subseteq doc'.jobs,
           UNCHANGED <<row, posts, delivery, upload, token, last>>, ClaimsMove,
           \A d \in Calls, q \in Requests : task'[d][q] \in {task[d][q], "none"},
           \A d \in Calls \ {x} : call'[d] = call[d],
           x \in Calls => /\ call'[x].tok = call[x].tok
                          /\ call'[x].pc \in FencedPCs => call[x].pc \in FencedPCs
                          /\ call'[x].pc \notin {"thumbnail", "video"}
                          /\ CallInv(x)' /\ StageInv(x)',
           \/ x \in Calls /\ Holds(x)
           \/ doc'.state \in Open
           \/ doc.state \notin Open \cup {"MEDIA_PENDING"} /\ doc'.state \notin Open \cup {"MEDIA_PENDING"},
           doc'.jobs = doc.jobs \/ doc'.state \in Open,
           \A J \in SUBSET Requests : Tells(J) => Tells(J)',
           DocInv', GatesShowApprovedWork', PublishedAsApproved'
    PROVE  RunnerInv'
<1>0. /\ call \in [Calls -> Invocation] /\ call' \in [Calls -> Invocation] /\ Nobody \notin Calls
      /\ \A d \in Calls : call[d].manifest \in SUBSET Requests
  BY RunnerConstants DEF RunnerInv, RunnerTypeOK, Invocation
<1>1. TokensFresh'
  BY DEF RunnerInv, TokensFresh
<1>2. \A q \in Requests : JobInv(q)'
  BY JobKeeps DEF RunnerInv, DepsPassed
<1>3. ASSUME NEW d \in Calls, d # x PROVE CallInv(d)' /\ StageInv(d)'
  <2>1. /\ CallInv(d) /\ StageInv(d) /\ call'[d] = call[d] /\ lock # d
        /\ Holds(d)' => Holds(d)
    BY <1>0, <1>3 DEF RunnerInv, Holds
  <2>2. x \in Calls /\ Holds(x) => ~Holds(d)
    BY <1>3, HoldsOnce DEF RunnerInv
  <2>3. CallInv(d)'
    <3>1. call[d].pc \notin RunnerPCs /\ call[d].pc # "record" /\ call[d].pc \notin {"intent", "uploaded"}
      BY <2>1 DEF CallInv, RunnerPCs
    <3>2. call[d].pc = "queued" => /\ \A r \in Requests : task'[d][r] = "none"
                                   /\ Holds(d)' => doc'.state \in Open \cup {"MEDIA_PENDING"}
      BY <2>1, <2>2 DEF CallInv
    <3> QED
      BY <2>1, <3>1, <3>2 DEF CallInv
  <2>4. /\ Tells(call[d].manifest) => Tells(call[d].manifest)'
        /\ MadeFrom(call[d].manifest) => MadeFrom(call[d].manifest)'
    <3>1. \A J \in SUBSET Requests : J = call[d].manifest => (Tells(J)' => Tells(call[d].manifest)')
      BY <2>1 DEF Tells
    <3> QED
      BY <1>0, <2>1, <3>1 DEF MadeFrom, delivery
  <2>5. \A e \in Calls : call'[e].pc \in {"thumbnail", "video"} => call[e].pc \in {"thumbnail", "video"}
    OBVIOUS
  <2>6. ASSUME doc'.state = "MEDIA_PENDING", Holds(d)'
        PROVE  doc.state = "MEDIA_PENDING" /\ doc'.jobs = doc.jobs
    BY <2>1, <2>2, <2>6 DEF Open
  <2>7. doc'.jobs = doc.jobs /\ MadeFrom(doc.jobs) => MadeFrom(doc.jobs)'
    BY DEF MadeFrom, delivery
  <2>8. call[d].pc \in {"sync"} \cup StagePCs /\ Holds(d)' /\ doc'.state = "MEDIA_PENDING"
           => call[d].manifest = doc'.jobs
    BY <2>1, <2>6 DEF StageInv
  <2>9. call[d].pc \in {"thumbnail", "video"} =>
           /\ evidence = NoEvidence /\ file["thumbnail"].made # "absent"
           /\ Tells(call[d].manifest)' /\ MadeFrom(call[d].manifest)'
           /\ \A e \in Calls : call'[e].pc \in {"thumbnail", "video"} => e = d
    BY <2>1, <2>4, <2>5 DEF StageInv
  <2>10. call[d].pc \in {"judge", "deliver"} =>
           /\ evidence # NoEvidence
           /\ Holds(d)' /\ doc'.state = "MEDIA_PENDING" => MadeFrom(doc.jobs)'
    BY <2>1, <2>6, <2>7 DEF StageInv
  <2> QED
    BY <2>1, <2>3, <2>8, <2>9, <2>10 DEF StageInv, delivery
<1>4. EvidenceInv'
  <2>1. ASSUME evidence # NoEvidence
        PROVE  \E J \in SUBSET Requests : evidence.manifest = ImagesOf(J) /\ Tells(J)' /\ MadeFrom(J)'
    BY <2>1 DEF RunnerInv, EvidenceInv, MadeFrom, delivery
  <2> QED
    BY <2>1 DEF EvidenceInv, delivery
<1> QED
  BY <1>1, <1>2, <1>3, <1>4 DEF RunnerInv


\* The types after a step that writes runner.json.
LEMMA DocTypes ==
    ASSUME RunnerInv, doc' \in Document, call' \in [Calls -> Invocation],
           task' \in [Calls -> [Requests -> TaskPCs]], ClaimsMove, lock' \in Calls \cup {Nobody},
           UNCHANGED <<row, month, leaseVars, delivery, outside>>
    PROVE  RunnerTypeOK'
BY DEF RunnerInv, RunnerTypeOK, LedgerTypeOK, Lease!FencedTypeOK, ClaimsMove, leaseVars, delivery, outside

\* What a step on a free lock starts from.
LEMMA DocFacts ==
    ASSUME RunnerInv
    PROVE  /\ RunnerTypeOK /\ DocInv /\ GatesShowApprovedWork /\ PublishedAsApproved
           /\ doc \in Document /\ doc.jobs \subseteq Requests /\ upload.calls \in Nat
           /\ row \in [Requests -> JobRow]
           /\ call \in [Calls -> Invocation] /\ task \in [Calls -> [Requests -> TaskPCs]]
           /\ file \in [Media -> Version]
           /\ lock \in Calls \cup {Nobody} /\ Nobody \notin Calls
           /\ claims' = claims => ClaimsMove
           /\ NoMedia \in [Media -> Version]
           /\ NoGates \in [Media -> [seen : Version, approved : BOOLEAN]]
<1>1. Absent \in Version
  BY DEF Absent, Version
<1> QED
  BY <1>1, RunnerConstants DEF RunnerInv, RunnerTypeOK, LedgerTypeOK, ClaimsMove, Document, NoMedia,
       NoGates, NoGate

\* Before the publisher is asked nothing has to be said of the package.
LEMMA Unpublished ==
    ASSUME RunnerInv, doc.state \notin {"PUBLISH_INTENT", "PUBLISHED"},
           doc.state # "REJECTED" \/ doc.jobs # Requests, upload' = upload
    PROVE  /\ upload.calls = 0 /\ upload'.calls = 0 /\ ~(upload'.calls > 0) /\ PublishedAsApproved'
<1>1. ~(upload.calls > 0) /\ upload.calls \in Nat
  BY DocFacts DEF DocInv
<1> QED
  BY <1>1 DEF PublishedAsApproved

\* start() binds the first jobs.
LEMMA StartKeeps ==
    ASSUME RunnerInv, Start
    PROVE  RunnerInv'
<1>1. /\ lock = Nobody /\ doc.state = "NONE" /\ doc' = [EmptyDoc EXCEPT !.state = "READY", !.jobs = Started]
      /\ UNCHANGED <<row, claims, month, leaseVars, lock, call, task, delivery, outside>>
  BY DEF Start, ledgerVars
<1>2. EmptyDoc.qa = [r \in Requests |-> "none"]
  BY DEF EmptyDoc
<1>3. /\ doc'.state = "READY" /\ doc'.jobs = Started /\ doc'.qa = [r \in Requests |-> "none"]
      /\ doc'.media = NoMedia /\ doc'.gates = NoGates /\ doc' \in Document
  BY <1>1, DocFacts, RunnerConstants DEF EmptyDoc, Document, States, Open
<1>4. doc.jobs = {} /\ doc.qa = [r \in Requests |-> "none"]
  BY <1>1, DocFacts DEF DocInv, Document
<1>5. ClaimsMove /\ RunnerTypeOK'
  BY <1>1, <1>3, DocFacts, DocTypes
<1>6. ASSUME NEW J \in SUBSET Requests, Tells(J) PROVE Tells(J)'
  <2>1. J = {} /\ Heroes = {}
    BY <1>4, <1>6 DEF Tells
  <2>2. ImagesOf(Started) = Started
    BY <2>1, RunnerConstants DEF Heroes, ImagesOf, ActiveOf
  <2> QED
    BY <1>3, <2>1, <2>2 DEF Tells
<1>7. NoGates["video"].approved = FALSE /\ NoGates["thumbnail"].approved = FALSE
  BY DEF NoGates, NoGate, Media
<1>8. upload'.calls = 0 /\ ~(upload'.calls > 0) /\ PublishedAsApproved'
  BY <1>1, Unpublished DEF outside
<1>9. DocInv' /\ GatesShowApprovedWork'
  BY <1>3, <1>7, <1>8 DEF DocInv, GatesShowApprovedWork, Open, Promoted, Media
<1>10. doc'.state \in Open /\ Nobody \notin Calls
  BY <1>3, RunnerConstants DEF Open
<1> QED
  BY <1>1, <1>3, <1>4, <1>5, <1>6, <1>8, <1>9, <1>10, DocSteps DEF leaseVars, outside

\* A new successor is an image no manifest so far has, and one that nothing replaces.
LEMMA SuccessorTells ==
    ASSUME RunnerInv, NEW r \in Requests, r \notin doc.jobs, Pred[r] \in doc.jobs,
           doc'.jobs = doc.jobs \cup {r}, NEW J \in SUBSET Requests, Tells(J)
    PROVE  Tells(J)'
<1>1. r \notin J /\ Category[r] # "hero"
  BY DEF Tells, Heroes
<1>2. \A s \in doc'.jobs \ Started : Pred[s] # r
  BY DocFacts DEF DocInv
<1>3. r \in ImagesOf(doc'.jobs)
  BY <1>1, <1>2 DEF ImagesOf, ActiveOf
<1> QED
  BY <1>1, <1>3 DEF Tells

\* A runner that may get a successor has not been published.
LEMMA SuccessorIsNew ==
    ASSUME RunnerInv, NEW r \in Requests, AddSuccessor(r)
    PROVE  /\ doc.jobs # Requests /\ Started \subseteq doc.jobs
           /\ doc.state \notin {"NONE", "PUBLISH_INTENT", "PUBLISHED"}
BY DocFacts DEF AddSuccessor, DocInv

\* add_successors() reopens the runner.
LEMMA AddSuccessorKeeps ==
    ASSUME RunnerInv, NEW r \in Requests, AddSuccessor(r)
    PROVE  RunnerInv'
<1>1. /\ lock = Nobody /\ doc.state \notin {"PUBLISH_INTENT", "PUBLISHED"} /\ doc' = WithSuccessor(r)
      /\ r \notin doc.jobs /\ Pred[r] \in doc.jobs
      /\ UNCHANGED <<row, claims, month, leaseVars, lock, call, task, delivery, outside>>
  BY DEF AddSuccessor, ledgerVars
<1>2. /\ doc'.state = "RUNNING" /\ doc'.jobs = doc.jobs \cup {r} /\ doc'.qa = doc.qa
      /\ doc'.media = NoMedia /\ doc'.gates = NoGates /\ doc' \in Document
  BY <1>1, DocFacts DEF WithSuccessor, Document, States, Open
<1>3. ClaimsMove /\ RunnerTypeOK'
  BY <1>1, <1>2, DocFacts, DocTypes
<1>4. \A J \in SUBSET Requests : Tells(J) => Tells(J)'
  BY <1>1, <1>2, SuccessorTells
<1>5. NoGates["video"].approved = FALSE /\ NoGates["thumbnail"].approved = FALSE
  BY DEF NoGates, NoGate, Media
<1>6. upload'.calls = 0 /\ ~(upload'.calls > 0) /\ PublishedAsApproved'
  BY <1>1, SuccessorIsNew, Unpublished DEF outside
<1>7. Started \subseteq doc'.jobs /\ \A s \in doc'.jobs \ Started : Pred[s] \in doc'.jobs
  BY <1>1, <1>2, SuccessorIsNew, DocFacts DEF DocInv
<1>8. DocInv' /\ GatesShowApprovedWork'
  BY <1>2, <1>5, <1>6, <1>7 DEF DocInv, GatesShowApprovedWork, Open, Promoted, Media
<1>9. doc'.state \in Open /\ Nobody \notin Calls
  BY <1>2, RunnerConstants DEF Open
<1> QED
  BY <1>1, <1>2, <1>3, <1>4, <1>6, <1>8, <1>9, DocSteps DEF leaseVars, outside

\* Steps that only change the state of runner.json: jobs, verdicts and media stay.
LEMMA SameWork ==
    ASSUME doc'.jobs = doc.jobs, NEW J \in SUBSET Requests, Tells(J)
    PROVE  Tells(J)'
BY DEF Tells

\* A reviewer decides on the staged bytes.
LEMMA HumanGateKeeps ==
    ASSUME RunnerInv, NEW k \in Media, NEW approved \in BOOLEAN, HumanGate(k, approved)
    PROVE  RunnerInv'
<1>1. /\ lock = Nobody /\ doc.state = Waits(k) /\ file[k] = doc.media[k]
      /\ doc' = [doc EXCEPT !.gates[k] = [seen |-> file[k], approved |-> approved],
                            !.state = IF ~approved THEN "REJECTED"
                                      ELSE IF k = "thumbnail" THEN Waits("video")
                                      ELSE "READY_TO_PUBLISH"]
      /\ UNCHANGED <<row, claims, month, leaseVars, lock, call, task, delivery, outside>>
  BY DEF HumanGate, GateBinds, ledgerVars
<1>2. /\ doc.state \in {"WAITING_THUMBNAIL_APPROVAL", "WAITING_VIDEO_APPROVAL"}
      /\ doc.state \in Promoted
  BY <1>1 DEF Waits, Promoted
<1>3. /\ doc' \in Document /\ doc'.jobs = doc.jobs /\ doc'.qa = doc.qa /\ doc'.media = doc.media
      /\ doc'.gates[k] = [seen |-> file[k], approved |-> approved]
      /\ \A j \in Media \ {k} : doc'.gates[j] = doc.gates[j]
      /\ doc'.state \in {"REJECTED", "WAITING_VIDEO_APPROVAL", "READY_TO_PUBLISH"}
  BY <1>1, DocFacts DEF Document, States, Promoted, Waits
<1>4. ClaimsMove /\ RunnerTypeOK'
  BY <1>1, <1>3, DocFacts, DocTypes
<1>5. upload'.calls = 0 /\ ~(upload'.calls > 0) /\ PublishedAsApproved'
  BY <1>1, <1>2, Unpublished DEF outside
<1>6. DocInv'
  BY <1>1, <1>2, <1>3, <1>5, DocFacts DEF DocInv, Open
<1>7. GatesShowApprovedWork'
  BY <1>2, <1>3, DocFacts DEF GatesShowApprovedWork, Active
<1>8. \A J \in SUBSET Requests : Tells(J) => Tells(J)'
  BY <1>3, SameWork
<1>9. /\ doc.state \notin Open \cup {"MEDIA_PENDING"} /\ doc'.state \notin Open \cup {"MEDIA_PENDING"}
      /\ Nobody \notin Calls
  BY <1>2, <1>3, RunnerConstants DEF Open
<1> QED
  BY <1>1, <1>3, <1>4, <1>5, <1>6, <1>7, <1>8, <1>9, DocSteps DEF leaseVars, outside

\* A resume without a lease rejects a staged runner whose approvals no longer hold.
LEMMA ResumeUnownedKeeps ==
    ASSUME RunnerInv, ResumeUnowned
    PROVE  RunnerInv'
<1>1. /\ lock = Nobody /\ doc.jobs = Requests /\ doc.media # NoMedia
      /\ doc' = [doc EXCEPT !.state = "REJECTED"]
      /\ UNCHANGED <<row, claims, month, leaseVars, lock, call, task, delivery, outside>>
  BY DEF ResumeUnowned, ledgerVars
<1>2. /\ doc.state \notin Open \cup {"NONE", "MEDIA_PENDING"}
  BY <1>1, DocFacts DEF DocInv
<1>3. /\ doc' \in Document /\ doc'.jobs = doc.jobs /\ doc'.qa = doc.qa /\ doc'.media = doc.media
      /\ doc'.gates = doc.gates /\ doc'.state = "REJECTED"
  BY <1>1, DocFacts DEF Document, States
<1>4. ClaimsMove /\ RunnerTypeOK'
  BY <1>1, <1>3, DocFacts, DocTypes
<1>5. DocInv'
  BY <1>1, <1>2, <1>3, DocFacts DEF DocInv, Open
<1>6. GatesShowApprovedWork' /\ PublishedAsApproved'
  BY <1>1, <1>3, DocFacts DEF GatesShowApprovedWork, PublishedAsApproved, Promoted, outside
<1>7. \A J \in SUBSET Requests : Tells(J) => Tells(J)'
  BY <1>3, SameWork
<1>8. doc'.state \notin Open \cup {"MEDIA_PENDING"} /\ Nobody \notin Calls
  BY <1>3, RunnerConstants DEF Open
<1> QED
  BY <1>1, <1>2, <1>3, <1>4, <1>5, <1>6, <1>7, <1>8, DocSteps DEF leaseVars, outside

\* The owner, on the lock, decides where the runner goes on: to its loop, to its
\* media, or to a rejection.
LEMMA OwnerDecides ==
    ASSUME RunnerInv, NEW c \in Calls, NEW s \in {"RUNNING", "REJECTED", "MEDIA_PENDING"}, Holds(c),
           doc.state \in Open \cup {"MEDIA_PENDING"}, doc' = [doc EXCEPT !.state = s],
           s = "MEDIA_PENDING" => \A r \in Active : doc.qa[r] = "pass",
           lock \in {Nobody, c}, lock' \in {Nobody, c}, ClaimsMove,
           task' \in [Calls -> [Requests -> TaskPCs]],
           \A d \in Calls, q \in Requests : task'[d][q] \in {task[d][q], "none"},
           call' \in [Calls -> Invocation], call'[c].tok = call[c].tok,
           \A d \in Calls \ {c} : call'[d] = call[d], call'[c].pc \notin {"thumbnail", "video"},
           CallInv(c)', StageInv(c)',
           UNCHANGED <<row, month, leaseVars, delivery, outside>>
    PROVE  RunnerInv'
<1>1. /\ doc' \in Document /\ doc'.jobs = doc.jobs /\ doc'.qa = doc.qa /\ doc'.media = doc.media
      /\ doc'.gates = doc.gates /\ doc'.state = s
  BY DocFacts DEF Document, States, Open, Promoted
<1>2. doc.media = NoMedia /\ doc.gates = NoGates
  BY DocFacts DEF DocInv
<1>3. lock' \in Calls \cup {Nobody} /\ call[c].pc \in FencedPCs
  BY DEF Holds
<1>4. RunnerTypeOK'
  BY <1>1, <1>3, DocTypes
<1>5. upload'.calls = 0 /\ ~(upload'.calls > 0) /\ PublishedAsApproved'
  BY Unpublished DEF outside, Open
<1>6. DocInv'
  BY <1>1, <1>2, <1>5, DocFacts DEF DocInv, Open
<1>7. \A k \in Media : NoMedia[k].made = "absent"
  BY DEF NoMedia, Absent
<1>8. GatesShowApprovedWork'
  BY <1>1, <1>2, <1>7 DEF GatesShowApprovedWork, Active, Promoted
<1>9. \A J \in SUBSET Requests : Tells(J) => Tells(J)'
  BY <1>1, SameWork
<1> QED
  BY <1>1, <1>3, <1>4, <1>5, <1>6, <1>8, <1>9, DocSteps DEF leaseVars, outside

\* A call that projects or ends is bound by no lock.
LEMMA SyncKeeps ==
    ASSUME NEW c \in Calls, call'[c].pc = "sync", call'[c].manifest = doc'.jobs
    PROVE  CallInv(c)' /\ StageInv(c)'
BY DEF CallInv, StageInv, RunnerPCs, StagePCs

\* resume_owned() takes the lock.
LEMMA EnterKeeps ==
    ASSUME RunnerInv, NEW c \in Calls, Enter(c)
    PROVE  RunnerInv'
<1>0. /\ call[c].pc = "queued" /\ lock = Nobody /\ c # Nobody /\ lock \in {Nobody, c}
      /\ UNCHANGED <<row, claims, month, leaseVars, task, delivery, outside>>
  BY RunnerConstants DEF Enter, ledgerVars
<1>1. CASE Goto(c, "ending") /\ UNCHANGED <<doc, lock>>
  BY <1>0, <1>1, MovesToEnd DEF stores
<1>2. ASSUME Owns(c)
      PROVE  /\ Holds(c) /\ doc.state \in Open \cup {"MEDIA_PENDING"}
             /\ \A r \in Requests : task[c][r] = "none"
  <2>1. Holds(c)
    BY <1>0, <1>2, OwnerHolds DEF FencedPCs
  <2> QED
    BY <1>0, <2>1, CallFacts DEF CallInv
<1>3. /\ ClaimsMove /\ task' \in [Calls -> [Requests -> TaskPCs]]
      /\ \A d \in Calls, q \in Requests : task'[d][q] \in {task[d][q], "none"}
  BY <1>0, CallFacts
<1>4. CASE /\ Owns(c) /\ doc' = [doc EXCEPT !.state = "RUNNING"] /\ lock' = c /\ Goto(c, "loop")
  <2>1. /\ call' \in [Calls -> Invocation] /\ call'[c].pc = "loop" /\ call'[c].tok = call[c].tok
        /\ \A d \in Calls \ {c} : call'[d] = call[d]
    BY <1>4, CallFacts, GotoFacts DEF CallPCs, RunnerPCs
  <2>2. doc'.state = "RUNNING"
    BY <1>4, CallFacts DEF Document
  <2>3. CallInv(c)' /\ StageInv(c)'
    BY <1>0, <1>2, <1>4, <2>1, <2>2 DEF CallInv, StageInv, StagePCs
  <2> QED
    BY <1>0, <1>2, <1>3, <1>4, <2>1, <2>3, OwnerDecides
<1>5. CASE /\ Owns(c) /\ doc.state \notin Open /\ UNCHANGED lock /\ StaleQa
           /\ doc' = [doc EXCEPT !.state = "REJECTED"]
           /\ call' = [call EXCEPT ![c].pc = "ending", ![c].manifest = doc.jobs]
  <2>1. /\ call' \in [Calls -> Invocation] /\ call'[c].pc = "ending" /\ call'[c].tok = call[c].tok
        /\ \A d \in Calls \ {c} : call'[d] = call[d]
    BY <1>5, CallFacts DEF Invocation, CallPCs, Document
  <2>2. CallInv(c)' /\ StageInv(c)'
    BY <2>1, EndedKeeps
  <2> QED
    BY <1>0, <1>2, <1>3, <1>5, <2>1, <2>2, OwnerDecides
<1>6. CASE /\ Owns(c) /\ doc.state \notin Open /\ UNCHANGED lock /\ ~StaleQa /\ doc' = doc
           /\ call' = [call EXCEPT ![c].pc = "sync", ![c].manifest = doc.jobs]
  <2>1. /\ call' \in [Calls -> Invocation] /\ call'[c].pc = "sync" /\ call'[c].tok = call[c].tok
        /\ call'[c].manifest = doc'.jobs /\ \A d \in Calls \ {c} : call'[d] = call[d]
    BY <1>6, CallFacts DEF Invocation, CallPCs, Document
  <2>2. CallInv(c)' /\ StageInv(c)'
    BY <2>1, SyncKeeps
  <2>3. doc.state = "MEDIA_PENDING" /\ \A r \in Active : doc.qa[r] = "pass"
    BY <1>2, <1>6, DocFacts DEF GatesShowApprovedWork, Promoted
  <2>4. doc' = [doc EXCEPT !.state = "MEDIA_PENDING"]
    BY <1>6, <2>3, CallFacts DEF Document
  <2> QED
    BY <1>0, <1>2, <1>3, <1>6, <2>1, <2>2, <2>3, <2>4, OwnerDecides
<1>7. \/ Goto(c, "ending") /\ UNCHANGED <<doc, lock>>
      \/ Owns(c) /\ doc' = [doc EXCEPT !.state = "RUNNING"] /\ lock' = c /\ Goto(c, "loop")
      \/ /\ Owns(c) /\ doc.state \notin Open /\ UNCHANGED lock
         /\ doc' = IF StaleQa THEN [doc EXCEPT !.state = "REJECTED"] ELSE doc
         /\ call' = [call EXCEPT ![c].pc = IF StaleQa THEN "ending" ELSE "sync",
                                 ![c].manifest = doc.jobs]
  BY DEF Enter
<1> QED
  BY <1>1, <1>4, <1>5, <1>6, <1>7

\* The loop of a call is on the lock of a running runner.
LEMMA LoopFacts ==
    ASSUME RunnerInv, NEW c \in Calls, call[c].pc = "loop"
    PROVE  /\ lock = c /\ doc.state = "RUNNING" /\ doc.state \in Open
           /\ Owns(c) => Holds(c)
<1>1. "loop" \in RunnerPCs /\ "loop" \in FencedPCs
  BY DEF RunnerPCs, FencedPCs
<1> QED
  BY <1>1, CallFacts, OwnerHolds DEF CallInv, Open

\* A stale approval ends the loop.
LEMMA LoopStaleKeeps ==
    ASSUME RunnerInv, NEW c \in Calls, LoopStale(c)
    PROVE  RunnerInv'
<1>0. /\ call[c].pc = "loop" /\ Raise(c) /\ UNCHANGED <<row, month, leaseVars, delivery, outside>>
      /\ doc' = IF Owns(c) THEN [doc EXCEPT !.state = "REJECTED"] ELSE doc
  BY DEF LoopStale
<1>1. CASE doc' = doc
  BY <1>0, <1>1, RaiseKeeps
<1>2. CASE Owns(c) /\ doc' = [doc EXCEPT !.state = "REJECTED"]
  <2>1. /\ ClaimsMove /\ task' \in [Calls -> [Requests -> TaskPCs]]
        /\ \A d \in Calls, q \in Requests : task'[d][q] \in {task[d][q], "none"}
    BY <1>0, AbandonFacts DEF Raise, RunnerInv
  <2>2. Goto(c, "ending") /\ lock' = IF lock = c THEN Nobody ELSE lock
    BY <1>0 DEF Raise, Leave
  <2>3. /\ call' \in [Calls -> Invocation] /\ call'[c].pc = "ending" /\ call'[c].tok = call[c].tok
        /\ \A d \in Calls \ {c} : call'[d] = call[d]
    BY <2>2, CallFacts, GotoFacts DEF CallPCs
  <2>4. CallInv(c)' /\ StageInv(c)'
    BY <2>3, EndedKeeps
  <2>5. lock = c /\ Holds(c) /\ doc.state \in Open \cup {"MEDIA_PENDING"}
    BY <1>0, <1>2, LoopFacts
  <2> QED
    BY <1>0, <1>2, <2>1, <2>2, <2>3, <2>4, <2>5, OwnerDecides
<1> QED
  BY <1>0, <1>1, <1>2

\* The loop saves its decision and returns.
LEMMA ReturnKeeps ==
    ASSUME RunnerInv, NEW c \in Calls, NEW s \in {"REJECTED", "MEDIA_PENDING"},
           call[c].pc = "loop", Return(c, s), UNCHANGED <<row, month, leaseVars, delivery, outside>>,
           s = "MEDIA_PENDING" => \A r \in Active : doc.qa[r] = "pass"
    PROVE  RunnerInv'
<1>1. CASE /\ Owns(c) /\ doc' = [doc EXCEPT !.state = s] /\ lock' = Nobody /\ UNCHANGED <<claims, task>>
           /\ call' = [call EXCEPT ![c].pc = "sync", ![c].manifest = doc.jobs]
  <2>1. doc'.jobs = doc.jobs
    BY <1>1, CallFacts DEF Document
  <2>2. /\ call' \in [Calls -> Invocation] /\ call'[c].pc = "sync" /\ call'[c].tok = call[c].tok
        /\ call'[c].manifest = doc'.jobs /\ \A d \in Calls \ {c} : call'[d] = call[d]
    BY <1>1, <2>1, CallFacts DEF Invocation, CallPCs, Document
  <2>3. CallInv(c)' /\ StageInv(c)'
    BY <2>2, SyncKeeps
  <2>4. lock = c /\ Holds(c) /\ doc.state \in Open \cup {"MEDIA_PENDING"}
    BY <1>1, LoopFacts
  <2>5. /\ ClaimsMove /\ task' \in [Calls -> [Requests -> TaskPCs]]
        /\ \A d \in Calls, q \in Requests : task'[d][q] \in {task[d][q], "none"}
    BY <1>1, CallFacts
  <2> QED
    BY <1>1, <2>2, <2>3, <2>4, <2>5, OwnerDecides
<1>2. CASE Raise(c) /\ UNCHANGED doc
  BY <1>2, RaiseKeeps
<1> QED
  BY <1>1, <1>2 DEF Return

\* The loop returns: a job was rejected, or every job is finished.
LEMMA LoopReturnsKeeps ==
    ASSUME RunnerInv, NEW c \in Calls, LoopReturns(c)
    PROVE  RunnerInv'
<1>0. call[c].pc = "loop" /\ UNCHANGED <<row, month, leaseVars, delivery, outside>>
  BY DEF LoopReturns
<1>1. CASE Return(c, "REJECTED")
  BY <1>0, <1>1, ReturnKeeps
<1>2. CASE ~Rejected(c) /\ Finished(c) /\ Return(c, "MEDIA_PENDING")
  <2>1. ASSUME NEW r \in Active PROVE doc.qa[r] = "pass"
    <3>1. r \in doc.jobs /\ r \in Requests /\ doc.qa[r] \in Verdicts \cup {"none"}
      BY DocFacts DEF Active, ActiveOf, Document
    <3>2. doc.qa[r] # "none" /\ doc.qa[r] \notin Rejections
      BY <1>2, <3>1 DEF Finished, Pending, Rejected
    <3> QED
      BY <3>1, <3>2 DEF Verdicts, Rejections
  <2> QED
    BY <1>0, <1>2, <2>1, ReturnKeeps
<1> QED
  BY <1>1, <1>2, Zenon DEF LoopReturns

\* stage_delivery_owned() opens the first gate on the files that are there.
LEMMA StageDeliversKeeps ==
    ASSUME RunnerInv, NEW c \in Calls, StageDelivers(c)
    PROVE  RunnerInv'
<1>0. /\ call[c].pc = "deliver" /\ lock = Nobody /\ Goto(c, "ending")
      /\ UNCHANGED <<row, claims, month, leaseVars, lock, task, delivery, outside>>
  BY DEF StageDelivers, ledgerVars
<1>1. CASE doc' = doc
  BY <1>0, <1>1, MovesToEnd DEF stores
<1>2. CASE /\ MayDeliver(c)
           /\ doc' = [doc EXCEPT !.media = file, !.state = "WAITING_THUMBNAIL_APPROVAL"]
  <2>1. Holds(c) /\ doc.state = "MEDIA_PENDING" /\ \A r \in Active : doc.qa[r] = "pass"
    BY <1>0, <1>2, OwnerHolds DEF MayDeliver, Stageable, FencedPCs, StagePCs
  <2>2. MadeFrom(doc.jobs)
    BY <1>0, <2>1, CallFacts DEF StageInv
  <2>3. /\ doc' \in Document /\ doc'.jobs = doc.jobs /\ doc'.qa = doc.qa /\ doc'.media = file
        /\ doc'.gates = doc.gates /\ doc'.state = "WAITING_THUMBNAIL_APPROVAL"
    BY <1>2, DocFacts DEF Document, States, Promoted
  <2>4. /\ call' \in [Calls -> Invocation] /\ call'[c].pc = "ending" /\ call'[c].tok = call[c].tok
        /\ \A d \in Calls \ {c} : call'[d] = call[d]
    BY <1>0, CallFacts, GotoFacts DEF CallPCs
  <2>5. CallInv(c)' /\ StageInv(c)' /\ call[c].pc \in FencedPCs
    BY <1>0, <2>4, EndedKeeps DEF FencedPCs, StagePCs
  <2>6. ClaimsMove /\ RunnerTypeOK'
    BY <1>0, <2>3, <2>4, DocFacts, DocTypes
  <2>7. upload'.calls = 0 /\ ~(upload'.calls > 0) /\ PublishedAsApproved'
    BY <1>0, <2>1, Unpublished DEF outside
  <2>8. \A k \in Media : ~doc.gates[k].approved
    BY <2>1, DocFacts DEF DocInv, NoGates, NoGate
  <2>9. DocInv'
    BY <2>1, <2>3, <2>7, <2>8, DocFacts DEF DocInv, Open
  <2>10. GatesShowApprovedWork'
    BY <2>1, <2>2, <2>3 DEF GatesShowApprovedWork, MadeFrom, Active
  <2>11. \A J \in SUBSET Requests : Tells(J) => Tells(J)'
    BY <2>3, SameWork
  <2> QED
    BY <1>0, <2>1, <2>3, <2>4, <2>5, <2>6, <2>7, <2>9, <2>10, <2>11, DocSteps DEF leaseVars, outside
<1> QED
  BY <1>1, <1>2 DEF StageDelivers

\* publish() writes its intent behind both gates.
LEMMA PublishKeeps ==
    ASSUME RunnerInv, NEW c \in Calls, Publish(c)
    PROVE  RunnerInv'
<1>0. /\ lock = Nobody /\ doc.state = "READY_TO_PUBLISH" /\ lock' = c /\ Goto(c, "intent")
      /\ \A k \in Media : doc.gates[k].approved
      /\ doc' = [doc EXCEPT !.state = "PUBLISH_INTENT"]
      /\ UNCHANGED <<row, claims, month, leaseVars, task, delivery, outside>>
  BY DEF Publish, ledgerVars
<1>1. /\ doc' \in Document /\ doc'.jobs = doc.jobs /\ doc'.qa = doc.qa /\ doc'.media = doc.media
      /\ doc'.gates = doc.gates /\ doc'.state = "PUBLISH_INTENT"
  BY <1>0, DocFacts DEF Document, States, Promoted
<1>2. /\ call' \in [Calls -> Invocation] /\ call'[c].pc = "intent" /\ call'[c].tok = call[c].tok
      /\ \A d \in Calls \ {c} : call'[d] = call[d]
  BY <1>0, CallFacts, GotoFacts DEF CallPCs
<1>3. ClaimsMove /\ RunnerTypeOK'
  BY <1>0, <1>1, <1>2, DocFacts, DocTypes
<1>4. upload'.calls = 0 /\ ~(upload'.calls > 0) /\ PublishedAsApproved'
  BY <1>0, Unpublished DEF outside
<1>5. CallInv(c)' /\ StageInv(c)' /\ call'[c].pc \notin FencedPCs
  BY <1>0, <1>1, <1>2, <1>4 DEF CallInv, StageInv, RunnerPCs, StagePCs, FencedPCs
<1>6. DocInv'
  BY <1>0, <1>1, <1>4, DocFacts DEF DocInv, Open
<1>7. GatesShowApprovedWork'
  BY <1>0, <1>1, DocFacts DEF GatesShowApprovedWork, Active, Promoted
<1>8. \A J \in SUBSET Requests : Tells(J) => Tells(J)'
  BY <1>1, SameWork
<1>9. doc.state \notin Open \cup {"MEDIA_PENDING"} /\ doc'.state \notin Open \cup {"MEDIA_PENDING"}
  BY <1>0, <1>1 DEF Open
<1>10. \A d \in Calls, q \in Requests : task'[d][q] \in {task[d][q], "none"}
  BY <1>0
<1> QED
  BY <1>0, <1>1, <1>2, <1>3, <1>4, <1>5, <1>6, <1>7, <1>8, <1>9, <1>10, DocSteps DEF leaseVars, outside

\* The publisher's answer is recorded.
LEMMA PublishedKeeps ==
    ASSUME RunnerInv, NEW c \in Calls, Published(c)
    PROVE  RunnerInv'
<1>0. /\ call[c].pc = "uploaded" /\ Goto(c, "idle") /\ lock' = IF lock = c THEN Nobody ELSE lock
      /\ doc' = [doc EXCEPT !.state = "PUBLISHED"]
      /\ UNCHANGED <<row, claims, month, leaseVars, task, delivery, outside>>
  BY DEF Published, Leave, ledgerVars
<1>1. lock = c /\ doc.state = "PUBLISH_INTENT" /\ lock' \in Calls \cup {Nobody}
  BY <1>0, CallFacts DEF CallInv
<1>2. /\ doc' \in Document /\ doc'.jobs = doc.jobs /\ doc'.qa = doc.qa /\ doc'.media = doc.media
      /\ doc'.gates = doc.gates /\ doc'.state = "PUBLISHED"
  BY <1>0, DocFacts DEF Document, States, Promoted
<1>3. /\ call' \in [Calls -> Invocation] /\ call'[c].pc = "idle" /\ call'[c].tok = call[c].tok
      /\ \A d \in Calls \ {c} : call'[d] = call[d]
  BY <1>0, CallFacts, GotoFacts DEF CallPCs
<1>4. ClaimsMove /\ RunnerTypeOK'
  BY <1>0, <1>1, <1>2, <1>3, DocFacts, DocTypes
<1>5. CallInv(c)' /\ StageInv(c)' /\ call'[c].pc \notin FencedPCs
  BY <1>3, EndedKeeps DEF RunnerPCs, StagePCs, FencedPCs
<1>6. DocInv'
  BY <1>0, <1>1, <1>2, DocFacts DEF DocInv, Open, outside
<1>7. GatesShowApprovedWork' /\ PublishedAsApproved'
  BY <1>0, <1>1, <1>2, DocFacts DEF GatesShowApprovedWork, PublishedAsApproved, Active, Promoted, outside
<1>8. \A J \in SUBSET Requests : Tells(J) => Tells(J)'
  BY <1>2, SameWork
<1>9. doc.state \notin Open \cup {"MEDIA_PENDING"} /\ doc'.state \notin Open \cup {"MEDIA_PENDING"}
  BY <1>1, <1>2 DEF Open
<1>10. \A d \in Calls, q \in Requests : task'[d][q] \in {task[d][q], "none"}
  BY <1>0
<1> QED
  BY <1>0, <1>1, <1>2, <1>3, <1>4, <1>5, <1>6, <1>7, <1>8, <1>9, <1>10, DocSteps DEF leaseVars, outside

\* The publisher is asked, for the first time and with what both gates have seen.
LEMMA UploadsKeeps ==
    ASSUME RunnerInv, NEW c \in Calls, Uploads(c)
    PROVE  RunnerInv'
<1>0. /\ call[c].pc = "intent"
      /\ upload' = [calls |-> upload.calls + 1, package |-> [k \in Media |-> doc.gates[k].seen]]
      /\ UNCHANGED <<doc, row, claims, month, leaseVars, task, delivery, spoiled, posts>>
  BY DEF Uploads, stores
<1>1. PICK p \in {"uploaded", "idle"} :
          /\ Goto(c, p) /\ faults' \in 0..MaxFaults
          /\ p = "uploaded" => lock' = lock
          /\ lock' \in {lock, Nobody}
  <2>1. CASE Goto(c, "uploaded") /\ UNCHANGED <<lock, faults>>
    BY <2>1, CallFacts
  <2>2. CASE Leave(c, "idle") /\ Fault
    BY <2>2, CallFacts DEF Leave
  <2> QED
    BY <2>1, <2>2 DEF Uploads
<1>2. lock = c /\ doc.state = "PUBLISH_INTENT" /\ upload.calls = 0
  BY <1>0, CallFacts DEF CallInv
<1>3. /\ call' \in [Calls -> Invocation] /\ call'[c].pc = p /\ call'[c].tok = call[c].tok
      /\ \A d \in Calls \ {c} : call'[d] = call[d]
  BY <1>1, CallFacts, GotoFacts DEF CallPCs
<1>4. /\ upload'.calls = 1 /\ \A k \in Media : upload'.package[k] = doc.gates[k].seen
      /\ upload' \in [calls : Nat, package : [Media -> Version]]
  BY <1>0, <1>2, DocFacts DEF Document
<1>5. RunnerTypeOK'
  BY <1>0, <1>1, <1>3, <1>4, CallFacts
     DEF RunnerTypeOK, LedgerTypeOK, Lease!FencedTypeOK, leaseVars, delivery
<1>6. ClaimsMove
  BY <1>0, CallFacts
<1>7. \A q \in Requests : JobInv(q)'
  BY <1>0, <1>6, JobKeeps DEF RunnerInv, DepsPassed
<1>8. p \notin FencedPCs /\ p \notin {"thumbnail", "video"}
  BY <1>1 DEF FencedPCs, RunnerPCs, StagePCs
<1>9. TokensFresh'
  BY <1>0, <1>3, <1>8 DEF RunnerInv, TokensFresh, leaseVars
<1>10. CallInv(c)' /\ StageInv(c)'
  BY <1>0, <1>1, <1>2, <1>3 DEF CallInv, StageInv, RunnerPCs, StagePCs
<1>11. ASSUME NEW d \in Calls, d # c PROVE CallInv(d)' /\ StageInv(d)'
  <2>1. call[d].pc # "intent" /\ CallInv(d) /\ StageInv(d) /\ lock # d
    BY <1>2, <1>11 DEF RunnerInv, CallInv
  <2>2. CallInv(d)'
    BY <1>0, <1>3, <1>6, <1>11, <2>1, CallFacts, CallStays DEF leaseVars
  <2>3. StageInv(d)'
    BY <1>0, <1>3, <1>8, <1>11, <2>1, StageStays DEF leaseVars, delivery
  <2> QED
    BY <2>2, <2>3
<1>12. DocInv' /\ PublishedAsApproved'
  <2>1. \A k \in Media : /\ doc.gates[k].approved /\ doc.gates[k].seen = doc.media[k]
                         /\ doc.gates[k] \in [seen : Version, approved : BOOLEAN]
    BY <1>2, DocFacts DEF DocInv, Document
  <2>2. \A k \in Media : doc.gates[k] = [seen |-> doc.gates[k].seen, approved |-> TRUE]
    BY <2>1
  <2>3. DocInv'
    BY <1>0, <1>2, DocFacts DEF DocInv
  <2> QED
    BY <1>0, <1>4, <2>1, <2>2, <2>3 DEF PublishedAsApproved
<1>13. GatesShowApprovedWork' /\ EvidenceInv'
  BY <1>0 DEF RunnerInv, GatesShowApprovedWork, EvidenceInv, Tells, MadeFrom, Active, delivery
<1> QED
  BY <1>5, <1>7, <1>9, <1>10, <1>11, <1>12, <1>13 DEF RunnerInv

\* A worker leases the episode: its token is new, so no earlier call owns it any more.
LEMMA BeginKeeps ==
    ASSUME RunnerInv, NEW c \in Calls, Begin(c)
    PROVE  RunnerInv'
<1> DEFINE n == last[Episode] + 1
<1>0. /\ call[c].pc = "idle" /\ task[c] = NoTasks /\ doc.state \in Open \cup {"MEDIA_PENDING"}
      /\ Lease!Grant(Episode) /\ call' = [call EXCEPT ![c].pc = "queued", ![c].tok = n]
      /\ UNCHANGED <<doc, row, claims, month, lock, task, delivery, outside>>
  BY DEF Begin, stores
<1>1. /\ last[Episode] \in Nat /\ n \in Nat /\ n # 0 /\ n > last[Episode]
      /\ last' \in [Episodes -> Nat] /\ last'[Episode] = n
      /\ token' \in [Episodes -> Nat] /\ token'[Episode] = n /\ live' \subseteq Episodes
  BY <1>0, CallFacts, RunnerConstants DEF Lease!Grant
<1>2. /\ call' \in [Calls -> Invocation] /\ call'[c].pc = "queued" /\ call'[c].tok = n
      /\ \A d \in Calls \ {c} : call'[d] = call[d]
  BY <1>0, <1>1, CallFacts DEF Invocation, CallPCs
<1> HIDE DEF n
<1>3. RunnerTypeOK'
  BY <1>0, <1>1, <1>2, CallFacts
     DEF RunnerTypeOK, LedgerTypeOK, Lease!FencedTypeOK, delivery, outside
<1>4. ClaimsMove
  BY <1>0, CallFacts
<1>5. \A q \in Requests : JobInv(q)'
  BY <1>0, <1>4, JobKeeps DEF RunnerInv, DepsPassed, outside
<1>6. \A d \in Calls : call[d].tok \in Nat /\ call[d].tok <= last[Episode]
  BY CallFacts DEF TokensFresh, Invocation
<1>7. TokensFresh'
  <2>1. \A d \in Calls : call'[d].tok <= last'[Episode]
    BY <1>1, <1>2, <1>6
  <2>2. \A d \in Calls : call'[d].pc \in FencedPCs => call'[d].tok # 0
    BY <1>1, <1>2, CallFacts DEF TokensFresh
  <2>3. ASSUME NEW d \in Calls, NEW e \in Calls, d # e, call'[d].tok = call'[e].tok
        PROVE  call'[d].tok = 0
    <3>1. d # c /\ e # c
      BY <1>1, <1>2, <1>6, <2>3
    <3> QED
      BY <1>2, <2>3, <3>1, CallFacts DEF TokensFresh
  <2> QED
    BY <1>1, <2>1, <2>2, <2>3 DEF TokensFresh
<1>8. CallInv(c)' /\ StageInv(c)'
  <2>1. \A r \in Requests : task'[c][r] = "none"
    BY <1>0 DEF NoTasks
  <2> QED
    BY <1>0, <1>2, <2>1 DEF CallInv, StageInv, RunnerPCs, StagePCs
<1>9. ASSUME NEW d \in Calls, d # c PROVE CallInv(d)' /\ StageInv(d)'
  <2>1. CallInv(d) /\ StageInv(d) /\ token'[Episode] # call[d].tok
    BY <1>1, <1>6 DEF RunnerInv
  <2>2. CallInv(d)'
    BY <1>0, <1>2, <1>4, <1>9, <2>1, CallFacts, CallStays DEF outside
  <2>3. StageInv(d)'
    BY <1>0, <1>2, <1>9, <2>1, StageStays DEF delivery
  <2> QED
    BY <2>2, <2>3
<1>10. DocInv' /\ GatesShowApprovedWork' /\ EvidenceInv' /\ PublishedAsApproved'
  BY <1>0 DEF RunnerInv, DocInv, GatesShowApprovedWork, EvidenceInv, PublishedAsApproved, Tells,
              MadeFrom, Active, delivery, outside
<1> QED
  BY <1>3, <1>5, <1>7, <1>8, <1>9, <1>10 DEF RunnerInv

-----------------------------------------------------------------------------
(* Every step keeps the invariant *)

\* Every step of one call keeps the invariant.
LEMMA CallNextKeeps ==
    ASSUME RunnerInv, NEW c \in Calls, CallNext(c)
    PROVE  RunnerInv'
<1>1. CASE Enter(c) \/ LoopStale(c) \/ LoopReturns(c) \/ LoopDispatches(c) \/ Record(c)
  BY <1>1, EnterKeeps, LoopStaleKeeps, LoopReturnsKeeps, LoopDispatchesKeeps, RecordKeeps
<1>2. CASE \E r \in Requests : Collect(c, r)
  BY <1>2, CollectKeeps
<1>3. CASE SyncQa(c) \/ StageBegins(c) \/ StageVideo(c) \/ StageEvidence(c) \/ StageJudged(c)
  BY <1>3, SyncQaKeeps, StageBeginsKeeps, StageVideoKeeps, StageEvidenceKeeps, StageJudgedKeeps
<1>4. CASE StageDelivers(c) \/ End(c) \/ Uploads(c) \/ Published(c)
  BY <1>4, StageDeliversKeeps, EndKeeps, UploadsKeeps, PublishedKeeps
<1> QED
  BY <1>1, <1>2, <1>3, <1>4 DEF CallNext

\* Every step of the system keeps the invariant.
LEMMA RunnerNextKeeps ==
    ASSUME RunnerInv, [RunnerNext]_vars
    PROVE  RunnerInv'
<1>1. CASE Start \/ ResumeUnowned \/ LeaseExpires
  BY <1>1, StartKeeps, ResumeUnownedKeeps, LeaseExpiresKeeps
<1>2. CASE \E r \in Requests : AddSuccessor(r) \/ Spoil(r) \/ SettleBill(r)
  BY <1>2, AddSuccessorKeeps, SpoilKeeps, SettleBillKeeps
<1>3. CASE \E c \in Calls : Begin(c) \/ CallNext(c) \/ Publish(c) \/ LoopCloses(c) \/ Crash(c)
  BY <1>3, BeginKeeps, CallNextKeeps, PublishKeeps, LoopClosesKeeps, CrashKeeps
<1>4. CASE \E c \in Calls, r \in Requests : TaskNext(c, r) \/ ProviderFails(c, r)
  BY <1>4, TaskNextKeeps, ProviderFailsKeeps
<1>5. CASE \E k \in Media : Replace(k) \/ \E approved \in BOOLEAN : HumanGate(k, approved)
  BY <1>5, ReplaceKeeps, HumanGateKeeps
<1>6. CASE UNCHANGED vars
  <2>1. LedgerTypeOK
    BY DEF RunnerInv, RunnerTypeOK
  <2>2. RunnerTypeOK'
    BY <1>6 DEF RunnerInv, RunnerTypeOK, LedgerTypeOK, Lease!FencedTypeOK, vars, ledgerVars, leaseVars,
                outside
  <2> QED
    BY <1>6, <2>1, <2>2, ClaimsSame, StillKeeps DEF vars, ledgerVars, leaseVars, outside, delivery
<1> QED
  BY <1>1, <1>2, <1>3, <1>4, <1>5, <1>6 DEF RunnerNext

\* Nothing is bound, claimed or leased at first.
LEMMA RunnerInitKeeps ==
    ASSUME RunnerInit
    PROVE  RunnerInv
<1>1. /\ doc.state = "NONE" /\ doc.jobs = {} /\ doc.qa = [r \in Requests |-> "none"]
      /\ doc.media = NoMedia /\ doc.gates = NoGates /\ doc \in Document
  <2>1. Absent \in Version
    BY DEF Absent, Version
  <2> QED
    BY <2>1 DEF RunnerInit, EmptyDoc, Document, States, Open, NoMedia, NoGates, NoGate
<1>2. (CHOOSE r \in Requests : TRUE) \in Requests
  BY RunnerConstants
<1>3. /\ call \in [Calls -> Invocation] /\ \A c \in Calls : call[c].pc = "idle" /\ call[c].tok = 0
  BY <1>2 DEF RunnerInit, NoCall, Invocation, CallPCs
<1>4. /\ task \in [Calls -> [Requests -> TaskPCs]]
      /\ \A c \in Calls, r \in Requests : task[c][r] = "none"
  BY DEF RunnerInit, NoTasks, TaskPCs
<1>5. /\ row \in [Requests -> JobRow] /\ \A r \in Requests : row[r].status = "NONE"
  BY DEF RunnerInit, NoRow, JobRow
<1>6. LedgerTypeOK
  BY NoClaimType, LedgerConstants DEF RunnerInit, LedgerInit, LedgerTypeOK
<1>7. /\ file \in [Media -> Version] /\ evidence \in [manifest : SUBSET Requests, media : [Media -> Version]]
      /\ upload \in [calls : Nat, package : [Media -> Version]]
  BY DEF RunnerInit, NoMedia, NoEvidence, Absent, Version
<1>8. Lease!FencedTypeOK /\ token[Episode] = 0 /\ last[Episode] = 0
  BY RunnerConstants DEF RunnerInit, Lease!FencedInit, Lease!FencedTypeOK
<1>9. RunnerTypeOK
  BY <1>1, <1>3, <1>4, <1>5, <1>6, <1>7, <1>8, RunnerConstants DEF RunnerInit, RunnerTypeOK
<1>10. \A r \in Requests : JobInv(r)
  BY <1>1, <1>4, <1>5 DEF RunnerInit, JobInv, TaskFits, Sent, RunPCs, Verdicts
<1>11. \A c \in Calls : CallInv(c) /\ StageInv(c)
  BY <1>3 DEF CallInv, StageInv, RunnerPCs, StagePCs
<1>12. TokensFresh
  BY <1>3, <1>8 DEF TokensFresh, FencedPCs, RunnerPCs, StagePCs
<1>13. ~(upload.calls > 0)
  BY DEF RunnerInit
<1>14. DocInv
  BY <1>1, <1>13 DEF DocInv, NoGates, NoGate
<1>15. EvidenceInv /\ GatesShowApprovedWork /\ PublishedAsApproved
  BY <1>1, <1>13 DEF RunnerInit, EvidenceInv, GatesShowApprovedWork, Promoted, PublishedAsApproved
<1> QED
  BY <1>9, <1>10, <1>11, <1>12, <1>14, <1>15 DEF RunnerInv

\* The runner's invariant, for every manifest, window, schedule and fault.
THEOREM RunnerInvariant == RunnerSpec => []RunnerInv
BY RunnerInitKeeps, RunnerNextKeeps, PTL DEF RunnerSpec

\* A provider is asked for a job at most once, for a claim the ledger has and
\* behind dependencies that runner.json and the executor both approved, whatever
\* crashes, races or is left behind (complete_one, Executor.run).
THEOREM RunnerPostsOnce == RunnerSpec => []PostedOnceAndCovered
<1>1. RunnerInv => PostedOnceAndCovered
  BY RunnerConstants DEF RunnerInv, PostedOnceAndCovered, JobInv, DepsPassed
<1> QED
  BY <1>1, RunnerInvariant, PTL

\* Every verdict in runner.json is on a finished job with an open or settled
\* bill, and the executor agrees with every approval (complete_one, executor.qa).
THEOREM RunnerVerdictsHaveReceipts == RunnerSpec => []VerdictsHaveReceipts
<1>1. RunnerInv => VerdictsHaveReceipts
  BY DEF RunnerInv, VerdictsHaveReceipts, JobInv, Liable
<1> QED
  BY <1>1, RunnerInvariant, PTL

\* Past production every active job is approved, and reviewers are shown media
\* rendered from exactly those jobs, or replaced bytes (_stage_delivery).
THEOREM RunnerShowsApprovedWork == RunnerSpec => []GatesShowApprovedWork
<1>1. RunnerInv => GatesShowApprovedWork
  BY DEF RunnerInv
<1> QED
  BY <1>1, RunnerInvariant, PTL

\* The publisher is called at most once, with the staged bytes that both
\* reviewers approved (_publish, PUBLISH_INTENT).
THEOREM RunnerPublishesApproved == RunnerSpec => []PublishedAsApproved
<1>1. RunnerInv => PublishedAsApproved
  BY DEF RunnerInv
<1> QED
  BY <1>1, RunnerInvariant, PTL

-----------------------------------------------------------------------------
(* Verdicts and the decision to publish are final *)

\* A step takes back no verdict, and no decision to publish unless the bytes behind
\* an approval changed; a published runner stays rejected.
Decided ==
    /\ \A r \in Requests : /\ doc.qa[r] # "none" => doc'.qa[r] = doc.qa[r]
                           /\ row[r].qa # "none" => row'[r].qa = row[r].qa
    /\ doc.state \in {"PUBLISH_INTENT", "PUBLISHED"} =>
          doc'.state \in {doc.state, "PUBLISHED"} \/ (doc'.state = "REJECTED" /\ StaleQa)
    /\ upload.calls > 0 /\ doc.state = "REJECTED" => doc'.state = "REJECTED"

\* Tasks write the status of their row, never its verdict.
LEMMA TasksDecide ==
    ASSUME RunnerInv, NEW c \in Calls, NEW r \in Requests, TaskNext(c, r) \/ ProviderFails(c, r)
    PROVE  Decided
<1>1. doc' = doc
  BY DEF TaskNext, TaskBegins, TaskPrepares, TaskReserves, TaskSlots, TaskRuns, TaskPosts,
         TaskCheckpoints, TaskBinds, TaskAnswers, TaskVerifies, TaskJudged, OrphanEnds, ProviderFails, stores
<1>2. \/ row' = row
      \/ \E s \in {"INTENT", "PREPARED", "SUBMITTING", "COMPLETE", "OVERRUN"} :
            row' = [row EXCEPT ![r].status = s]
      \/ row' = [row EXCEPT ![r].status = "SUBMITTED", ![r].pid = TRUE]
  BY DEF TaskNext, TaskBegins, TaskPrepares, TaskReserves, TaskSlots, TaskRuns, TaskPosts,
         TaskCheckpoints, TaskBinds, TaskAnswers, TaskVerifies, TaskJudged, OrphanEnds, ProviderFails, stores
<1>3. ASSUME NEW q \in Requests PROVE row'[q].qa = row[q].qa
  <2>1. row \in [Requests -> JobRow] /\ row[r] \in JobRow
    BY TaskFacts
  <2>2. ASSUME NEW s, row' = [row EXCEPT ![r].status = s] PROVE row'[q].qa = row[q].qa
    BY <2>1, <2>2 DEF JobRow
  <2>3. CASE row' = [row EXCEPT ![r].status = "SUBMITTED", ![r].pid = TRUE]
    BY <2>1, <2>3 DEF JobRow
  <2> QED
    BY <1>2, <2>2, <2>3
<1> QED
  BY <1>1, <1>3 DEF Decided

\* Verdicts are recorded once.
LEMMA VerdictsDecide ==
    ASSUME RunnerInv, NEW c \in Calls, (\E r \in Requests : Collect(c, r)) \/ Record(c) \/ SyncQa(c)
    PROVE  Decided
<1>0. /\ doc \in Document /\ row \in [Requests -> JobRow] /\ doc.jobs \subseteq Requests
  BY DocFacts
<1>1. ASSUME NEW r \in Requests, Collect(c, r) PROVE Decided
  <2>1. doc.qa[r] = "none"
    <3>1. call[c].pc \in RunnerPCs /\ task[c][r] # "none"
      BY <1>1 DEF Collect, RunnerPCs, DonePCs, Verdicts
    <3> QED
      BY <3>1, CallFacts DEF CallInv
  <2>2. CASE doc' = [doc EXCEPT !.qa[r] = task[c][r]] /\ UNCHANGED row
    <3>1. doc'.state = doc.state /\ \A q \in Requests \ {r} : doc'.qa[q] = doc.qa[q]
      BY <1>0, <2>2 DEF Document
    <3> QED
      BY <2>1, <2>2, <3>1 DEF Decided
  <2>3. CASE row[r].qa # "fail" /\ row' = [row EXCEPT ![r].qa = "pass"] /\ UNCHANGED doc
    <3>1. row'[r].qa = "pass" /\ row[r].qa \in {"none", "pass"} /\ \A q \in Requests \ {r} : row'[q] = row[q]
      BY <1>0, <2>3 DEF JobRow
    <3> QED
      BY <2>3, <3>1 DEF Decided
  <2>4. CASE UNCHANGED <<doc, row>>
    BY <2>4 DEF Decided
  <2> QED
    BY <1>1, <2>2, <2>3, <2>4 DEF Collect
<1>2. ASSUME Record(c) PROVE Decided
  <2>1. call[c].job \in Requests /\ doc.qa[call[c].job] = "none"
    BY <1>2, CallFacts DEF Record, CallInv, Invocation
  <2>2. row' = row /\ (doc' = doc \/ doc' = [doc EXCEPT !.qa[call[c].job] = "pass"])
    BY <1>2 DEF Record
  <2>3. doc'.state = doc.state /\ \A q \in Requests \ {call[c].job} : doc'.qa[q] = doc.qa[q]
    BY <1>0, <2>2 DEF Document
  <2> QED
    BY <2>1, <2>2, <2>3 DEF Decided
<1>3. ASSUME SyncQa(c) PROVE Decided
  <2>1. doc' = doc
    BY <1>3 DEF SyncQa
  <2>2. CASE row' = row
    BY <2>1, <2>2 DEF Decided
  <2>3. ASSUME NEW r \in Unprojected, row' = [row EXCEPT ![r].qa = doc.qa[r]] PROVE Decided
    <3>1. r \in Requests /\ row[r].qa = "none" /\ \A q \in Requests \ {r} : row'[q] = row[q]
      BY <1>0, <2>3 DEF Unprojected
    <3> QED
      BY <2>1, <3>1 DEF Decided
  <2> QED
    BY <1>3, <2>2, <2>3 DEF SyncQa
<1> QED
  BY <1>1, <1>2, <1>3

\* start(), add_successors(), the gates and a resume without a lease leave the verdicts,
\* and find no runner that was told to publish, or reject it.
LEMMA ReopensDecide ==
    ASSUME RunnerInv,
           Start \/ ResumeUnowned \/ (\E r \in Requests : AddSuccessor(r))
           \/ \E k \in Media : \E approved \in BOOLEAN : HumanGate(k, approved)
    PROVE  Decided
<1>0. doc \in Document /\ (doc.state = "NONE" => doc.qa = [r \in Requests |-> "none"])
  BY DocFacts DEF DocInv, Document
<1>1. CASE Start
  BY <1>0, <1>1, DocFacts DEF Decided, Start, DocInv
<1>2. ASSUME NEW r \in Requests, AddSuccessor(r) PROVE Decided
  <2>1. doc'.qa = doc.qa /\ row' = row /\ doc.state \notin {"PUBLISH_INTENT", "PUBLISHED"}
    BY <1>2, DocFacts DEF AddSuccessor, WithSuccessor, Document
  <2>2. ~(upload.calls > 0 /\ doc.state = "REJECTED")
    BY <1>2, SuccessorIsNew, DocFacts DEF DocInv
  <2> QED
    BY <2>1, <2>2 DEF Decided
<1>3. ASSUME NEW k \in Media, NEW approved \in BOOLEAN, HumanGate(k, approved) PROVE Decided
  <2>1. /\ doc'.qa = doc.qa /\ row' = row
        /\ doc.state \notin {"PUBLISH_INTENT", "PUBLISHED", "REJECTED"}
    BY <1>3, DocFacts DEF HumanGate, Document, Waits
  <2> QED
    BY <2>1 DEF Decided
<1>4. CASE ResumeUnowned
  <2>1. doc'.qa = doc.qa /\ row' = row /\ doc'.state = "REJECTED" /\ StaleQa
    BY <1>0, <1>4 DEF ResumeUnowned, Document
  <2> QED
    BY <2>1 DEF Decided
<1> QED
  BY <1>1, <1>2, <1>3, <1>4

\* A call moves runner.json between its states, and only publish() finds one that
\* was told to publish.
LEMMA CallsDecide ==
    ASSUME RunnerInv, NEW c \in Calls, CallNext(c) \/ Publish(c)
    PROVE  Decided
<1>0. doc \in Document
  BY DocFacts
<1>1. CASE Enter(c)
  <2>1. \/ doc' = doc
        \/ /\ Owns(c) /\ call[c].pc = "queued"
           /\ \E s \in {"RUNNING", "REJECTED"} : doc' = [doc EXCEPT !.state = s]
    BY <1>1 DEF Enter
  <2>2. row' = row
    BY <1>1 DEF Enter
  <2>3. Owns(c) /\ call[c].pc = "queued" => doc.state \notin {"PUBLISH_INTENT", "PUBLISHED", "REJECTED"}
    BY CallFacts, OwnerHolds DEF CallInv, FencedPCs, Open
  <2>4. doc'.qa = doc.qa
    BY <1>0, <2>1 DEF Document
  <2> QED
    BY <2>1, <2>2, <2>3, <2>4 DEF Decided
<1>2. CASE LoopStale(c) \/ LoopReturns(c)
  <2>1. row' = row /\ (doc' = doc \/ \E s \in States : doc' = [doc EXCEPT !.state = s])
    BY <1>2 DEF LoopStale, LoopReturns, Return, States, Promoted
  <2>2. doc.state = "RUNNING"
    BY <1>2, LoopFacts DEF LoopStale, LoopReturns
  <2>3. doc'.qa = doc.qa
    BY <1>0, <2>1 DEF Document
  <2> QED
    BY <2>1, <2>2, <2>3 DEF Decided
<1>3. CASE StageDelivers(c) \/ Publish(c) \/ Published(c)
  <2>1. row' = row /\ doc'.qa = doc.qa
    BY <1>0, <1>3 DEF StageDelivers, Publish, Published, Document
  <2>2. doc.state \in {"PUBLISH_INTENT", "PUBLISHED"} => doc'.state \in {doc.state, "PUBLISHED"}
    BY <1>0, <1>3 DEF StageDelivers, Publish, Published, Document, MayDeliver, Stageable
  <2>3. doc.state = "REJECTED" => doc'.state = "REJECTED"
    BY <1>3, CallFacts DEF StageDelivers, Publish, Published, MayDeliver, Stageable, CallInv
  <2> QED
    BY <2>1, <2>2, <2>3 DEF Decided
<1>4. CASE \/ LoopDispatches(c) \/ StageBegins(c) \/ StageVideo(c) \/ StageEvidence(c) \/ StageJudged(c)
           \/ End(c) \/ Uploads(c)
  <2>1. UNCHANGED <<doc, row>>
    BY <1>4 DEF LoopDispatches, StageBegins, StageVideo, StageEvidence, StageJudged, End, Uploads, stores
  <2> QED
    BY <2>1 DEF Decided
<1>5. CASE (\E r \in Requests : Collect(c, r)) \/ Record(c) \/ SyncQa(c)
  BY <1>5, VerdictsDecide
<1> QED
  BY <1>1, <1>2, <1>3, <1>4, <1>5 DEF CallNext

\* No step takes back a verdict, in runner.json or in the executor; the decision to
\* publish is left only when the bytes behind an approval changed, and then for good
\* (_save, executor.qa, _publish, _resume_parallel).
THEOREM RunnerDecisionsAreFinal == RunnerSpec => DecisionsAreFinal
<1>1. RunnerInv /\ [RunnerNext]_vars => [Decided]_vars
  <2> SUFFICES ASSUME RunnerInv, RunnerNext PROVE Decided
    OBVIOUS
  <2>1. CASE Start \/ ResumeUnowned \/ (\E r \in Requests : AddSuccessor(r))
             \/ \E k \in Media : \E approved \in BOOLEAN : HumanGate(k, approved)
    BY <2>1, ReopensDecide
  <2>2. CASE \E c \in Calls : CallNext(c) \/ Publish(c)
    BY <2>2, CallsDecide
  <2>3. CASE \E c \in Calls, r \in Requests : TaskNext(c, r) \/ ProviderFails(c, r)
    BY <2>3, TasksDecide
  <2>4. CASE \/ LeaseExpires \/ \E r \in Requests : Spoil(r) \/ SettleBill(r)
             \/ \E c \in Calls : Begin(c) \/ LoopCloses(c) \/ Crash(c)
             \/ \E k \in Media : Replace(k)
    <3>1. UNCHANGED <<doc, row>>
      BY <2>4 DEF LeaseExpires, Spoil, SettleBill, Begin, LoopCloses, Crash, Replace, stores
    <3> QED
      BY <3>1 DEF Decided
  <2> QED
    BY <2>1, <2>2, <2>3, <2>4 DEF RunnerNext
<1> QED
  BY <1>1, RunnerInvariant, PTL DEF RunnerSpec, DecisionsAreFinal, Decided
=============================================================================
