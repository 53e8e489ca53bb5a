----------------------------- MODULE DeliveryGates -----------------------------
(***************************************************************************)
(* From a finished master to the publication: the two Telegram gates       *)
(* (src/delivery/controller.py, src/approval/), their outbox, the          *)
(* rejection of a delivered artifact (src/pipeline/revision.py) and the    *)
(* upload (src/publishing/controller.py).                                  *)
(*                                                                         *)
(* Artifacts are thumbnail and video.  Their bytes are versions: a new     *)
(* thumbnail may be made at final QA, the master is never rendered again.  *)
(* A deliverer posts through the messenger, a webhook runs in a thread     *)
(* behind the lock of its message, a publisher is a coroutine.  A message  *)
(* can be posted and its answer lost, updates are redelivered at will, and *)
(* a crash leaves files and SQLite rows.                                   *)
(***************************************************************************)
EXTENDS EpisodeState, Integers, Sequences

CONSTANTS
    Deliverers,   \* the hosted outbox worker and the drain command
    Publishers,   \* concurrent publication calls
    Nothing,      \* no such file or row
    MaxRemakes,   \* bound: new thumbnails
    MaxRejects,   \* bound: rejections
    MaxFaults     \* bound: crashes, lost answers, missed deadlines

ASSUME GateConstants ==
    MaxRemakes \in Nat /\ MaxRejects \in Nat /\ MaxFaults \in Nat

VARIABLES
    store,      \* state.json
    bytes,      \* the version of each artifact on disk
    posts,      \* the versions the messenger really posted
    attempt,    \* <kind>.attempt.json
    delivered,  \* <kind>.json, the delivery receipts
    deliveries, \* the rows of the registry
    journal,    \* the journaled reply to each message
    consumed,   \* the journaled replies that were claimed
    approval,   \* approval-<kind>.json
    outcome,    \* the rows of outcomes
    outbox,     \* the row of video_delivery_outbox
    superseded, \* the artifacts the revision registry says are SUPERSEDED
    deliverer, gate, publisher,  \* deliveries, webhooks and publications under way
    uploads,    \* what reached the channel
    published,  \* publication_receipt.json
    up,         \* the gate service is running
    left        \* what is left of the bounds

evidence == <<attempt, delivered, deliveries>>
inbound == <<journal, consumed, approval, outcome>>
channel == <<publisher, uploads, published>>
rest == <<bytes, superseded, up>>
vars == <<store, bytes, posts, evidence, inbound, outbox, superseded, deliverer, gate, channel, up, left>>

Kinds == {"thumbnail", "video"}
Versions == 0..MaxRemakes
Texts == {"approve", "other"}

ASSUME NothingIsNoValue == Nothing \notin Versions /\ Nothing \notin Texts

Waiting == [thumbnail |-> "WAITING_THUMBNAIL_APPROVAL", video |-> "WAITING_VIDEO_APPROVAL"]
NextGate == [thumbnail |-> "WAITING_VIDEO_APPROVAL", video |-> "WAITING_FINAL_APPROVAL"]

Delivery == [pc : {"idle", "active", "gate", "send", "receipt", "register", "mark"},
             kind : Kinds, ver : Versions, fresh : BOOLEAN, drain : BOOLEAN, stopping : BOOLEAN]
OutboxRow == [ver : Versions, status : {"PENDING", "BLOCKED", "UNKNOWN", "DELIVERED"}]

NoDelivery == [pc |-> "idle", kind |-> "thumbnail", ver |-> 0, fresh |-> FALSE,
               drain |-> FALSE, stopping |-> FALSE]
NoWebhook == [pc |-> "idle", mem |-> NewStore]
NoPublication == [pc |-> "idle", mem |-> NewStore]

GatesTypeOK ==
    /\ store \in Store
    /\ bytes \in [Kinds -> Versions]
    /\ posts \in [Kinds -> Seq(Versions)]
    /\ attempt \in [Kinds -> Versions \cup {Nothing}]
    /\ delivered \in [Kinds -> Versions \cup {Nothing}]
    /\ deliveries \subseteq Kinds
    /\ journal \in [Kinds -> Texts \cup {Nothing}]
    /\ consumed \subseteq {k \in Kinds : journal[k] # Nothing}
    /\ approval \in [Kinds -> Versions \cup {Nothing}]
    /\ outcome \in [Kinds -> EpisodeStates \cup {Nothing}]
    /\ outbox \in OutboxRow \cup {Nothing}
    /\ superseded \subseteq Kinds \X Versions
    /\ deliverer \in [Deliverers -> Delivery]
    /\ gate \in [Kinds -> [pc : {"idle", "claim", "approve", "advance", "outcome"}, mem : Store]]
    /\ publisher \in [Publishers -> [pc : {"idle", "upload", "receipt", "publish"}, mem : Store]]
    /\ published \in [Kinds -> Versions] \cup {Nothing}
    /\ up \in BOOLEAN
    /\ left \in [remakes : 0..MaxRemakes, rejects : 0..MaxRejects, faults : 0..MaxFaults]

\* The reply journal is created empty; each message has one slot for a reply.
NoReplies == [k \in Kinds |-> Nothing]

GatesInit ==
    /\ store = [cur |-> "FINAL_QA", prev |-> "ASSEMBLING", paused |-> NoState]
    /\ bytes = [k \in Kinds |-> 0]
    /\ posts = [k \in Kinds |-> <<>>]
    /\ attempt = [k \in Kinds |-> Nothing]
    /\ delivered = [k \in Kinds |-> Nothing]
    /\ deliveries = {} /\ consumed = {} /\ superseded = {}
    /\ journal = NoReplies
    /\ approval = [k \in Kinds |-> Nothing]
    /\ outcome = [k \in Kinds |-> Nothing]
    /\ outbox = Nothing
    /\ deliverer = [d \in Deliverers |-> NoDelivery]
    /\ gate = [k \in Kinds |-> NoWebhook]
    /\ publisher = [p \in Publishers |-> NoPublication]
    /\ uploads = <<>> /\ published = Nothing
    /\ up = TRUE
    /\ left = [remakes |-> MaxRemakes, rejects |-> MaxRejects, faults |-> MaxFaults]

Spend(what) == left[what] > 0 /\ left' = [left EXCEPT ![what] = @ - 1]
InState(S) == store.cur \in S
Loaded == Reloaded(store)

\* ApprovalReceipt.verify(): the bytes on disk are the ones the receipt names.
Binds(file, k) == file[k] # Nothing /\ file[k] = bytes[k]

-----------------------------------------------------------------------------
(* DeliveryController, behind Director.deliver_for_approval() *)

DeliverKind == IF store.cur = Waiting.thumbnail THEN "thumbnail" ELSE "video"

\* delivery_identity(), and for the video the approved, delivered thumbnail
MayDeliver(kind) ==
    /\ InState({Waiting.thumbnail, Waiting.video})
    /\ delivered[kind] # Nothing => Binds(delivered, kind)
    /\ kind = "video" => Binds(approval, "thumbnail") /\ Binds(delivered, "thumbnail")

\* The delivery's lock file is free.
GateFree(kind) == \A d \in Deliverers : deliverer[d].kind = kind =>
                                        deliverer[d].pc \notin {"send", "receipt", "register"}

\* What the delivery binds is read before the lock is taken.
Entered(d, drain) ==
    [deliverer EXCEPT ![d] = [pc |-> "gate", kind |-> DeliverKind, ver |-> bytes[DeliverKind],
                              fresh |-> delivered[DeliverKind] = Nothing,
                              drain |-> drain, stopping |-> FALSE]]

\* A delivery that was cancelled takes no step of its own any more.
At(d, pc) == deliverer[d].pc = pc /\ ~deliverer[d].stopping

Stopped(d) == deliverer' = [deliverer EXCEPT ![d] = NoDelivery]
Step(d, pc) == deliverer' = [deliverer EXCEPT ![d].pc = pc]

\* UPDATE ... WHERE status = 'PENDING'
Marked(status) == IF outbox # Nothing /\ outbox.status = "PENDING"
                  THEN [outbox EXCEPT !.status = status] ELSE outbox

\* An exception: a drain leaves its row UNKNOWN, an explicit call nothing.
Raise(d) ==
    /\ Stopped(d)
    /\ outbox' = IF deliverer[d].drain THEN Marked("UNKNOWN") ELSE outbox

\* deliver_for_approval() of the composition, called by an operator
Deliver(d) ==
    /\ up /\ deliverer[d].pc = "idle" /\ MayDeliver(DeliverKind)
    /\ deliverer' = Entered(d, FALSE)
    /\ UNCHANGED <<store, rest, posts, evidence, inbound, outbox, gate, channel, left>>

\* Mutant: an attempt without a receipt is sent again.
Resends(k) == delivered[k] = Nothing

Sendable(k) == delivered[k] = Nothing /\ attempt[k] = Nothing

\* _send() under the lock: a receipt is recovered, an attempt without one is
\* ambiguous, and only then is an attempt written.  A receipt that appeared after
\* the identity was read has another time stamp and does not bind.
EnterGate(d) ==
    LET k == deliverer[d].kind
    IN  /\ At(d, "gate") /\ GateFree(k)
        /\ IF Sendable(k)
           THEN attempt' = [attempt EXCEPT ![k] = deliverer[d].ver] /\ Step(d, "send") /\ UNCHANGED outbox
           ELSE /\ UNCHANGED attempt
                /\ IF Binds(delivered, k) /\ ~deliverer[d].fresh
                   THEN Step(d, "register") /\ UNCHANGED outbox
                   ELSE Raise(d)
        /\ UNCHANGED <<store, rest, posts, delivered, deliveries, inbound, gate, channel, left>>

\* The messenger posts the file as it is now and answers; or it fails, having
\* posted or not.
Send(d) ==
    LET k == deliverer[d].kind
        posted == [posts EXCEPT ![k] = Append(@, bytes[k])]
    IN  /\ At(d, "send")
        /\ \/ posts' = posted /\ Step(d, "receipt") /\ UNCHANGED <<outbox, left>>
           \/ posts' \in {posts, posted} /\ Spend("faults") /\ Raise(d)
        /\ UNCHANGED <<store, rest, evidence, inbound, gate, channel>>

PersistReceipt(d) ==
    LET k == deliverer[d].kind
    IN  /\ At(d, "receipt")
        /\ delivered' = [delivered EXCEPT ![k] = deliverer[d].ver]
        /\ IF bytes[k] = deliverer[d].ver THEN Step(d, "register") /\ UNCHANGED outbox ELSE Raise(d)
        /\ UNCHANGED <<store, rest, posts, attempt, deliveries, inbound, gate, channel, left>>

\* register_delivery(); the receipt is read and verified again.
RegisterDelivery(d) ==
    LET k == deliverer[d].kind
    IN  /\ At(d, "register")
        /\ \/ /\ Binds(delivered, k)
              /\ deliveries' = deliveries \cup {k}
              /\ IF deliverer[d].drain THEN Step(d, "mark") ELSE Stopped(d)
              /\ UNCHANGED outbox
           \/ ~Binds(delivered, k) /\ Raise(d) /\ UNCHANGED deliveries
        /\ UNCHANGED <<store, rest, posts, attempt, delivered, inbound, gate, channel, left>>

-----------------------------------------------------------------------------
(* DeliverySessionRunner, DeliveryOutboxWorker *)

\* confirm_delivery() of a persisted approval: the delivery, the approval and the
\* consumed reply still bind the current bytes.
Revalidates(k) ==
    /\ Binds(delivered, k) /\ Binds(approval, k)
    /\ k \in consumed /\ journal[k] = "approve"

\* _revalidate_completed()
Completed(k) == store.cur = NextGate[k] /\ Revalidates(k)

\* drain_once() up to the delivery: a stale or revoked thumbnail blocks the row.
Drain(d) ==
    /\ up /\ deliverer[d].pc = "idle" /\ \A e \in Deliverers : ~deliverer[e].drain
    /\ outbox # Nothing /\ outbox.status = "PENDING"
    /\ IF outbox.ver = bytes["thumbnail"] /\ "thumbnail" \in deliveries /\ Completed("thumbnail")
       THEN deliverer' = [deliverer EXCEPT ![d].pc = "active", ![d].drain = TRUE] /\ UNCHANGED outbox
       ELSE outbox' = Marked("BLOCKED") /\ UNCHANGED deliverer
    /\ UNCHANGED <<store, rest, posts, evidence, inbound, gate, channel, left>>

\* The delivery itself loads the state again.
DrainDelivers(d) ==
    /\ At(d, "active")
    /\ IF MayDeliver(DeliverKind)
       THEN deliverer' = Entered(d, TRUE) /\ UNCHANGED outbox
       ELSE Raise(d)
    /\ UNCHANGED <<store, rest, posts, evidence, inbound, gate, channel, left>>

\* A receipt of the video acknowledges the row, any other leaves it UNKNOWN.
Acknowledge(d) ==
    /\ At(d, "mark")
    /\ outbox' = Marked(IF deliverer[d].kind = "video" THEN "DELIVERED" ELSE "UNKNOWN")
    /\ Stopped(d)
    /\ UNCHANGED <<store, rest, posts, evidence, inbound, gate, channel, left>>

\* Mutant: the row is marked, but the task is not cancelled.
StopMarks(d) ==
    /\ deliverer[d].drain /\ \E pc \in {"gate", "send", "register"} : At(d, pc)
    /\ Spend("faults")
    /\ outbox' = Marked("UNKNOWN")
    /\ UNCHANGED <<deliverer, store, rest, posts, evidence, inbound, gate, channel>>

\* stop(), on the same event loop, so that the task is at an await: it waits for
\* the lock, for the messenger or for the thread that registers.  At the deadline
\* the active row is marked, and then the task is cancelled.
StopDeadline(d) ==
    /\ deliverer[d].drain /\ \E pc \in {"gate", "send", "register"} : At(d, pc)
    /\ Spend("faults")
    /\ outbox' = Marked("UNKNOWN")
    /\ deliverer' = [deliverer EXCEPT ![d].stopping = TRUE]
    /\ UNCHANGED <<store, rest, posts, evidence, inbound, gate, channel>>

\* The cancellation is raised at that await: a lock that comes yet is given back,
\* a post under way may yet be made, and a thread registers to its end.
CancelDelivery(d) ==
    LET k == deliverer[d].kind
        pc == deliverer[d].pc
    IN  /\ deliverer[d].stopping
        /\ posts' \in {posts} \cup IF pc = "send" THEN {[posts EXCEPT ![k] = Append(@, bytes[k])]} ELSE {}
        /\ deliveries' \in {deliveries} \cup IF pc = "register" /\ Binds(delivered, k)
                                             THEN {deliveries \cup {k}} ELSE {}
        /\ Raise(d)
        /\ UNCHANGED <<store, rest, attempt, delivered, inbound, gate, channel, left>>

-----------------------------------------------------------------------------
(* TelegramInboundAdapter, HermesStudioIngress, TelegramDirectorService *)

\* ingest_webhook(): one reply per message is journaled, and accepted again when
\* Telegram redelivers it.
Ingests(k, text) == journal[k] \in {Nothing, text}

Ingested(k, text) == IF Ingests(k, text) THEN [journal EXCEPT ![k] = text] ELSE journal

\* _lookup(), _recover_delivery(): the registry, or a receipt that is registered now.
Known(k) == k \in deliveries \/ (Binds(delivered, k) /\ GateFree(k))

\* handle_webhook_async() of an update that answers a posted message, at any time
\* and any number of times: the update is journaled; the lock of the message is
\* taken; an approval that stands is acknowledged, an open gate is confirmed, and
\* anything else is not pending.
Webhook(k, text) ==
    /\ up /\ posts[k] # <<>> /\ gate[k].pc = "idle"
    /\ journal' = Ingested(k, text)
    /\ IF Ingests(k, text) /\ Known(k)
       THEN /\ deliveries' = deliveries \cup {k}
            /\ IF Completed(k)
               THEN gate' = [gate EXCEPT ![k].pc = "outcome"]
               ELSE gate' = IF store.cur = Waiting[k]
                            THEN [gate EXCEPT ![k] = [pc |-> "claim", mem |-> Loaded]] ELSE gate
       ELSE UNCHANGED <<deliveries, gate>>
    /\ UNCHANGED <<store, rest, posts, attempt, delivered, consumed, approval, outcome,
                   outbox, deliverer, channel, left>>

GateTo(k, pc) == gate' = [gate EXCEPT ![k].pc = pc]
GateEnds(k) == gate' = [gate EXCEPT ![k] = NoWebhook]

\* Mutant: the text of the reply is not compared with the command.
AnyText(k) == journal[k] # Nothing

\* _require_authority(): the exact command, from a trusted sender
Commands(k) == journal[k] = "approve"

\* confirm_delivery(): a persisted approval is only read; otherwise the reply is
\* consumed, or recovered if a crash came after that, and must be the command.
ClaimReply(k) ==
    /\ gate[k].pc = "claim"
    /\ IF ~Binds(delivered, k)
       THEN GateEnds(k) /\ UNCHANGED consumed
       ELSE IF approval[k] # Nothing
       THEN (IF Revalidates(k) THEN GateTo(k, "advance") ELSE GateEnds(k)) /\ UNCHANGED consumed
       ELSE /\ consumed' = consumed \cup {k}
            /\ IF Commands(k) THEN GateTo(k, "approve") ELSE GateEnds(k)
    /\ UNCHANGED <<store, rest, posts, evidence, journal, approval, outcome, outbox,
                   deliverer, channel, left>>

\* save_approval_receipt()
SaveApproval(k) ==
    /\ gate[k].pc = "approve"
    /\ approval' = [approval EXCEPT ![k] = bytes[k]]
    /\ GateTo(k, "advance")
    /\ UNCHANGED <<store, rest, posts, evidence, journal, consumed, outcome, outbox,
                   deliverer, channel, left>>

\* confirm_delivered_artifact() saves the store it loaded before.
AdvanceGate(k) ==
    /\ gate[k].pc = "advance"
    /\ store' = TransitionTo(gate[k].mem, NextGate[k])
    /\ GateTo(k, "outcome")
    /\ UNCHANGED <<rest, posts, evidence, inbound, outbox, deliverer, channel, left>>

\* The video may be delivered: one row per episode, bound to the thumbnail.
Eligible(k) == k = "thumbnail" => outbox = Nothing \/ outbox.ver = delivered["thumbnail"]
Enqueued(k) == IF k = "thumbnail" /\ outbox = Nothing
               THEN [ver |-> delivered["thumbnail"], status |-> "PENDING"] ELSE outbox

\* _persist_outcome(): outcome and eligibility in one transaction
PersistOutcome(k) ==
    /\ gate[k].pc = "outcome"
    /\ IF outcome[k] \in {Nothing, store.cur} /\ Eligible(k)
       THEN outcome' = [outcome EXCEPT ![k] = store.cur] /\ outbox' = Enqueued(k)
       ELSE UNCHANGED <<outcome, outbox>>
    /\ GateEnds(k)
    /\ UNCHANGED <<store, rest, posts, evidence, journal, consumed, approval,
                   deliverer, channel, left>>

-----------------------------------------------------------------------------
(* RevisionRegistry, rejection and the way back *)

\* reject(): the artifact and what depends on it, the video on its thumbnail.
Supersedes(k) == {<<j, bytes[j]>> : j \in IF k = "thumbnail" THEN Kinds ELSE {k}}

\* reject_delivered_artifact() of a registered artifact: nothing in it awaits.
Reject(k) ==
    /\ InState({Waiting.thumbnail, Waiting.video, NextGate.video})
    /\ Spend("rejects")
    /\ superseded' = superseded \cup Supersedes(k)
    /\ store' = TransitionTo(Loaded, "ASSEMBLING")
    /\ UNCHANGED <<bytes, posts, evidence, inbound, outbox, deliverer, gate, channel, up>>

\* The director again: the completed render is recovered, the sidecars may be
\* made anew, and final QA opens the thumbnail gate.  Timing assumption: a
\* webhook's thread does not outlive a rebuild.
RecoverRender ==
    /\ InState({"ASSEMBLING"}) /\ \A k \in Kinds : gate[k].pc = "idle"
    /\ store' = [Loaded EXCEPT !.cur = "FINAL_QA", !.prev = "ASSEMBLING"]
    /\ UNCHANGED <<rest, posts, evidence, inbound, outbox, deliverer, gate, channel, left>>

RemakeThumbnail ==
    /\ InState({"FINAL_QA"})
    /\ Spend("remakes")
    /\ bytes' = [bytes EXCEPT !["thumbnail"] = @ + 1]
    /\ UNCHANGED <<store, posts, evidence, inbound, outbox, superseded, deliverer, gate, channel, up>>

PassFinalQA ==
    /\ InState({"FINAL_QA"})
    /\ store' = TransitionTo(Loaded, Waiting.thumbnail)
    /\ UNCHANGED <<rest, posts, evidence, inbound, outbox, deliverer, gate, channel, left>>

-----------------------------------------------------------------------------
(* PublicationController.publish() *)

\* require_publication_authorization(): both approvals bind the current bytes.
Authorized == \A k \in Kinds : Binds(approval, k)

\* Up to the first await: UPLOADING is saved before anything is sent.
Authorize(p) ==
    /\ publisher[p].pc = "idle" /\ InState({NextGate.video}) /\ published = Nothing
    /\ Authorized
    /\ store' = TransitionTo(Loaded, "UPLOADING")
    /\ publisher' = [publisher EXCEPT ![p] = [pc |-> "upload", mem |-> store']]
    /\ UNCHANGED <<rest, posts, evidence, inbound, outbox, deliverer, gate, uploads, published, left>>

\* The upload succeeds, or raises having reached the channel or not.
Upload(p) ==
    /\ publisher[p].pc = "upload"
    /\ \/ /\ uploads' = Append(uploads, bytes)
          /\ publisher' = [publisher EXCEPT ![p].pc = "receipt"] /\ UNCHANGED left
       \/ /\ uploads' \in {uploads, Append(uploads, bytes)}
          /\ Spend("faults")
          /\ publisher' = [publisher EXCEPT ![p] = NoPublication]
    /\ UNCHANGED <<store, rest, posts, evidence, inbound, outbox, deliverer, gate, published>>

\* The remote readback and its receipt, or a readback that fails
PersistPublication(p) ==
    /\ publisher[p].pc = "receipt"
    /\ \/ /\ published' = bytes
          /\ publisher' = [publisher EXCEPT ![p].pc = "publish"] /\ UNCHANGED left
       \/ /\ Spend("faults")
          /\ publisher' = [publisher EXCEPT ![p] = NoPublication] /\ UNCHANGED published
    /\ UNCHANGED <<store, rest, posts, evidence, inbound, outbox, deliverer, gate, uploads>>

MarkPublished(p) ==
    /\ publisher[p].pc = "publish"
    /\ store' = TransitionTo(publisher[p].mem, "PUBLISHED")
    /\ publisher' = [publisher EXCEPT ![p] = NoPublication]
    /\ UNCHANGED <<rest, posts, evidence, inbound, outbox, deliverer, gate, uploads, published, left>>

\* A receipt in UPLOADING that binds the approved media is published from.
RecoverPublication(p) ==
    /\ publisher[p].pc = "idle" /\ InState({"UPLOADING"}) /\ published # Nothing /\ Authorized
    /\ store' = TransitionTo(Loaded, "PUBLISHED")
    /\ UNCHANGED <<rest, posts, evidence, inbound, outbox, deliverer, gate, channel, left>>

-----------------------------------------------------------------------------
\* The machine stops; a post or an upload under way may yet be made.
GatesCrash ==
    /\ up /\ Spend("faults")
    /\ up' = FALSE
    /\ LET sending == {deliverer[d].kind : d \in {e \in Deliverers : deliverer[e].pc = "send"}}
       IN  \E done \in SUBSET sending :
              posts' = [k \in Kinds |-> IF k \in done THEN Append(posts[k], bytes[k]) ELSE posts[k]]
    /\ uploads' \in {uploads} \cup IF \E p \in Publishers : publisher[p].pc = "upload"
                                   THEN {Append(uploads, bytes)} ELSE {}
    /\ deliverer' = [d \in Deliverers |-> NoDelivery]
    /\ gate' = [k \in Kinds |-> NoWebhook]
    /\ publisher' = [p \in Publishers |-> NoPublication]
    /\ UNCHANGED <<store, bytes, evidence, inbound, outbox, superseded, published>>

\* _reconcile_authenticated_outcomes(): an outcome that stands is queued again.
Repaired ==
    IF outcome["thumbnail"] # Nothing /\ Completed("thumbnail") THEN Enqueued("thumbnail") ELSE outbox

\* The service starts only if every receipt on disk still binds its media; it
\* registers them, and repairs the outbox.
Restart ==
    /\ ~up /\ \A k \in Kinds : delivered[k] # Nothing => Binds(delivered, k)
    /\ up' = TRUE
    /\ deliveries' = deliveries \cup {k \in Kinds : delivered[k] # Nothing}
    /\ outbox' = Repaired
    /\ UNCHANGED <<store, bytes, posts, attempt, delivered, inbound, superseded, deliverer, gate, channel, left>>

GatesNext ==
    \/ \E d \in Deliverers : \/ Deliver(d) \/ EnterGate(d) \/ Send(d) \/ PersistReceipt(d)
                             \/ RegisterDelivery(d) \/ Drain(d) \/ DrainDelivers(d) \/ Acknowledge(d)
                             \/ StopDeadline(d) \/ CancelDelivery(d)
    \/ \E k \in Kinds, text \in Texts : Webhook(k, text)
    \/ \E k \in Kinds : \/ ClaimReply(k) \/ SaveApproval(k) \/ AdvanceGate(k) \/ PersistOutcome(k)
                        \/ Reject(k)
    \/ RecoverRender \/ RemakeThumbnail \/ PassFinalQA
    \/ \E p \in Publishers : \/ Authorize(p) \/ Upload(p) \/ PersistPublication(p) \/ MarkPublished(p)
                             \/ RecoverPublication(p)
    \/ GatesCrash \/ Restart

GatesSpec == GatesInit /\ [][GatesNext]_vars

-----------------------------------------------------------------------------
(* Properties *)

\* A human is shown each artifact once: lost answers, retries, a second
\* deliverer, a missed shutdown deadline and a crash never post it again
\* (DeliveryController._send).
SentAtMostOnce == \A k \in Kinds : Len(posts[k]) <= 1

\* What reaches the channel was approved as it was shown: one upload, of the
\* bytes that both messages showed, each answered with the exact command
\* (confirm_delivery, require_publication_authorization).
UploadedAsShown ==
    /\ Len(uploads) <= 1
    /\ \A i \in DOMAIN uploads, k \in Kinds :
          /\ posts[k] = <<uploads[i][k]>> /\ approval[k] = uploads[i][k]
          /\ k \in consumed /\ journal[k] = "approve"

\* The row of the outbox is still to be dispatched.
Dispatchable == outbox # Nothing /\ outbox.status = "PENDING"

\* An outbox row settles once, and DELIVERED means that the video's receipt is
\* there; and once it is UNKNOWN, BLOCKED or DELIVERED no drain dispatches it: a
\* drain writes its attempt, from which the post follows, under a PENDING row only,
\* even when the shutdown deadline overtakes it on its way to the lock
\* (DeliverySessionRunner.drain_once, DeliveryOutboxWorker.stop).
OutboxSettles ==
    [][ /\ outbox # Nothing /\ outbox' # outbox =>
              /\ outbox.status = "PENDING"
              /\ outbox'.status = "DELIVERED" => delivered["video"] # Nothing
        /\ \A d \in Deliverers :
              deliverer[d].drain /\ deliverer[d].pc # "send" /\ deliverer'[d].pc = "send" => Dispatchable ]_vars

=============================================================================
