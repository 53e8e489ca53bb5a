--------------------------- MODULE RevisionPipeline ---------------------------
(***************************************************************************)
(* The revision harness of one workspace (src/hybrid/revision.py, with the *)
(* LIVE adapter src/hybrid/revision_live.py): an approved plan, nine       *)
(* stages, three human gates, the publication, and a rejection that        *)
(* retires everything made so far and starts a new revision.               *)
(*                                                                         *)
(* One command runs at a time, behind revision.lock.  A step ends with a   *)
(* durable write or an outbound request, and a command may stop after any  *)
(* of them: an exception, or a crash.  The next command begins with load().*)
(* Media are versions: a provider may return a new one or one that was     *)
(* made, and perhaps rejected, in an earlier revision.                     *)
(***************************************************************************)
EXTENDS Integers, FiniteSets, Sequences, SequencesExt

CONSTANTS
    Scenes,        \* the scenes of the storyboard
    HeroesAllowed, \* the plans' choices of hero clips: a set of booleans
    Budget,        \* the plan's budget, in images
    Spare,         \* authorizations beyond one image per scene: 10 in the code
    MaxRevisions,  \* bound: rejections
    Nothing        \* no such file or receipt

ASSUME RevisionConstants ==
    /\ HeroesAllowed \subseteq BOOLEAN
    /\ MaxRevisions \in Nat /\ Budget \in Nat /\ Spare \in Nat

VARIABLES
    mode,      \* TEST or LIVE, and whether the plan has heroes
    heroes,
    control,   \* revision.json
    files,     \* the files of this revision's directory
    img,       \* how far each image job came: executor row, QA intent, decision, report
    rejected,  \* the plan's predecessors
    proc,      \* the command that holds the lock
    acts,      \* how often each outbound act was made in this revision: 0, 1, 2 = more
    uploads    \* what reached the channel

vars == <<mode, heroes, control, files, img, rejected, proc, acts, uploads>>
plan == <<mode, heroes>>

Kinds == {"freeze", "thumbnail", "video"}
Media == Kinds \cup {"script", "audio"}
Versions == 0..MaxRevisions
Stages == <<"script", "audio", "contracts", "images", "heroes", "motion", "encode", "sidecars", "final">>
Message == [freeze |-> "telegram_freeze", thumbnail |-> "telegram_thumbnail", video |-> "telegram_video"]
StageNames == ToSet(Stages) \cup {Message[k] : k \in Kinds} \cup {"package"}
Attempts == {"baseline", "correction"}
Jobs == Scenes \X Attempts
Progress == {"none", "posted", "complete", "asking", "reserved", "asked", "decided_pass", "decided_fail",
             "judged_pass", "judged_fail", "pass", "fail", "technical", "lost"}
\* The outbound acts: of the revision, or of one image job.
Once(name) == <<name, Nothing, Nothing>>
ForJob(name, j) == <<name, j[1], j[2]>>
Acts == {Once(a) : a \in {"script", "audio", "encode", "hero", "upload"} \cup {Message[k] : k \in Kinds}}
        \cup {ForJob(a, j) : a \in {"image", "review"}, j \in Jobs}

Waiting == [freeze |-> "WAITING_VISUAL_FREEZE_APPROVAL", thumbnail |-> "WAITING_THUMBNAIL_APPROVAL",
            video |-> "WAITING_VIDEO_APPROVAL"]
Approved == [freeze |-> "READY_RENDER", thumbnail |-> "READY_VIDEO_DELIVERY",
             video |-> "WAITING_PUBLICATION_AUTHORIZATION"]
WaitingStates == {Waiting[k] : k \in Kinds} \cup {"WAITING_PLAN_APPROVAL", Approved["video"]}
Statuses == WaitingStates \cup {"READY", "READY_RENDER", "READY_VIDEO_DELIVERY",
                                "READY_FOR_PUBLICATION", "PUBLISHED"}

NoBytes == [k \in Kinds |-> Nothing]
NoFiles == [media |-> [m \in Media |-> Nothing], authority |-> {}, reviews |-> {},
            hero |-> "none", encode |-> FALSE,
            message |-> {}, approval |-> NoBytes, package |-> Nothing, authorization |-> FALSE,
            intent |-> "none", receipt |-> FALSE]
NewControl(rev) == [rev |-> rev, status |-> "WAITING_PLAN_APPROVAL", planned |-> FALSE,
                    stages |-> [s \in StageNames |-> "none"], artifacts |-> NoBytes,
                    approvals |-> NoBytes, package |-> Nothing]
Free == [pc |-> "free", arg |-> "none"]
At(pc, arg) == [pc |-> pc, arg |-> arg]
PCs == {"free", "run", "op", "deliver", "finish", "encoded", "hero", "send", "receipt", "delivered", "approve",
        "package", "authorize", "upload", "readback", "record", "repackage", "publish"}

Args == StageNames \cup Kinds \cup {"none", "recover"}

\* A medium on disk, frozen or approved, as its version
Bytes == Versions \cup {Nothing}
Control == [rev : Versions, status : Statuses, planned : BOOLEAN,
            stages : [StageNames -> {"none", "STARTED", "COMPLETE"}],
            artifacts : [Kinds -> Bytes], approvals : [Kinds -> Bytes],
            package : {Nothing, "frozen", "published"}]
Files == [media : [Media -> Bytes], authority : SUBSET Jobs, reviews : SUBSET Jobs,
          hero : {"none", "planned", "touched"}, encode : BOOLEAN, message : SUBSET Kinds,
          approval : [Kinds -> Bytes], package : {Nothing, "frozen", "published"},
          authorization : BOOLEAN, intent : {"none", "PENDING", "AMBIGUOUS", "FAILED", "REMOTE_ACCEPTED"},
          receipt : BOOLEAN]

ASSUME NoControlFile == Nothing \notin Control

RevisionTypeOK ==
    /\ mode \in {"TEST", "LIVE"} /\ heroes \in HeroesAllowed
    /\ control \in Control \cup {Nothing}
    /\ files \in Files /\ files.reviews \subseteq files.authority
    /\ img \in [Jobs -> Progress]
    /\ rejected \subseteq Media \X Versions
    /\ proc \in [pc : PCs, arg : Args]
    /\ acts \in [Acts -> 0..2]
    /\ uploads \in Seq([rev : Versions, media : [Kinds -> Bytes], approved : [Kinds -> Bytes],
                        rejected : SUBSET (Media \X Versions)])

RevisionInit ==
    /\ mode \in {"TEST", "LIVE"} /\ heroes \in HeroesAllowed
    /\ control = Nothing
    /\ files = NoFiles
    /\ img = [j \in Jobs |-> "none"]
    /\ rejected = {}
    /\ proc = Free
    /\ acts = [a \in Acts |-> 0]
    /\ uploads = <<>>

\* An outbound act; a TEST fixture's work costs nothing and is not counted.
Done(a) == acts' = [acts EXCEPT ![a] = IF @ < 2 THEN @ + 1 ELSE 2]
Paid(a) == IF mode = "LIVE" THEN Done(a) ELSE UNCHANGED acts

\* identity(): a version stands for the hash of the bytes and of the pixels
Identity(m, v) == <<m, v>>

\* fresh(): not the bytes, nor nearly the pixels, of something rejected
Fresh(m, v) == Identity(m, v) \notin rejected

\* load(): every output of a COMPLETE stage still has its hash.
Loads ==
    /\ control # Nothing
    /\ control.stages["images"] = "COMPLETE" => files.hero # "touched"
    /\ control.stages["package"] = "COMPLETE" => files.package = control.package

\* _approved(), preflight(): what LIVE work checks again before it spends; the
\* worst case of images and corrections is within the budget.
PlanApproved == control.planned /\ Loads
AuthorityLimit == Cardinality(Scenes) + Spare
Preflight == PlanApproved /\ AuthorityLimit <= Budget

\* get_dependencies(): a TEST deployment is a local fixture
Dependencies == mode = "LIVE" => Preflight

\* A command starts: the lock is free and the workspace loads.
Begin == proc = Free /\ Loads
Goto(pc, arg) == proc' = At(pc, arg)
Return == proc' = Free

-----------------------------------------------------------------------------
(* create_plan(), approve_plan(), reject() *)

CreatePlan ==
    /\ proc = Free /\ control = Nothing
    /\ control' = NewControl(0)
    /\ UNCHANGED <<plan, files, img, rejected, proc, acts, uploads>>

ApprovePlan ==
    /\ Begin /\ control.status = "WAITING_PLAN_APPROVAL"
    /\ control' = [control EXCEPT !.planned = TRUE, !.status = "READY"]
    /\ UNCHANGED <<plan, files, img, rejected, proc, acts, uploads>>

Successor == NewControl(control.rev + 1)

\* All media of the revision's directory become predecessors.
Retired == {Identity(m, files.media[m]) : m \in {n \in Media : files.media[n] # Nothing}}

\* In any status
Reject ==
    /\ Begin /\ control.rev < MaxRevisions
    /\ rejected' = rejected \cup Retired
    /\ control' = Successor
    /\ files' = NoFiles
    /\ img' = [j \in Jobs |-> "none"]
    /\ acts' = [a \in Acts |-> 0]
    /\ UNCHANGED <<plan, proc, uploads>>

-----------------------------------------------------------------------------
(* run(): stage by stage; a command that raises, or dies, stops where it is *)

\* The harness refuses, or an exception or a crash ends the command.  Of a review
\* that was under way only its intent stays.
Stop ==
    /\ proc # Free
    /\ Return
    /\ img' = [j \in Jobs |-> IF img[j] \in {"asking", "reserved"} THEN "asked" ELSE img[j]]
    /\ UNCHANGED <<plan, control, files, rejected, acts, uploads>>

BeginRun ==
    /\ Begin /\ control.planned /\ control.status \notin WaitingStates /\ Dependencies
    /\ IF control.status = Approved["thumbnail"] THEN Goto("deliver", "video") ELSE Goto("run", "none")
    /\ UNCHANGED <<plan, control, files, img, rejected, acts, uploads>>

\* Completed stages are skipped; the first other one is next.
Complete(s) == control.stages[s] = "COMPLETE"
NextStage(s) == \E i \in DOMAIN Stages : /\ s = Stages[i] /\ ~Complete(s)
                                         /\ \A h \in 1..(i - 1) : Complete(Stages[h])
AllComplete == \A s \in ToSet(Stages) : Complete(s)
FreezeOwed == Complete("images") /\ control.approvals["freeze"] # files.media["freeze"]

\* A stage that was started and not completed may be repeated.
Recoverable(s) == mode = "TEST" \/ s \notin {"script", "audio"}

\* stage(): STARTED is saved before the operation.
StartStage(s) ==
    /\ proc = At("run", "none") /\ NextStage(s) /\ ~FreezeOwed
    /\ control.stages[s] = "none" \/ Recoverable(s)
    /\ control' = [control EXCEPT !.stages[s] = "STARTED"]
    /\ Goto("op", IF s = "encode" /\ control.stages[s] = "STARTED" THEN "recover" ELSE s)
    /\ UNCHANGED <<plan, files, img, rejected, acts, uploads>>

\* The operation returned: the inputs are validated again, COMPLETE is saved.
FinishStage ==
    /\ proc.pc = "finish" /\ Loads
    /\ control' = [control EXCEPT !.stages[proc.arg] = "COMPLETE"]
    /\ Goto("run", "none")
    /\ UNCHANGED <<plan, files, img, rejected, acts, uploads>>

Made(m, v) == [files EXCEPT !.media[m] = v]
FinishFresh(m, v, s) == IF Fresh(m, v) THEN Goto("finish", s) ELSE Return

\* A result, or a request without one; freshness is tested before COMPLETE.
Author(s) ==
    /\ proc = At("op", s)
    /\ Paid(Once(s))
    /\ \/ \E v \in 0..control.rev : files' = Made(s, v) /\ FinishFresh(s, v, s)
       \/ UNCHANGED files /\ Return
    /\ UNCHANGED <<plan, control, img, rejected, uploads>>

\* author_script(); the narration and the storyboard
WriteScript == Author("script") /\ Dependencies
Synthesize == Author("audio")

\* A stage whose outputs are derived from those of the completed stages
Derive(s) ==
    /\ proc = At("op", s)
    /\ Goto("finish", s)
    /\ UNCHANGED <<plan, control, files, img, rejected, acts, uploads>>

PostAudioContracts == Derive("contracts")
NoHeroes == ~heroes /\ Derive("heroes")
PlanMotion == Derive("motion")
FinalQA == Derive("final")

\* execute_heroes(): the entry SUBMITTING goes into the manifest before the POST,
\* and its outcome after it.
HeroIntent ==
    /\ proc = At("op", "heroes") /\ heroes
    /\ files' = [files EXCEPT !.hero = "touched"]
    /\ Goto("hero", "none")
    /\ UNCHANGED <<plan, control, img, rejected, acts, uploads>>

HeroSubmit ==
    /\ proc.pc = "hero"
    /\ Done(Once("hero"))
    /\ Goto("finish", "heroes") \/ Return
    /\ UNCHANGED <<plan, control, files, img, rejected, uploads>>

\* render_once(): the first attempt only; a started encode needs its receipt.
RenderVideo ==
    /\ proc = At("op", "encode")
    /\ \E v \in 0..control.rev : files' = Made("video", v)
    /\ Done(Once("encode"))
    /\ Goto("encoded", "none")
    /\ UNCHANGED <<plan, control, img, rejected, uploads>>

EncodeReceipt ==
    /\ proc.pc = "encoded" /\ Fresh("video", files.media["video"])
    /\ files' = [files EXCEPT !.encode = TRUE]
    /\ Goto("finish", "encode")
    /\ UNCHANGED <<plan, control, img, rejected, acts, uploads>>

RecoverEncode ==
    /\ proc = At("op", "recover") /\ files.encode
    /\ Goto("finish", "encode")
    /\ UNCHANGED <<plan, control, files, img, rejected, acts, uploads>>

\* Captions, thumbnail and metadata
MakeSidecars ==
    /\ proc = At("op", "sidecars")
    /\ \E v \in 0..control.rev : files' = Made("thumbnail", v) /\ FinishFresh("thumbnail", v, "sidecars")
    /\ UNCHANGED <<plan, control, img, rejected, acts, uploads>>

-----------------------------------------------------------------------------
(* images: baselines, reviews, one wave of corrections *)

InImages == proc = At("op", "images")
Reported(j) == img[j] \in {"pass", "fail", "technical"}
Step(j, p) == img' = [img EXCEPT ![j] = p]

\* A baseline; or, when every baseline is reported, the correction of one that
\* was rejected with a closed code.  A technical rejection has none.
Dispatchable(j) ==
    \/ j[2] = "baseline"
    \/ /\ \A s \in Scenes : Reported(<<s, "baseline">>) /\ img[<<s, "baseline">>] # "technical"
       /\ img[<<j[1], "baseline">>] = "fail"

\* authorize(): LIVE work is entered in the authorization ledger, a wave at a time.
Wave == LET first == Scenes \X {"baseline"}
        IN  IF \A j \in first : Reported(j) THEN {j \in Jobs \ first : Dispatchable(j)} ELSE first

AuthorizeWave ==
    /\ InImages /\ mode = "LIVE" /\ Preflight
    /\ ~(Wave \subseteq files.authority)
    /\ Cardinality(files.authority \cup Wave) <= AuthorityLimit
    /\ files' = [files EXCEPT !.authority = @ \cup Wave]
    /\ UNCHANGED <<plan, control, img, rejected, proc, acts, uploads>>

\* The executor posts a job once, and refuses one that it posted without an id.
PostImage(j) ==
    /\ InImages /\ img[j] = "none" /\ Dispatchable(j)
    /\ mode = "LIVE" => j \in files.authority
    /\ Paid(ForJob("image", j))
    /\ Step(j, "posted") \/ Step(j, "lost")
    /\ UNCHANGED <<plan, control, files, rejected, proc, uploads>>

ReceiveImage(j) ==
    /\ InImages /\ img[j] = "posted"
    /\ Step(j, "complete")
    /\ UNCHANGED <<plan, control, files, rejected, proc, acts, uploads>>

\* A LIVE verdict needs evidence that the pipeline has no form for, and raises.
MayRecord == mode = "TEST"

\* prepare_then_notify() of a bad image
RejectTechnically(j) ==
    /\ InImages /\ img[j] = "complete" /\ MayRecord
    /\ Step(j, "technical")
    /\ UNCHANGED <<plan, control, files, rejected, proc, acts, uploads>>

\* review(): without a decision on disk; an intent of LIVE work is ambiguous.
Reviewable(j) == img[j] = "complete" \/ (img[j] = "asked" /\ mode = "TEST")

\* The intent is written.
AskReview(j) ==
    /\ InImages /\ Reviewable(j)
    /\ Step(j, "asking")
    /\ UNCHANGED <<plan, control, files, rejected, proc, acts, uploads>>

\* visual_qa(): LIVE reviews are reserved in a ledger of their own
ReserveReview(j) ==
    /\ InImages /\ img[j] = "asking"
    /\ IF mode = "LIVE"
       THEN /\ Preflight /\ j \notin files.reviews /\ Cardinality(files.reviews) < AuthorityLimit
            /\ files' = [files EXCEPT !.reviews = @ \cup {j}]
       ELSE UNCHANGED files
    /\ Step(j, "reserved")
    /\ UNCHANGED <<plan, control, rejected, proc, acts, uploads>>

\* The reviewer's answer becomes the decision file, or is lost or malformed.
ReceiveReview(j) ==
    /\ InImages /\ img[j] = "reserved"
    /\ Paid(ForJob("review", j))
    /\ \E v \in {"decided_pass", "decided_fail", "asked"} : Step(j, v)
    /\ UNCHANGED <<plan, control, files, rejected, proc, uploads>>

Decided == [pass |-> "decided_pass", fail |-> "decided_fail"]
Judged == [pass |-> "judged_pass", fail |-> "judged_fail"]

\* record_visual_qa(): the executor's row, then the report
Record(j) ==
    /\ InImages /\ MayRecord
    /\ \E v \in {"pass", "fail"} :
          \/ img[j] = Decided[v] /\ Step(j, Judged[v])
          \/ img[j] = Judged[v] /\ Step(j, v)
    /\ UNCHANGED <<plan, control, files, rejected, proc, acts, uploads>>

Ready == \A s \in Scenes : \E a \in Attempts : img[<<s, a>>] = "pass"

\* render_ready(), approved_manifest(), the hero manifest and the cost ledger
CloseImages ==
    /\ InImages /\ Ready
    /\ \E v \in IF files.media["freeze"] = Nothing THEN 0..control.rev ELSE {files.media["freeze"]} :
          files' = [files EXCEPT !.media["freeze"] = v, !.hero = "planned"]
    /\ Goto("finish", "images")
    /\ UNCHANGED <<plan, control, img, rejected, acts, uploads>>

-----------------------------------------------------------------------------
(* The gates: deliver(), approve() *)

\* The contact sheet, or both media once every stage is complete, are frozen.
Freezes(k) == IF k = "freeze" THEN FreezeOwed ELSE AllComplete /\ ~FreezeOwed

FreezeArtifacts(k) ==
    LET frozen == IF k = "freeze" THEN {"freeze"} ELSE {"thumbnail", "video"}
    IN  /\ proc = At("run", "none") /\ k # "video" /\ Freezes(k)
        /\ \A m \in frozen : Fresh(m, files.media[m])
        /\ control' = [control EXCEPT !.artifacts =
                          [m \in Kinds |-> IF m \in frozen THEN files.media[m] ELSE @[m]]]
        /\ Goto("deliver", k)
        /\ UNCHANGED <<plan, files, img, rejected, acts, uploads>>

\* Mutant: a message without a receipt is sent again.
SendsAgain(k) == k \notin files.message

Sendable(k) == control.stages[Message[k]] = "none"

\* The stage of the message is STARTED with its intent; a message that was
\* delivered is not sent again, one without a receipt is ambiguous.
Deliver(k) ==
    /\ proc = At("deliver", k)
    /\ control.artifacts[k] = files.media[k]
    /\ k = "video" => control.approvals["thumbnail"] = control.artifacts["thumbnail"]
    /\ IF Sendable(k)
       THEN control' = [control EXCEPT !.stages[Message[k]] = "STARTED"] /\ Goto("send", k)
       ELSE k \in files.message /\ Goto("delivered", k) /\ UNCHANGED control
    /\ UNCHANGED <<plan, files, img, rejected, acts, uploads>>

Send(k) ==
    /\ proc = At("send", k)
    /\ Done(Once(Message[k]))
    /\ Goto("receipt", k) \/ Return
    /\ UNCHANGED <<plan, control, files, img, rejected, uploads>>

WriteReceipt(k) ==
    /\ proc = At("receipt", k)
    /\ files' = [files EXCEPT !.message = @ \cup {k}]
    /\ Goto("delivered", k)
    /\ UNCHANGED <<plan, control, img, rejected, acts, uploads>>

OpenGate(k) ==
    /\ proc = At("delivered", k) /\ Loads
    /\ control' = [control EXCEPT !.stages[Message[k]] = "COMPLETE", !.status = Waiting[k]]
    /\ Return
    /\ UNCHANGED <<plan, files, img, rejected, acts, uploads>>

\* approve(): the receipt file before the control file.  The receipts of the two
\* media carry the time, so one that is there already is refused.
Approve(k) ==
    /\ Begin /\ control.status = Waiting[k] /\ control.artifacts[k] = files.media[k]
    /\ k = "freeze" \/ files.approval[k] = Nothing
    /\ files' = [files EXCEPT !.approval[k] = control.artifacts[k]]
    /\ Goto(IF k = "video" THEN "package" ELSE "approve", k)
    /\ UNCHANGED <<plan, control, img, rejected, acts, uploads>>

\* _freeze_publication_package()
FreezePackage ==
    /\ proc.pc = "package" /\ \A k \in Kinds : files.approval[k] # Nothing
    /\ files' = [files EXCEPT !.package = "frozen"]
    /\ Goto("approve", "video")
    /\ UNCHANGED <<plan, control, img, rejected, acts, uploads>>

SaveApproval(k) ==
    /\ proc = At("approve", k)
    /\ control' = [control EXCEPT !.approvals[k] = control.artifacts[k], !.status = Approved[k],
                      !.stages["package"] = IF k = "video" THEN "COMPLETE" ELSE @,
                      !.package = IF k = "video" THEN "frozen" ELSE @]
    /\ Return
    /\ UNCHANGED <<plan, files, img, rejected, acts, uploads>>

-----------------------------------------------------------------------------
(* authorize_publication(), publish() *)

\* All three approvals bind the frozen artifacts and the bytes on disk.
ApprovalsStand == \A k \in Kinds :
    control.approvals[k] = control.artifacts[k] /\ control.artifacts[k] = files.media[k]

Authorize ==
    /\ Begin /\ control.status = Approved["video"] /\ ApprovalsStand /\ ~files.authorization
    /\ files' = [files EXCEPT !.authorization = TRUE]
    /\ Goto("authorize", "none")
    /\ UNCHANGED <<plan, control, img, rejected, acts, uploads>>

SaveAuthorization ==
    /\ proc.pc = "authorize"
    /\ control' = [control EXCEPT !.status = "READY_FOR_PUBLICATION"]
    /\ Return
    /\ UNCHANGED <<plan, files, img, rejected, acts, uploads>>

\* _publication_inputs(): an unuploaded package, its receipts and the authorization
Publishable ==
    /\ control.status = "READY_FOR_PUBLICATION" /\ files.package = "frozen" /\ files.authorization
    /\ \A k \in Kinds : files.approval[k] = files.media[k]
    /\ ~files.receipt

\* Mutant: an upload that had no answer is tried again.
PublishAgain ==
    /\ Begin /\ Publishable /\ files.intent # "REMOTE_ACCEPTED"
    /\ files' = [files EXCEPT !.intent = "PENDING"] /\ Goto("upload", "none")
    /\ UNCHANGED <<plan, control, img, rejected, acts, uploads>>

\* The intent is written once; one that has a video id is only read back.
Publish ==
    /\ Begin /\ Publishable
    /\ \/ files.intent = "none" /\ files' = [files EXCEPT !.intent = "PENDING"] /\ Goto("upload", "none")
       \/ files.intent = "REMOTE_ACCEPTED" /\ Goto("readback", "none") /\ UNCHANGED files
    /\ UNCHANGED <<plan, control, img, rejected, acts, uploads>>

Uploaded == /\ Done(Once("upload"))
            /\ uploads' = Append(uploads, [rev |-> control.rev, media |-> [k \in Kinds |-> files.media[k]],
                                           approved |-> files.approval, rejected |-> rejected])

\* The upload and what the intent says of it afterwards; without an answer it may
\* have reached the channel or not, and the process may die before it says so.
Upload ==
    /\ proc.pc = "upload"
    /\ \/ Uploaded /\ files' = [files EXCEPT !.intent = "REMOTE_ACCEPTED"] /\ Goto("readback", "none")
       \/ /\ Uploaded \/ UNCHANGED <<acts, uploads>>
          /\ \E i \in {"PENDING", "AMBIGUOUS", "FAILED"} : files' = [files EXCEPT !.intent = i]
          /\ Return
    /\ UNCHANGED <<plan, control, img, rejected>>

\* The remote readback, then the receipt, then the package, then the control file
RecordPublication ==
    /\ proc.pc = "readback"
    /\ files' = [files EXCEPT !.receipt = TRUE]
    /\ Goto("repackage", "none")
    /\ UNCHANGED <<plan, control, img, rejected, acts, uploads>>

RewritePackage ==
    /\ proc.pc = "repackage"
    /\ files' = [files EXCEPT !.package = "published"]
    /\ Goto("publish", "none")
    /\ UNCHANGED <<plan, control, img, rejected, acts, uploads>>

SavePublished ==
    /\ proc.pc = "publish"
    /\ control' = [control EXCEPT !.status = "PUBLISHED", !.package = "published"]
    /\ Return
    /\ UNCHANGED <<plan, files, img, rejected, acts, uploads>>

-----------------------------------------------------------------------------
RevisionNext ==
    \/ CreatePlan \/ ApprovePlan \/ Reject \/ Stop \/ BeginRun
    \/ \E s \in ToSet(Stages) : StartStage(s)
    \/ FinishStage \/ WriteScript \/ Synthesize
    \/ PostAudioContracts \/ NoHeroes \/ PlanMotion \/ FinalQA \/ HeroIntent \/ HeroSubmit
    \/ RenderVideo \/ EncodeReceipt \/ RecoverEncode \/ MakeSidecars
    \/ \E j \in Jobs : \/ PostImage(j) \/ ReceiveImage(j) \/ RejectTechnically(j)
                        \/ AskReview(j) \/ ReserveReview(j) \/ ReceiveReview(j) \/ Record(j)
    \/ AuthorizeWave \/ CloseImages
    \/ \E k \in Kinds : \/ FreezeArtifacts(k) \/ Deliver(k) \/ Send(k) \/ WriteReceipt(k) \/ OpenGate(k)
                         \/ Approve(k) \/ SaveApproval(k)
    \/ FreezePackage \/ Authorize \/ SaveAuthorization
    \/ Publish \/ Upload \/ RecordPublication \/ RewritePackage \/ SavePublished

RevisionSpec == RevisionInit /\ [][RevisionNext]_vars

-----------------------------------------------------------------------------
(* Properties *)

\* "Ambiguous paid or delivery operations are recover-only and never blindly
\* repeated": in one revision, however often the command is run again, LIVE
\* authoring, each image and each review, and in every mode the encode, each
\* message and the upload, happen at most once (stage, deliver, publish).
RevisionActsOnce == \A a \in Acts : acts[a] <= 1

\* Every upload is the media of one revision, approved at all three gates as
\* they were uploaded, none of them rejected in an earlier revision; and a
\* revision is uploaded once (publish, fresh, reject).
PublishedRevisionApproved ==
    \A i \in DOMAIN uploads :
        /\ \A k \in Kinds : /\ uploads[i].approved[k] = uploads[i].media[k]
                            /\ <<k, uploads[i].media[k]>> \notin uploads[i].rejected
        /\ \A j \in DOMAIN uploads : uploads[i].rev = uploads[j].rev => i = j

\* "Warm resume revalidates hashes and reuses completed work": between commands
\* the outputs of the completed stages have the hashes that load() expects.
WorkspaceLoads == proc = Free /\ control # Nothing => Loads
=============================================================================
