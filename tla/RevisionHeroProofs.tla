--------------------------- MODULE RevisionHeroProofs ---------------------------
(***************************************************************************)
(* The two live parts of a revision that pay: the harness and the          *)
(* serverless provider its hero stage submits to (revision_live.py).       *)
(*                                                                         *)
(* The harness, for any scenes, budget and number of rejections.  Commands *)
(* stop anywhere and are run again, so "at most once" rests on what a stop *)
(* leaves behind: as long as an act can still be made, the files say that  *)
(* it has not been made (ActsAreAhead).                                    *)
(*                                                                         *)
(* The provider: one serverless request for every number of drivers and    *)
(* cancellers.  Its properties rest on one fact about the copies that      *)
(* calls hold across their awaits: a copy is saved late, so it must still  *)
(* be true then.  What makes it true is that an ended job stays as it      *)
(* ended (CopiesAreEvidenced), that a claim of a cancellation is never     *)
(* taken back (ClaimsAreKept), and that whoever cancels has made its       *)
(* claim durable first, so a driver that found no claim races nobody.      *)
(***************************************************************************)
EXTENDS RevisionPipeline, RunPodHero, TLAPS

\* An act of stage s can still come: the stage was never started, or its operation is at place.
Ahead(s, place) == (control # Nothing /\ control.stages[s] = "none") \/ proc = place

Unsent(a) == acts[a] = 0

\* Without a control file nothing has happened.
NothingYet == control = Nothing => proc = Free /\ uploads = <<>> /\ \A a \in Acts : Unsent(a)

\* Paid authoring, the encode and the messages: behind a stage that is STARTED first
StagesAreAhead ==
    /\ \A s \in {"script", "audio"} : mode = "LIVE" /\ Ahead(s, At("op", s)) => Unsent(Once(s))
    /\ Ahead("encode", At("op", "encode")) => Unsent(Once("encode"))
    /\ \A k \in Kinds : Ahead(Message[k], At("send", k)) => Unsent(Once(Message[k]))
    /\ \A s \in {"script", "audio", "encode"} : proc = At("op", s) => control.stages[s] # "none"
    /\ \A k \in Kinds : proc = At("send", k) => control.stages[Message[k]] # "none"

\* Images and reviews: behind the job's progress, of authorised jobs
JobsAreAhead ==
    mode = "LIVE" => \A j \in Jobs :
        /\ img[j] = "none" => Unsent(ForJob("image", j))
        /\ img[j] \in {"none", "posted", "complete", "asking", "reserved"} => Unsent(ForJob("review", j))
        /\ img[j] # "none" => j \in files.authority

\* The hero request: its intent breaks the hash of the completed image stage, so that
\* after the request no command loads the workspace again.
HeroIsAhead ==
    /\ proc \in {At("op", "heroes"), At("hero", "none")} => control # Nothing /\ Complete("images")
    /\ proc.pc = "hero" => proc.arg = "none" /\ files.hero = "touched"
    /\ ~Unsent(Once("hero")) => /\ control # Nothing /\ Complete("images") /\ files.hero = "touched"
                                /\ proc \in {Free, At("finish", "heroes")}

UploadIsAhead == files.intent = "none" \/ proc.pc = "upload" => Unsent(Once("upload"))

ActsAreAhead == NothingYet /\ StagesAreAhead /\ JobsAreAhead /\ HeroIsAhead /\ UploadIsAhead

\* What was frozen or approved is none of the rejected media, and what is about to be
\* uploaded is what was approved.
ApprovedIsFresh ==
    /\ \A m \in Media : Identity(m, Nothing) \notin rejected
    /\ control # Nothing => \A k \in Kinds : Fresh(k, control.artifacts[k])
    /\ \A k \in Kinds : Fresh(k, files.approval[k])
    /\ proc.pc = "upload" => \A k \in Kinds : files.approval[k] = files.media[k]

\* Uploads are of earlier revisions until this one has been uploaded.
UploadsInOrder ==
    \A i \in DOMAIN uploads : /\ uploads[i].rev <= control.rev
                              /\ Unsent(Once("upload")) => uploads[i].rev < control.rev

RevisionInv ==
    /\ RevisionTypeOK
    /\ RevisionActsOnce /\ ActsAreAhead
    /\ PublishedRevisionApproved /\ ApprovedIsFresh /\ UploadsInOrder

-----------------------------------------------------------------------------
(* Lemmas about the names *)

\* The stages of the control file, one by one.
LEMMA StageNamesAre ==
    /\ StageNames = {"script", "audio", "contracts", "images", "heroes", "motion", "encode", "sidecars",
                     "final", "telegram_freeze", "telegram_thumbnail", "telegram_video", "package"}
    /\ ToSet(Stages) = {"script", "audio", "contracts", "images", "heroes", "motion", "encode", "sidecars",
                        "final"}
    /\ \A k \in Kinds : Message[k] \in {"telegram_freeze", "telegram_thumbnail", "telegram_video"}
    /\ \A k, l \in Kinds : Message[k] = Message[l] => k = l
<1>1. ToSet(Stages) = {"script", "audio", "contracts", "images", "heroes", "motion", "encode", "sidecars",
                       "final"}
  <2>1. DOMAIN Stages = 1..9
    BY DEF Stages
  <2> QED
    BY <2>1 DEF ToSet, Stages
<1>2. {Message[k] : k \in Kinds} = {"telegram_freeze", "telegram_thumbnail", "telegram_video"}
  BY DEF Message, Kinds
<1> QED
  BY <1>1, <1>2 DEF StageNames, Message, Kinds

\* Acts of different names, or of different jobs, are different acts.
LEMMA ActsDiffer ==
    /\ \A m, n : Once(m) = Once(n) => m = n
    /\ \A m, n, j : Once(m) = ForJob(n, j) => m = n
    /\ \A m, n : \A i, j \in Jobs : ForJob(m, i) = ForJob(n, j) => m = n /\ i = j
BY DEF Once, ForJob, Jobs

\* The acts of the revision and of its jobs are acts.
LEMMA ActsAre ==
    /\ \A n \in {"script", "audio", "encode", "hero", "upload"} : Once(n) \in Acts
    /\ \A k \in Kinds : Once(Message[k]) \in Acts
    /\ \A j \in Jobs : ForJob("image", j) \in Acts /\ ForJob("review", j) \in Acts
BY DEF Acts

\* Making an act counts it and no other.
LEMMA DoneCounts ==
    ASSUME acts \in [Acts -> 0..2], NEW a \in Acts, Done(a)
    PROVE  /\ acts' \in [Acts -> 0..2]
           /\ Unsent(a) => acts'[a] = 1
           /\ \A b \in Acts : b # a => acts'[b] = acts[b]
BY DEF Done, Unsent

\* As long as the workspace loads, no hero request has been made (load, execute_heroes).
LEMMA LoadsBeforeHero ==
    ASSUME RevisionInv, Loads \/ proc \notin {Free, At("finish", "heroes")}
    PROVE  Unsent(Once("hero"))
BY DEF RevisionInv, ActsAreAhead, HeroIsAhead, Loads, Complete

-----------------------------------------------------------------------------
(* Steps that make no outbound act *)

Early == {"none", "posted", "complete", "asking", "reserved"}

\* No stage is taken back, and an operation or a message begins with its stage.
StagesMove ==
    /\ \A s \in StageNames : control'.stages[s] = "none" => control.stages[s] = "none"
    /\ Complete("images") => Complete("images")'
    /\ \A s \in {"script", "audio"} : mode = "LIVE" /\ proc' = At("op", s) => Ahead(s, At("op", s))
    /\ proc' = At("op", "encode") => Ahead("encode", At("op", "encode"))
    /\ \A k \in Kinds : proc' = At("send", k) => Ahead(Message[k], At("send", k))
    /\ \A s \in {"script", "audio", "encode"} : proc' = At("op", s) => control'.stages[s] # "none"
    /\ \A k \in Kinds : proc' = At("send", k) => control'.stages[Message[k]] # "none"

\* No job goes back, and none is posted.
JobsMove ==
    /\ \A j \in Jobs : /\ img'[j] = "none" <=> img[j] = "none"
                       /\ mode = "LIVE" /\ img'[j] \in Early => img[j] \in Early
    /\ files.authority \subseteq files'.authority

\* The hero stage comes after the images, and nothing but a stop after its request.
HeroMoves ==
    /\ proc' \in {At("op", "heroes"), At("hero", "none")} => Complete("images")'
    /\ proc'.pc = "hero" => proc'.arg = "none" /\ files'.hero = "touched"
    /\ Unsent(Once("hero")) \/ (proc' = Free /\ UNCHANGED <<control, files>>)

\* An upload begins with the intent, over the approved media.
UploadMoves ==
    /\ files'.intent = "none" => files.intent = "none"
    /\ proc'.pc = "upload" => /\ files.intent = "none" \/ proc.pc = "upload"
                              /\ \A k \in Kinds : files'.approval[k] = files'.media[k]

\* Fresh media are frozen, and frozen media are approved.
ApprovalsMove ==
    /\ \A k \in Kinds : control'.artifacts[k] # control.artifacts[k] => Fresh(k, control'.artifacts[k])
    /\ \A k \in Kinds : files'.approval[k] \in {files.approval[k], control.artifacts[k]}

Quiet ==
    /\ UNCHANGED <<mode, heroes, rejected, acts, uploads>>
    /\ control # Nothing /\ control' # Nothing /\ control'.rev = control.rev
    /\ StagesMove /\ JobsMove /\ HeroMoves /\ UploadMoves /\ ApprovalsMove

\* A step of this kind keeps the invariant.
LEMMA QuietKeeps ==
    ASSUME RevisionInv, RevisionTypeOK', Quiet
    PROVE  RevisionInv'
<1> USE DEF Quiet
<1>1. RevisionActsOnce' /\ PublishedRevisionApproved'
  BY DEF RevisionInv, RevisionActsOnce, PublishedRevisionApproved
<1>2. NothingYet'
  BY DEF NothingYet
<1>3. StagesAreAhead'
  <2>2. ASSUME NEW s \in {"script", "audio"}, mode' = "LIVE", Ahead(s, At("op", s))'
        PROVE  Unsent(Once(s))'
    <3>1. Ahead(s, At("op", s))
      BY <2>2, StageNamesAre DEF StagesMove, Ahead
    <3> QED
      BY <3>1, <2>2 DEF RevisionInv, ActsAreAhead, StagesAreAhead, Unsent
  <2>3. ASSUME Ahead("encode", At("op", "encode"))'
        PROVE  Unsent(Once("encode"))'
    <3>1. Ahead("encode", At("op", "encode"))
      BY <2>3, StageNamesAre DEF StagesMove, Ahead
    <3> QED
      BY <3>1 DEF RevisionInv, ActsAreAhead, StagesAreAhead, Unsent
  <2>4. ASSUME NEW k \in Kinds, Ahead(Message[k], At("send", k))'
        PROVE  Unsent(Once(Message[k]))'
    <3>1. Message[k] \in StageNames
      BY StageNamesAre
    <3>2. Ahead(Message[k], At("send", k))
      BY <2>4, <3>1 DEF StagesMove, Ahead, At
    <3> QED
      BY <3>2 DEF RevisionInv, ActsAreAhead, StagesAreAhead, Unsent
  <2> QED
    BY <2>2, <2>3, <2>4 DEF StagesAreAhead, StagesMove
<1>4. JobsAreAhead'
  BY DEF RevisionInv, ActsAreAhead, JobsAreAhead, JobsMove, Early, Unsent, ForJob
<1>5. HeroIsAhead'
  <2>1. CASE Unsent(Once("hero"))
    BY <2>1 DEF HeroMoves, HeroIsAhead, Unsent, Once
  <2>2. CASE proc' = Free /\ UNCHANGED <<control, files>>
    BY <2>2 DEF RevisionInv, ActsAreAhead, HeroIsAhead, Unsent, Once, Complete, Free, At
  <2> QED
    BY <2>1, <2>2 DEF HeroMoves
<1>6. UploadIsAhead'
  BY DEF RevisionInv, ActsAreAhead, UploadIsAhead, UploadMoves, Unsent, Once
<1>7. ApprovedIsFresh'
  BY DEF RevisionInv, ApprovedIsFresh, ApprovalsMove, UploadMoves, Fresh, Identity
<1>8. UploadsInOrder'
  BY DEF RevisionInv, UploadsInOrder, Unsent, Once
<1> QED
  BY <1>1, <1>2, <1>3, <1>4, <1>5, <1>6, <1>7, <1>8 DEF RevisionInv, ActsAreAhead

\* A command that is under way, or can begin, has a control file.
LEMMA InCommand ==
    ASSUME RevisionInv, Loads \/ proc # Free
    PROVE  control \in Control /\ control # Nothing
BY DEF RevisionInv, RevisionTypeOK, ActsAreAhead, NothingYet, Loads

\* The statuses of the gates are statuses.
LEMMA StatusesAre ==
    /\ {"READY", "READY_RENDER", "READY_VIDEO_DELIVERY", "READY_FOR_PUBLICATION", "PUBLISHED"} \subseteq Statuses
    /\ \A k \in Kinds : Waiting[k] \in Statuses /\ Approved[k] \in Statuses
BY DEF Statuses, WaitingStates, Waiting, Approved, Kinds

\* The next stage is not complete, and the images come before the heroes.
LEMMA NextStageFacts ==
    ASSUME NEW s, NextStage(s)
    PROVE  ~Complete(s) /\ (s = "heroes" => Complete("images"))
<1>1. PICK i \in DOMAIN Stages : /\ s = Stages[i] /\ ~Complete(s)
                                 /\ \A h \in 1..(i - 1) : Complete(Stages[h])
  BY DEF NextStage
<1>2. i \in 1..9 /\ Stages[4] = "images" /\ (s = "heroes" => i = 5)
  <2>1. DOMAIN Stages = 1..9
    BY DEF Stages
  <2>2. \A h \in 1..9 : Stages[h] = "heroes" => h = 5
    BY DEF Stages
  <2> QED
    BY <1>1, <2>1, <2>2 DEF Stages
<1> QED
  BY <1>1, <1>2

\* A version that was made by now is a version.
LEMMA MadeVersions ==
    ASSUME control \in Control
    PROVE  \A v \in 0..control.rev : v \in Bytes
BY RevisionConstants DEF Control, Bytes, Versions

\* A wave is a set of jobs.
LEMMA WaveOfJobs == Wave \subseteq Jobs
BY DEF Wave, Jobs, Attempts

\* approve_plan() keeps the invariant.
LEMMA ApprovePlanKeeps ==
    ASSUME RevisionInv, ApprovePlan
    PROVE  RevisionInv'
<1>1. control \in Control /\ control # Nothing
  BY InCommand DEF ApprovePlan, Begin, At, Free
<1>2. control' \in Control /\ control'.rev = control.rev
  BY <1>1, StageNamesAre, StatusesAre DEF Control, ApprovePlan, Begin, At
<1>3. RevisionTypeOK'
  <2> QED
    BY <1>1, <1>2 DEF RevisionInv, RevisionTypeOK, ApprovePlan, Begin, plan
<1>4. Quiet
  <2>1. UNCHANGED <<mode, heroes, rejected, acts, uploads>> /\ control' # Nothing
    BY <1>1, <1>2, NoControlFile DEF ApprovePlan, Begin, plan
  <2>2. StagesMove
    BY <1>1, <1>2, StageNamesAre DEF StagesMove, ApprovePlan, Begin, At, Free, Control,
       Complete, Ahead, Message, Kinds
  <2>3. JobsMove
    BY <1>1 DEF RevisionInv, RevisionTypeOK, JobsMove, ApprovePlan, Begin, Early, Files
  <2>4. HeroMoves
    BY <1>1, <1>2, LoadsBeforeHero, StageNamesAre DEF RevisionInv, RevisionTypeOK,
       ActsAreAhead, HeroIsAhead, HeroMoves, ApprovePlan, Begin, At, Free, Complete, Control,
       Files
  <2>5. UploadMoves
    BY <1>1 DEF RevisionInv, RevisionTypeOK, UploadMoves, ApprovePlan, Begin, At, Free, Files
  <2>6. ApprovalsMove
    BY <1>1, <1>2 DEF RevisionInv, RevisionTypeOK, ApprovalsMove, ApprovePlan, Begin, Control,
       Files, Kinds
  <2> QED
    BY <1>1, <1>2, <2>1, <2>2, <2>3, <2>4, <2>5, <2>6 DEF Quiet
<1> QED
  BY <1>3, <1>4, QuietKeeps

\* run() begins.
LEMMA BeginRunKeeps ==
    ASSUME RevisionInv, BeginRun
    PROVE  RevisionInv'
<1>1. control \in Control /\ control # Nothing
  BY InCommand DEF BeginRun, Begin, Goto, At, Free
<1>2. control' = control
  BY DEF BeginRun, Begin, Goto
<1>3. RevisionTypeOK'
  <2>3. proc' \in [pc : PCs, arg : Args]
    BY StageNamesAre DEF RevisionInv, RevisionTypeOK, PCs, Args, Kinds, BeginRun, Begin, Goto,
       At, Free
  <2> QED
    BY <1>1, <1>2, <2>3 DEF RevisionInv, RevisionTypeOK, BeginRun, Begin, Goto, plan
<1>4. Quiet
  <2>1. UNCHANGED <<mode, heroes, rejected, acts, uploads>> /\ control' # Nothing
    BY <1>1, <1>2, NoControlFile DEF BeginRun, Begin, Goto, plan
  <2>2. StagesMove
    BY <1>1, <1>2, StageNamesAre DEF StagesMove, BeginRun, Begin, Goto, At, Free, Control,
       Complete, Ahead, Message, Kinds
  <2>3. JobsMove
    BY <1>1 DEF RevisionInv, RevisionTypeOK, JobsMove, BeginRun, Begin, Goto, Early, Files
  <2>4. HeroMoves
    BY <1>1, <1>2, LoadsBeforeHero, StageNamesAre DEF RevisionInv, RevisionTypeOK,
       ActsAreAhead, HeroIsAhead, HeroMoves, BeginRun, Begin, Goto, At, Free, Complete,
       Control, Files
  <2>5. UploadMoves
    BY <1>1 DEF RevisionInv, RevisionTypeOK, UploadMoves, BeginRun, Begin, Goto, At, Free, Files
  <2>6. ApprovalsMove
    BY <1>1, <1>2 DEF RevisionInv, RevisionTypeOK, ApprovalsMove, BeginRun, Begin, Goto,
       Control, Files, Kinds
  <2> QED
    BY <1>1, <1>2, <2>1, <2>2, <2>3, <2>4, <2>5, <2>6 DEF Quiet
<1> QED
  BY <1>3, <1>4, QuietKeeps

\* A stage is STARTED before its operation.
LEMMA StartStageKeeps ==
    ASSUME RevisionInv, NEW s \in ToSet(Stages), StartStage(s)
    PROVE  RevisionInv'
<1>1. control \in Control /\ control # Nothing
  BY InCommand DEF StartStage, Goto, At, Free
<1>2. control' \in Control /\ control'.rev = control.rev
  BY <1>1, StageNamesAre, StatusesAre DEF Control, StartStage, Goto, At
<1>3. RevisionTypeOK'
  <2>3. proc' \in [pc : PCs, arg : Args]
    BY StageNamesAre DEF RevisionInv, RevisionTypeOK, PCs, Args, Kinds, StartStage, Goto, At,
       Free
  <2> QED
    BY <1>1, <1>2, <2>3 DEF RevisionInv, RevisionTypeOK, StartStage, Goto, plan
<1>4. Quiet
  <2>1. UNCHANGED <<mode, heroes, rejected, acts, uploads>> /\ control' # Nothing
    BY <1>1, <1>2, NoControlFile DEF StartStage, Goto, plan
  <2>2. StagesMove
    <3>1. ~Complete(s) /\ s \in StageNames /\ s \notin {Message[k] : k \in Kinds}
      BY NextStageFacts, StageNamesAre DEF StartStage
    <3>2. /\ \A r \in StageNames \ {s} : control'.stages[r] = control.stages[r]
          /\ control'.stages[s] = "STARTED"
      BY <1>1, <3>1 DEF StartStage, Control
    <3>3. proc' = At("op", IF s = "encode" /\ control.stages[s] = "STARTED" THEN "recover" ELSE s)
      BY DEF StartStage, Goto
    <3>4. control.stages[s] \in {"none", "STARTED"}
      BY <1>1, <3>1 DEF Control, Complete
    <3>5. control.stages[s] = "none" \/ Recoverable(s)
      BY DEF StartStage
    <3>6. \A r \in StageNames : control'.stages[r] = "none" => control.stages[r] = "none"
      BY <3>2
    <3>7. Complete("images") => Complete("images")'
      BY <3>1, <3>2, StageNamesAre DEF Complete
    <3>8. \A r \in {"script", "audio"} : mode = "LIVE" /\ proc' = At("op", r) => Ahead(r, At("op", r))
      BY <1>1, <3>3, <3>5 DEF At, Ahead, Recoverable
    <3>9. proc' = At("op", "encode") => Ahead("encode", At("op", "encode"))
      BY <1>1, <3>3, <3>4 DEF At, Ahead
    <3>10. \A k \in Kinds : proc' # At("send", k)
      BY <3>3 DEF At
    <3>11. \A r \in {"script", "audio", "encode"} : proc' = At("op", r) => control'.stages[r] # "none"
      BY <3>2, <3>3 DEF At
    <3> QED
      BY <3>6, <3>7, <3>8, <3>9, <3>10, <3>11 DEF StagesMove
  <2>3. JobsMove
    BY <1>1 DEF RevisionInv, RevisionTypeOK, JobsMove, StartStage, Goto, Early, Files
  <2>4. HeroMoves
    <3>1. Unsent(Once("hero"))
      BY LoadsBeforeHero DEF StartStage, At, Free
    <3>2. s = "heroes" => Complete("images")'
      BY <1>1, NextStageFacts, StageNamesAre DEF StartStage, Complete, Control
    <3>3. proc' = At("op", IF s = "encode" /\ control.stages[s] = "STARTED" THEN "recover" ELSE s)
      BY DEF StartStage, Goto
    <3> QED
      BY <3>1, <3>2, <3>3 DEF HeroMoves, At
  <2>5. UploadMoves
    BY <1>1 DEF RevisionInv, RevisionTypeOK, UploadMoves, StartStage, Goto, At, Free, Files
  <2>6. ApprovalsMove
    BY <1>1, <1>2 DEF RevisionInv, RevisionTypeOK, ApprovalsMove, StartStage, Goto, Control,
       Files, Kinds
  <2> QED
    BY <1>1, <1>2, <2>1, <2>2, <2>3, <2>4, <2>5, <2>6 DEF Quiet
<1> QED
  BY <1>3, <1>4, QuietKeeps

\* COMPLETE is saved behind the operation.
LEMMA FinishStageKeeps ==
    ASSUME RevisionInv, FinishStage
    PROVE  RevisionInv'
<1>1. control \in Control /\ control # Nothing
  BY InCommand DEF FinishStage, Goto, At, Free
<1>2. control' \in Control /\ control'.rev = control.rev
  BY <1>1, StageNamesAre, StatusesAre DEF Control, FinishStage, Goto, At
<1>3. RevisionTypeOK'
  <2>3. proc' \in [pc : PCs, arg : Args]
    BY StageNamesAre DEF RevisionInv, RevisionTypeOK, PCs, Args, Kinds, FinishStage, Goto, At,
       Free
  <2> QED
    BY <1>1, <1>2, <2>3 DEF RevisionInv, RevisionTypeOK, FinishStage, Goto, plan
<1>4. Quiet
  <2>1. UNCHANGED <<mode, heroes, rejected, acts, uploads>> /\ control' # Nothing
    BY <1>1, <1>2, NoControlFile DEF FinishStage, Goto, plan
  <2>2. StagesMove
    BY <1>1, <1>2, StageNamesAre DEF StagesMove, FinishStage, Goto, At, Free, Control,
       Complete, Ahead, Message, Kinds
  <2>3. JobsMove
    BY <1>1 DEF RevisionInv, RevisionTypeOK, JobsMove, FinishStage, Goto, Early, Files
  <2>4. HeroMoves
    BY <1>1, <1>2, LoadsBeforeHero, StageNamesAre DEF RevisionInv, RevisionTypeOK,
       ActsAreAhead, HeroIsAhead, HeroMoves, FinishStage, Goto, At, Free, Complete, Control,
       Files
  <2>5. UploadMoves
    BY <1>1 DEF RevisionInv, RevisionTypeOK, UploadMoves, FinishStage, Goto, At, Free, Files
  <2>6. ApprovalsMove
    BY <1>1, <1>2 DEF RevisionInv, RevisionTypeOK, ApprovalsMove, FinishStage, Goto, Control,
       Files, Kinds
  <2> QED
    BY <1>1, <1>2, <2>1, <2>2, <2>3, <2>4, <2>5, <2>6 DEF Quiet
<1> QED
  BY <1>3, <1>4, QuietKeeps

\* A stage derives its outputs.
LEMMA DeriveKeeps ==
    ASSUME RevisionInv, NEW s \in ToSet(Stages), Derive(s)
    PROVE  RevisionInv'
<1>1. control \in Control /\ control # Nothing
  BY InCommand DEF Derive, Goto, At, Free
<1>2. control' = control
  BY DEF Derive, Goto
<1>3. RevisionTypeOK'
  <2>3. proc' \in [pc : PCs, arg : Args]
    BY StageNamesAre DEF RevisionInv, RevisionTypeOK, PCs, Args, Kinds, Derive, Goto, At, Free
  <2> QED
    BY <1>1, <1>2, <2>3 DEF RevisionInv, RevisionTypeOK, Derive, Goto, plan
<1>4. Quiet
  <2>1. UNCHANGED <<mode, heroes, rejected, acts, uploads>> /\ control' # Nothing
    BY <1>1, <1>2, NoControlFile DEF Derive, Goto, plan
  <2>2. StagesMove
    BY <1>1, <1>2, StageNamesAre DEF StagesMove, Derive, Goto, At, Free, Control, Complete,
       Ahead, Message, Kinds
  <2>3. JobsMove
    BY <1>1 DEF RevisionInv, RevisionTypeOK, JobsMove, Derive, Goto, Early, Files
  <2>4. HeroMoves
    BY <1>1, <1>2, LoadsBeforeHero, StageNamesAre DEF RevisionInv, RevisionTypeOK,
       ActsAreAhead, HeroIsAhead, HeroMoves, Derive, Goto, At, Free, Complete, Control, Files
  <2>5. UploadMoves
    BY <1>1 DEF RevisionInv, RevisionTypeOK, UploadMoves, Derive, Goto, At, Free, Files
  <2>6. ApprovalsMove
    BY <1>1, <1>2 DEF RevisionInv, RevisionTypeOK, ApprovalsMove, Derive, Goto, Control, Files,
       Kinds
  <2> QED
    BY <1>1, <1>2, <2>1, <2>2, <2>3, <2>4, <2>5, <2>6 DEF Quiet
<1> QED
  BY <1>3, <1>4, QuietKeeps

\* A started encode with its receipt is taken over.
LEMMA RecoverEncodeKeeps ==
    ASSUME RevisionInv, RecoverEncode
    PROVE  RevisionInv'
<1>1. control \in Control /\ control # Nothing
  BY InCommand DEF RecoverEncode, Goto, At, Free
<1>2. control' = control
  BY DEF RecoverEncode, Goto
<1>3. RevisionTypeOK'
  <2>3. proc' \in [pc : PCs, arg : Args]
    BY StageNamesAre DEF RevisionInv, RevisionTypeOK, PCs, Args, Kinds, RecoverEncode, Goto,
       At, Free
  <2> QED
    BY <1>1, <1>2, <2>3 DEF RevisionInv, RevisionTypeOK, RecoverEncode, Goto, plan
<1>4. Quiet
  <2>1. UNCHANGED <<mode, heroes, rejected, acts, uploads>> /\ control' # Nothing
    BY <1>1, <1>2, NoControlFile DEF RecoverEncode, Goto, plan
  <2>2. StagesMove
    BY <1>1, <1>2, StageNamesAre DEF StagesMove, RecoverEncode, Goto, At, Free, Control,
       Complete, Ahead, Message, Kinds
  <2>3. JobsMove
    BY <1>1 DEF RevisionInv, RevisionTypeOK, JobsMove, RecoverEncode, Goto, Early, Files
  <2>4. HeroMoves
    BY <1>1, <1>2, LoadsBeforeHero, StageNamesAre DEF RevisionInv, RevisionTypeOK,
       ActsAreAhead, HeroIsAhead, HeroMoves, RecoverEncode, Goto, At, Free, Complete, Control,
       Files
  <2>5. UploadMoves
    BY <1>1 DEF RevisionInv, RevisionTypeOK, UploadMoves, RecoverEncode, Goto, At, Free, Files
  <2>6. ApprovalsMove
    BY <1>1, <1>2 DEF RevisionInv, RevisionTypeOK, ApprovalsMove, RecoverEncode, Goto, Control,
       Files, Kinds
  <2> QED
    BY <1>1, <1>2, <2>1, <2>2, <2>3, <2>4, <2>5, <2>6 DEF Quiet
<1> QED
  BY <1>3, <1>4, QuietKeeps

\* A command stops where it is.
LEMMA StopKeeps ==
    ASSUME RevisionInv, Stop
    PROVE  RevisionInv'
<1>1. control \in Control /\ control # Nothing
  BY InCommand DEF Stop, Return, At, Free
<1>2. control' = control
  BY DEF Stop, Return
<1>3. RevisionTypeOK'
  <2>2. img' \in [Jobs -> Progress]
    BY DEF RevisionInv, RevisionTypeOK, Progress, Stop, Return
  <2>3. proc' \in [pc : PCs, arg : Args]
    BY StageNamesAre DEF RevisionInv, RevisionTypeOK, PCs, Args, Kinds, Stop, Return, At, Free
  <2> QED
    BY <1>1, <1>2, <2>2, <2>3 DEF RevisionInv, RevisionTypeOK, Stop, Return, plan
<1>4. Quiet
  <2>1. UNCHANGED <<mode, heroes, rejected, acts, uploads>> /\ control' # Nothing
    BY <1>1, <1>2, NoControlFile DEF Stop, Return, plan
  <2>2. StagesMove
    BY <1>1, <1>2, StageNamesAre DEF StagesMove, Stop, Return, At, Free, Control, Complete,
       Ahead, Message, Kinds
  <2>3. JobsMove
    BY <1>1 DEF RevisionInv, RevisionTypeOK, JobsMove, Stop, Return, Early, Files
  <2>4. HeroMoves
    BY <1>1, <1>2, LoadsBeforeHero, StageNamesAre DEF RevisionInv, RevisionTypeOK,
       ActsAreAhead, HeroIsAhead, HeroMoves, Stop, Return, At, Free, Complete, Control, Files
  <2>5. UploadMoves
    BY <1>1 DEF RevisionInv, RevisionTypeOK, UploadMoves, Stop, Return, At, Free, Files
  <2>6. ApprovalsMove
    BY <1>1, <1>2 DEF RevisionInv, RevisionTypeOK, ApprovalsMove, Stop, Return, Control, Files,
       Kinds
  <2> QED
    BY <1>1, <1>2, <2>1, <2>2, <2>3, <2>4, <2>5, <2>6 DEF Quiet
<1> QED
  BY <1>3, <1>4, QuietKeeps

\* The hero intent is written into the manifest.
LEMMA HeroIntentKeeps ==
    ASSUME RevisionInv, HeroIntent
    PROVE  RevisionInv'
<1>1. control \in Control /\ control # Nothing
  BY InCommand DEF HeroIntent, Goto, At, Free
<1>2. control' = control
  BY DEF HeroIntent, Goto
<1>3. RevisionTypeOK'
  <2>1. files' \in Files /\ files'.reviews \subseteq files'.authority
    BY <1>1 DEF RevisionInv, RevisionTypeOK, Control, Files, HeroIntent, Goto, Kinds, Media
  <2>3. proc' \in [pc : PCs, arg : Args]
    BY StageNamesAre DEF RevisionInv, RevisionTypeOK, PCs, Args, Kinds, HeroIntent, Goto, At,
       Free
  <2> QED
    BY <1>1, <1>2, <2>1, <2>3 DEF RevisionInv, RevisionTypeOK, HeroIntent, Goto, plan
<1>4. Quiet
  <2>1. UNCHANGED <<mode, heroes, rejected, acts, uploads>> /\ control' # Nothing
    BY <1>1, <1>2, NoControlFile DEF HeroIntent, Goto, plan
  <2>2. StagesMove
    BY <1>1, <1>2, StageNamesAre DEF StagesMove, HeroIntent, Goto, At, Free, Control, Complete,
       Ahead, Message, Kinds
  <2>3. JobsMove
    BY <1>1 DEF RevisionInv, RevisionTypeOK, JobsMove, HeroIntent, Goto, Early, Files
  <2>4. HeroMoves
    BY <1>1, <1>2, LoadsBeforeHero, StageNamesAre DEF RevisionInv, RevisionTypeOK,
       ActsAreAhead, HeroIsAhead, HeroMoves, HeroIntent, Goto, At, Free, Complete, Control,
       Files
  <2>5. UploadMoves
    BY <1>1 DEF RevisionInv, RevisionTypeOK, UploadMoves, HeroIntent, Goto, At, Free, Files
  <2>6. ApprovalsMove
    BY <1>1, <1>2 DEF RevisionInv, RevisionTypeOK, ApprovalsMove, HeroIntent, Goto, Control,
       Files, Kinds
  <2> QED
    BY <1>1, <1>2, <2>1, <2>2, <2>3, <2>4, <2>5, <2>6 DEF Quiet
<1> QED
  BY <1>3, <1>4, QuietKeeps

\* The encode is recorded.
LEMMA EncodeReceiptKeeps ==
    ASSUME RevisionInv, EncodeReceipt
    PROVE  RevisionInv'
<1>1. control \in Control /\ control # Nothing
  BY InCommand DEF EncodeReceipt, Goto, At, Free
<1>2. control' = control
  BY DEF EncodeReceipt, Goto
<1>3. RevisionTypeOK'
  <2>1. files' \in Files /\ files'.reviews \subseteq files'.authority
    BY <1>1 DEF RevisionInv, RevisionTypeOK, Control, Files, EncodeReceipt, Goto, Kinds, Media
  <2>3. proc' \in [pc : PCs, arg : Args]
    BY StageNamesAre DEF RevisionInv, RevisionTypeOK, PCs, Args, Kinds, EncodeReceipt, Goto,
       At, Free
  <2> QED
    BY <1>1, <1>2, <2>1, <2>3 DEF RevisionInv, RevisionTypeOK, EncodeReceipt, Goto, plan
<1>4. Quiet
  <2>1. UNCHANGED <<mode, heroes, rejected, acts, uploads>> /\ control' # Nothing
    BY <1>1, <1>2, NoControlFile DEF EncodeReceipt, Goto, plan
  <2>2. StagesMove
    BY <1>1, <1>2, StageNamesAre DEF StagesMove, EncodeReceipt, Goto, At, Free, Control,
       Complete, Ahead, Message, Kinds
  <2>3. JobsMove
    BY <1>1 DEF RevisionInv, RevisionTypeOK, JobsMove, EncodeReceipt, Goto, Early, Files
  <2>4. HeroMoves
    BY <1>1, <1>2, LoadsBeforeHero, StageNamesAre DEF RevisionInv, RevisionTypeOK,
       ActsAreAhead, HeroIsAhead, HeroMoves, EncodeReceipt, Goto, At, Free, Complete, Control,
       Files
  <2>5. UploadMoves
    BY <1>1 DEF RevisionInv, RevisionTypeOK, UploadMoves, EncodeReceipt, Goto, At, Free, Files
  <2>6. ApprovalsMove
    BY <1>1, <1>2 DEF RevisionInv, RevisionTypeOK, ApprovalsMove, EncodeReceipt, Goto, Control,
       Files, Kinds
  <2> QED
    BY <1>1, <1>2, <2>1, <2>2, <2>3, <2>4, <2>5, <2>6 DEF Quiet
<1> QED
  BY <1>3, <1>4, QuietKeeps

\* Captions, thumbnail and metadata are made.
LEMMA MakeSidecarsKeeps ==
    ASSUME RevisionInv, MakeSidecars
    PROVE  RevisionInv'
<1>1. control \in Control /\ control # Nothing
  BY InCommand DEF MakeSidecars, Made, FinishFresh, Goto, Return, At, Free
<1>2. control' = control
  BY DEF MakeSidecars, Made, FinishFresh, Goto, Return
<1>3. RevisionTypeOK'
  <2>1. files' \in Files /\ files'.reviews \subseteq files'.authority
    <3>1. PICK v \in Bytes : files' = Made("thumbnail", v)
      BY <1>1, MadeVersions DEF MakeSidecars
    <3> QED
      BY <3>1 DEF RevisionInv, RevisionTypeOK, Files, Made
  <2>3. proc' \in [pc : PCs, arg : Args]
    BY StageNamesAre DEF RevisionInv, RevisionTypeOK, PCs, Args, Kinds, MakeSidecars, Made,
       FinishFresh, Goto, Return, At, Free
  <2> QED
    BY <1>1, <1>2, <2>1, <2>3 DEF RevisionInv, RevisionTypeOK, MakeSidecars, Made, FinishFresh,
       Goto, Return, plan
<1>4. Quiet
  <2>1. UNCHANGED <<mode, heroes, rejected, acts, uploads>> /\ control' # Nothing
    BY <1>1, <1>2, NoControlFile DEF MakeSidecars, Made, FinishFresh, Goto, Return, plan
  <2>2. StagesMove
    BY <1>1, <1>2, StageNamesAre DEF StagesMove, MakeSidecars, Made, FinishFresh, Goto, Return,
       At, Free, Control, Complete, Ahead, Message, Kinds
  <2>3. JobsMove
    BY <1>1 DEF RevisionInv, RevisionTypeOK, JobsMove, MakeSidecars, Made, FinishFresh, Goto,
       Return, Early, Files
  <2>4. HeroMoves
    BY <1>1, <1>2, LoadsBeforeHero, StageNamesAre DEF RevisionInv, RevisionTypeOK,
       ActsAreAhead, HeroIsAhead, HeroMoves, MakeSidecars, Made, FinishFresh, Goto, Return, At,
       Free, Complete, Control, Files
  <2>5. UploadMoves
    BY <1>1 DEF RevisionInv, RevisionTypeOK, UploadMoves, MakeSidecars, Made, FinishFresh,
       Goto, Return, At, Free, Files
  <2>6. ApprovalsMove
    BY <1>1, <1>2 DEF RevisionInv, RevisionTypeOK, ApprovalsMove, MakeSidecars, Made,
       FinishFresh, Goto, Return, Control, Files, Kinds
  <2> QED
    BY <1>1, <1>2, <2>1, <2>2, <2>3, <2>4, <2>5, <2>6 DEF Quiet
<1> QED
  BY <1>3, <1>4, QuietKeeps

\* The image stage closes.
LEMMA CloseImagesKeeps ==
    ASSUME RevisionInv, CloseImages
    PROVE  RevisionInv'
<1>1. control \in Control /\ control # Nothing
  BY InCommand DEF CloseImages, InImages, Goto, At, Free
<1>2. control' = control
  BY DEF CloseImages, InImages, Goto
<1>3. RevisionTypeOK'
  <2>1. files' \in Files /\ files'.reviews \subseteq files'.authority
    <3>1. PICK v \in Bytes : files' = [files EXCEPT !.media["freeze"] = v, !.hero = "planned"]
      BY <1>1, MadeVersions DEF RevisionInv, RevisionTypeOK, Files, CloseImages, Media, Kinds
    <3> QED
      BY <3>1 DEF RevisionInv, RevisionTypeOK, Files
  <2>3. proc' \in [pc : PCs, arg : Args]
    BY StageNamesAre DEF RevisionInv, RevisionTypeOK, PCs, Args, Kinds, CloseImages, InImages,
       Goto, At, Free
  <2> QED
    BY <1>1, <1>2, <2>1, <2>3 DEF RevisionInv, RevisionTypeOK, CloseImages, InImages, Goto, plan
<1>4. Quiet
  <2>1. UNCHANGED <<mode, heroes, rejected, acts, uploads>> /\ control' # Nothing
    BY <1>1, <1>2, NoControlFile DEF CloseImages, InImages, Goto, plan
  <2>2. StagesMove
    BY <1>1, <1>2, StageNamesAre DEF StagesMove, CloseImages, InImages, Goto, At, Free,
       Control, Complete, Ahead, Message, Kinds
  <2>3. JobsMove
    BY <1>1 DEF RevisionInv, RevisionTypeOK, JobsMove, CloseImages, InImages, Goto, Early, Files
  <2>4. HeroMoves
    BY <1>1, <1>2, LoadsBeforeHero, StageNamesAre DEF RevisionInv, RevisionTypeOK,
       ActsAreAhead, HeroIsAhead, HeroMoves, CloseImages, InImages, Goto, At, Free, Complete,
       Control, Files
  <2>5. UploadMoves
    BY <1>1 DEF RevisionInv, RevisionTypeOK, UploadMoves, CloseImages, InImages, Goto, At,
       Free, Files
  <2>6. ApprovalsMove
    BY <1>1, <1>2 DEF RevisionInv, RevisionTypeOK, ApprovalsMove, CloseImages, InImages, Goto,
       Control, Files, Kinds
  <2> QED
    BY <1>1, <1>2, <2>1, <2>2, <2>3, <2>4, <2>5, <2>6 DEF Quiet
<1> QED
  BY <1>3, <1>4, QuietKeeps

\* A wave of jobs is authorised.
LEMMA AuthorizeWaveKeeps ==
    ASSUME RevisionInv, AuthorizeWave
    PROVE  RevisionInv'
<1>1. control \in Control /\ control # Nothing
  BY InCommand DEF AuthorizeWave, InImages, At, Free
<1>2. control' = control
  BY DEF AuthorizeWave, InImages
<1>3. RevisionTypeOK'
  <2>1. files' \in Files /\ files'.reviews \subseteq files'.authority
    BY WaveOfJobs DEF RevisionInv, RevisionTypeOK, Files, AuthorizeWave
  <2> QED
    BY <1>1, <1>2, <2>1 DEF RevisionInv, RevisionTypeOK, AuthorizeWave, InImages, plan
<1>4. Quiet
  <2>1. UNCHANGED <<mode, heroes, rejected, acts, uploads>> /\ control' # Nothing
    BY <1>1, <1>2, NoControlFile DEF AuthorizeWave, InImages, plan
  <2>2. StagesMove
    BY <1>1, <1>2, StageNamesAre DEF StagesMove, AuthorizeWave, InImages, At, Free, Control,
       Complete, Ahead, Message, Kinds
  <2>3. JobsMove
    BY <1>1 DEF RevisionInv, RevisionTypeOK, JobsMove, AuthorizeWave, InImages, Early, Files
  <2>4. HeroMoves
    BY <1>1, <1>2, LoadsBeforeHero, StageNamesAre DEF RevisionInv, RevisionTypeOK,
       ActsAreAhead, HeroIsAhead, HeroMoves, AuthorizeWave, InImages, At, Free, Complete,
       Control, Files
  <2>5. UploadMoves
    BY <1>1 DEF RevisionInv, RevisionTypeOK, UploadMoves, AuthorizeWave, InImages, At, Free,
       Files
  <2>6. ApprovalsMove
    BY <1>1, <1>2 DEF RevisionInv, RevisionTypeOK, ApprovalsMove, AuthorizeWave, InImages,
       Control, Files, Kinds
  <2> QED
    BY <1>1, <1>2, <2>1, <2>2, <2>3, <2>4, <2>5, <2>6 DEF Quiet
<1> QED
  BY <1>3, <1>4, QuietKeeps

\* An image arrives.
LEMMA ReceiveImageKeeps ==
    ASSUME RevisionInv, NEW j \in Jobs, ReceiveImage(j)
    PROVE  RevisionInv'
<1>1. control \in Control /\ control # Nothing
  BY InCommand DEF ReceiveImage, InImages, Step, At, Free
<1>2. control' = control
  BY DEF ReceiveImage, InImages, Step
<1>3. RevisionTypeOK'
  <2>2. img' \in [Jobs -> Progress]
    BY DEF RevisionInv, RevisionTypeOK, Progress, ReceiveImage, InImages, Step
  <2> QED
    BY <1>1, <1>2, <2>2 DEF RevisionInv, RevisionTypeOK, ReceiveImage, InImages, Step, plan
<1>4. Quiet
  <2>1. UNCHANGED <<mode, heroes, rejected, acts, uploads>> /\ control' # Nothing
    BY <1>1, <1>2, NoControlFile DEF ReceiveImage, InImages, Step, plan
  <2>2. StagesMove
    BY <1>1, <1>2, StageNamesAre DEF StagesMove, ReceiveImage, InImages, Step, At, Free,
       Control, Complete, Ahead, Message, Kinds
  <2>3. JobsMove
    BY <1>1 DEF RevisionInv, RevisionTypeOK, JobsMove, ReceiveImage, InImages, Step, Early,
       Files
  <2>4. HeroMoves
    BY <1>1, <1>2, LoadsBeforeHero, StageNamesAre DEF RevisionInv, RevisionTypeOK,
       ActsAreAhead, HeroIsAhead, HeroMoves, ReceiveImage, InImages, Step, At, Free, Complete,
       Control, Files
  <2>5. UploadMoves
    BY <1>1 DEF RevisionInv, RevisionTypeOK, UploadMoves, ReceiveImage, InImages, Step, At,
       Free, Files
  <2>6. ApprovalsMove
    BY <1>1, <1>2 DEF RevisionInv, RevisionTypeOK, ApprovalsMove, ReceiveImage, InImages, Step,
       Control, Files, Kinds
  <2> QED
    BY <1>1, <1>2, <2>1, <2>2, <2>3, <2>4, <2>5, <2>6 DEF Quiet
<1> QED
  BY <1>3, <1>4, QuietKeeps

\* An image is refused for technical reasons.
LEMMA RejectTechnicallyKeeps ==
    ASSUME RevisionInv, NEW j \in Jobs, RejectTechnically(j)
    PROVE  RevisionInv'
<1>1. control \in Control /\ control # Nothing
  BY InCommand DEF RejectTechnically, InImages, Step, At, Free
<1>2. control' = control
  BY DEF RejectTechnically, InImages, Step
<1>3. RevisionTypeOK'
  <2>2. img' \in [Jobs -> Progress]
    BY DEF RevisionInv, RevisionTypeOK, Progress, RejectTechnically, InImages, Step
  <2> QED
    BY <1>1, <1>2, <2>2 DEF RevisionInv, RevisionTypeOK, RejectTechnically, InImages, Step, plan
<1>4. Quiet
  <2>1. UNCHANGED <<mode, heroes, rejected, acts, uploads>> /\ control' # Nothing
    BY <1>1, <1>2, NoControlFile DEF RejectTechnically, InImages, Step, plan
  <2>2. StagesMove
    BY <1>1, <1>2, StageNamesAre DEF StagesMove, RejectTechnically, InImages, Step, At, Free,
       Control, Complete, Ahead, Message, Kinds
  <2>3. JobsMove
    BY <1>1 DEF RevisionInv, RevisionTypeOK, JobsMove, RejectTechnically, InImages, Step,
       Early, Files
  <2>4. HeroMoves
    BY <1>1, <1>2, LoadsBeforeHero, StageNamesAre DEF RevisionInv, RevisionTypeOK,
       ActsAreAhead, HeroIsAhead, HeroMoves, RejectTechnically, InImages, Step, At, Free,
       Complete, Control, Files
  <2>5. UploadMoves
    BY <1>1 DEF RevisionInv, RevisionTypeOK, UploadMoves, RejectTechnically, InImages, Step,
       At, Free, Files
  <2>6. ApprovalsMove
    BY <1>1, <1>2 DEF RevisionInv, RevisionTypeOK, ApprovalsMove, RejectTechnically, InImages,
       Step, Control, Files, Kinds
  <2> QED
    BY <1>1, <1>2, <2>1, <2>2, <2>3, <2>4, <2>5, <2>6 DEF Quiet
<1> QED
  BY <1>3, <1>4, QuietKeeps

\* A review is asked for.
LEMMA AskReviewKeeps ==
    ASSUME RevisionInv, NEW j \in Jobs, AskReview(j)
    PROVE  RevisionInv'
<1>1. control \in Control /\ control # Nothing
  BY InCommand DEF AskReview, InImages, Step, Reviewable, At, Free
<1>2. control' = control
  BY DEF AskReview, InImages, Step, Reviewable
<1>3. RevisionTypeOK'
  <2>2. img' \in [Jobs -> Progress]
    BY DEF RevisionInv, RevisionTypeOK, Progress, AskReview, InImages, Step, Reviewable
  <2> QED
    BY <1>1, <1>2, <2>2 DEF RevisionInv, RevisionTypeOK, AskReview, InImages, Step, Reviewable,
       plan
<1>4. Quiet
  <2>1. UNCHANGED <<mode, heroes, rejected, acts, uploads>> /\ control' # Nothing
    BY <1>1, <1>2, NoControlFile DEF AskReview, InImages, Step, Reviewable, plan
  <2>2. StagesMove
    BY <1>1, <1>2, StageNamesAre DEF StagesMove, AskReview, InImages, Step, Reviewable, At,
       Free, Control, Complete, Ahead, Message, Kinds
  <2>3. JobsMove
    BY <1>1 DEF RevisionInv, RevisionTypeOK, JobsMove, AskReview, InImages, Step, Reviewable,
       Early, Files
  <2>4. HeroMoves
    BY <1>1, <1>2, LoadsBeforeHero, StageNamesAre DEF RevisionInv, RevisionTypeOK,
       ActsAreAhead, HeroIsAhead, HeroMoves, AskReview, InImages, Step, Reviewable, At, Free,
       Complete, Control, Files
  <2>5. UploadMoves
    BY <1>1 DEF RevisionInv, RevisionTypeOK, UploadMoves, AskReview, InImages, Step,
       Reviewable, At, Free, Files
  <2>6. ApprovalsMove
    BY <1>1, <1>2 DEF RevisionInv, RevisionTypeOK, ApprovalsMove, AskReview, InImages, Step,
       Reviewable, Control, Files, Kinds
  <2> QED
    BY <1>1, <1>2, <2>1, <2>2, <2>3, <2>4, <2>5, <2>6 DEF Quiet
<1> QED
  BY <1>3, <1>4, QuietKeeps

\* A review is reserved in its ledger.
LEMMA ReserveReviewKeeps ==
    ASSUME RevisionInv, NEW j \in Jobs, ReserveReview(j)
    PROVE  RevisionInv'
<1>1. control \in Control /\ control # Nothing
  BY InCommand DEF ReserveReview, InImages, Step, At, Free
<1>2. control' = control
  BY DEF ReserveReview, InImages, Step
<1>3. RevisionTypeOK'
  <2>1. files' \in Files /\ files'.reviews \subseteq files'.authority
    <3>1. mode = "LIVE" => j \in files.authority
      BY DEF RevisionInv, ActsAreAhead, JobsAreAhead, ReserveReview
    <3>2. files \in Files /\ files.reviews \subseteq files.authority
      BY DEF RevisionInv, RevisionTypeOK
    <3>3. CASE mode = "LIVE"
      <4>1. files' = [files EXCEPT !.reviews = @ \cup {j}]
        BY <3>3 DEF ReserveReview
      <4> QED
        BY <3>1, <3>2, <3>3, <4>1 DEF Files
    <3>4. CASE mode # "LIVE"
      BY <3>2, <3>4 DEF ReserveReview
    <3> QED
      BY <3>3, <3>4
  <2>2. img' \in [Jobs -> Progress]
    BY DEF RevisionInv, RevisionTypeOK, Progress, ReserveReview, InImages, Step
  <2> QED
    BY <1>1, <1>2, <2>1, <2>2 DEF RevisionInv, RevisionTypeOK, ReserveReview, InImages, Step,
       plan
<1>4. Quiet
  <2>1. UNCHANGED <<mode, heroes, rejected, acts, uploads>> /\ control' # Nothing
    BY <1>1, <1>2, NoControlFile DEF ReserveReview, InImages, Step, plan
  <2>2. StagesMove
    BY <1>1, <1>2, StageNamesAre DEF StagesMove, ReserveReview, InImages, Step, At, Free,
       Control, Complete, Ahead, Message, Kinds
  <2>3. JobsMove
    BY <1>1 DEF RevisionInv, RevisionTypeOK, JobsMove, ReserveReview, InImages, Step, Early,
       Files
  <2>4. HeroMoves
    BY <1>1, <1>2, LoadsBeforeHero, StageNamesAre DEF RevisionInv, RevisionTypeOK,
       ActsAreAhead, HeroIsAhead, HeroMoves, ReserveReview, InImages, Step, At, Free, Complete,
       Control, Files
  <2>5. UploadMoves
    BY <1>1 DEF RevisionInv, RevisionTypeOK, UploadMoves, ReserveReview, InImages, Step, At,
       Free, Files
  <2>6. ApprovalsMove
    BY <1>1, <1>2 DEF RevisionInv, RevisionTypeOK, ApprovalsMove, ReserveReview, InImages,
       Step, Control, Files, Kinds
  <2> QED
    BY <1>1, <1>2, <2>1, <2>2, <2>3, <2>4, <2>5, <2>6 DEF Quiet
<1> QED
  BY <1>3, <1>4, QuietKeeps

\* A verdict is recorded.
LEMMA RecordKeeps ==
    ASSUME RevisionInv, NEW j \in Jobs, Record(j)
    PROVE  RevisionInv'
<1>1. control \in Control /\ control # Nothing
  BY InCommand DEF Record, InImages, Step, Decided, Judged, MayRecord, At, Free
<1>2. control' = control
  BY DEF Record, InImages, Step, Decided, Judged, MayRecord
<1>3. RevisionTypeOK'
  <2>2. img' \in [Jobs -> Progress]
    BY DEF RevisionInv, RevisionTypeOK, Progress, Record, InImages, Step, Decided, Judged,
       MayRecord
  <2> QED
    BY <1>1, <1>2, <2>2 DEF RevisionInv, RevisionTypeOK, Record, InImages, Step, Decided,
       Judged, MayRecord, plan
<1>4. Quiet
  <2>1. UNCHANGED <<mode, heroes, rejected, acts, uploads>> /\ control' # Nothing
    BY <1>1, <1>2, NoControlFile DEF Record, InImages, Step, Decided, Judged, MayRecord, plan
  <2>2. StagesMove
    BY <1>1, <1>2, StageNamesAre DEF StagesMove, Record, InImages, Step, Decided, Judged,
       MayRecord, At, Free, Control, Complete, Ahead, Message, Kinds
  <2>3. JobsMove
    BY <1>1 DEF RevisionInv, RevisionTypeOK, JobsMove, Record, InImages, Step, Decided, Judged,
       MayRecord, Early, Files
  <2>4. HeroMoves
    BY <1>1, <1>2, LoadsBeforeHero, StageNamesAre DEF RevisionInv, RevisionTypeOK,
       ActsAreAhead, HeroIsAhead, HeroMoves, Record, InImages, Step, Decided, Judged,
       MayRecord, At, Free, Complete, Control, Files
  <2>5. UploadMoves
    BY <1>1 DEF RevisionInv, RevisionTypeOK, UploadMoves, Record, InImages, Step, Decided,
       Judged, MayRecord, At, Free, Files
  <2>6. ApprovalsMove
    BY <1>1, <1>2 DEF RevisionInv, RevisionTypeOK, ApprovalsMove, Record, InImages, Step,
       Decided, Judged, MayRecord, Control, Files, Kinds
  <2> QED
    BY <1>1, <1>2, <2>1, <2>2, <2>3, <2>4, <2>5, <2>6 DEF Quiet
<1> QED
  BY <1>3, <1>4, QuietKeeps

\* Media are frozen for a gate.
LEMMA FreezeArtifactsKeeps ==
    ASSUME RevisionInv, NEW k \in Kinds, FreezeArtifacts(k)
    PROVE  RevisionInv'
<1>1. control \in Control /\ control # Nothing
  BY InCommand DEF FreezeArtifacts, Goto, At, Free
<1>2. control' \in Control /\ control'.rev = control.rev
  BY <1>1 DEF RevisionInv, RevisionTypeOK, Control, Files, FreezeArtifacts, Kinds, Media
<1>3. RevisionTypeOK'
  <2>3. proc' \in [pc : PCs, arg : Args]
    BY StageNamesAre DEF RevisionInv, RevisionTypeOK, PCs, Args, Kinds, FreezeArtifacts, Goto,
       At, Free
  <2> QED
    BY <1>1, <1>2, <2>3 DEF RevisionInv, RevisionTypeOK, FreezeArtifacts, Goto, plan
<1>4. Quiet
  <2>1. UNCHANGED <<mode, heroes, rejected, acts, uploads>> /\ control' # Nothing
    BY <1>1, <1>2, NoControlFile DEF FreezeArtifacts, Goto, plan
  <2>2. StagesMove
    BY <1>1, <1>2, StageNamesAre DEF StagesMove, FreezeArtifacts, Goto, At, Free, Control,
       Complete, Ahead, Message, Kinds
  <2>3. JobsMove
    BY <1>1 DEF RevisionInv, RevisionTypeOK, JobsMove, FreezeArtifacts, Goto, Early, Files
  <2>4. HeroMoves
    BY <1>1, <1>2, LoadsBeforeHero, StageNamesAre DEF RevisionInv, RevisionTypeOK,
       ActsAreAhead, HeroIsAhead, HeroMoves, FreezeArtifacts, Goto, At, Free, Complete,
       Control, Files
  <2>5. UploadMoves
    BY <1>1 DEF RevisionInv, RevisionTypeOK, UploadMoves, FreezeArtifacts, Goto, At, Free, Files
  <2>6. ApprovalsMove
    BY <1>1, <1>2 DEF RevisionInv, RevisionTypeOK, ApprovalsMove, FreezeArtifacts, Goto,
       Control, Files, Kinds
  <2> QED
    BY <1>1, <1>2, <2>1, <2>2, <2>3, <2>4, <2>5, <2>6 DEF Quiet
<1> QED
  BY <1>3, <1>4, QuietKeeps

\* A message is STARTED before it is sent.
LEMMA DeliverKeeps ==
    ASSUME RevisionInv, NEW k \in Kinds, Deliver(k)
    PROVE  RevisionInv'
<1>1. control \in Control /\ control # Nothing
  BY InCommand DEF Deliver, Goto, Sendable, At, Free
<1>2. control' \in Control /\ control'.rev = control.rev
  BY <1>1, StageNamesAre, StatusesAre DEF Control, Deliver, Goto, Sendable, At
<1>3. RevisionTypeOK'
  <2>3. proc' \in [pc : PCs, arg : Args]
    BY StageNamesAre DEF RevisionInv, RevisionTypeOK, PCs, Args, Kinds, Deliver, Goto,
       Sendable, At, Free
  <2> QED
    BY <1>1, <1>2, <2>3 DEF RevisionInv, RevisionTypeOK, Deliver, Goto, Sendable, plan
<1>4. Quiet
  <2>1. UNCHANGED <<mode, heroes, rejected, acts, uploads>> /\ control' # Nothing
    BY <1>1, <1>2, NoControlFile DEF Deliver, Goto, Sendable, plan
  <2>2. StagesMove
    BY <1>1, <1>2, StageNamesAre DEF StagesMove, Deliver, Goto, Sendable, At, Free, Control,
       Complete, Ahead, Message, Kinds
  <2>3. JobsMove
    BY <1>1 DEF RevisionInv, RevisionTypeOK, JobsMove, Deliver, Goto, Sendable, Early, Files
  <2>4. HeroMoves
    BY <1>1, <1>2, LoadsBeforeHero, StageNamesAre DEF RevisionInv, RevisionTypeOK,
       ActsAreAhead, HeroIsAhead, HeroMoves, Deliver, Goto, Sendable, At, Free, Complete,
       Control, Files
  <2>5. UploadMoves
    BY <1>1 DEF RevisionInv, RevisionTypeOK, UploadMoves, Deliver, Goto, Sendable, At, Free,
       Files
  <2>6. ApprovalsMove
    BY <1>1, <1>2 DEF RevisionInv, RevisionTypeOK, ApprovalsMove, Deliver, Goto, Sendable,
       Control, Files, Kinds
  <2> QED
    BY <1>1, <1>2, <2>1, <2>2, <2>3, <2>4, <2>5, <2>6 DEF Quiet
<1> QED
  BY <1>3, <1>4, QuietKeeps

\* The receipt of a message is written.
LEMMA WriteReceiptKeeps ==
    ASSUME RevisionInv, NEW k \in Kinds, WriteReceipt(k)
    PROVE  RevisionInv'
<1>1. control \in Control /\ control # Nothing
  BY InCommand DEF WriteReceipt, Goto, At, Free
<1>2. control' = control
  BY DEF WriteReceipt, Goto
<1>3. RevisionTypeOK'
  <2>1. files' \in Files /\ files'.reviews \subseteq files'.authority
    BY <1>1 DEF RevisionInv, RevisionTypeOK, Control, Files, WriteReceipt, Goto, Kinds, Media
  <2>3. proc' \in [pc : PCs, arg : Args]
    BY StageNamesAre DEF RevisionInv, RevisionTypeOK, PCs, Args, Kinds, WriteReceipt, Goto, At,
       Free
  <2> QED
    BY <1>1, <1>2, <2>1, <2>3 DEF RevisionInv, RevisionTypeOK, WriteReceipt, Goto, plan
<1>4. Quiet
  <2>1. UNCHANGED <<mode, heroes, rejected, acts, uploads>> /\ control' # Nothing
    BY <1>1, <1>2, NoControlFile DEF WriteReceipt, Goto, plan
  <2>2. StagesMove
    BY <1>1, <1>2, StageNamesAre DEF StagesMove, WriteReceipt, Goto, At, Free, Control,
       Complete, Ahead, Message, Kinds
  <2>3. JobsMove
    BY <1>1 DEF RevisionInv, RevisionTypeOK, JobsMove, WriteReceipt, Goto, Early, Files
  <2>4. HeroMoves
    BY <1>1, <1>2, LoadsBeforeHero, StageNamesAre DEF RevisionInv, RevisionTypeOK,
       ActsAreAhead, HeroIsAhead, HeroMoves, WriteReceipt, Goto, At, Free, Complete, Control,
       Files
  <2>5. UploadMoves
    BY <1>1 DEF RevisionInv, RevisionTypeOK, UploadMoves, WriteReceipt, Goto, At, Free, Files
  <2>6. ApprovalsMove
    BY <1>1, <1>2 DEF RevisionInv, RevisionTypeOK, ApprovalsMove, WriteReceipt, Goto, Control,
       Files, Kinds
  <2> QED
    BY <1>1, <1>2, <2>1, <2>2, <2>3, <2>4, <2>5, <2>6 DEF Quiet
<1> QED
  BY <1>3, <1>4, QuietKeeps

\* A gate opens.
LEMMA OpenGateKeeps ==
    ASSUME RevisionInv, NEW k \in Kinds, OpenGate(k)
    PROVE  RevisionInv'
<1>1. control \in Control /\ control # Nothing
  BY InCommand DEF OpenGate, Return, At, Free
<1>2. control' \in Control /\ control'.rev = control.rev
  BY <1>1, StageNamesAre, StatusesAre DEF Control, OpenGate, Return, At
<1>3. RevisionTypeOK'
  <2>3. proc' \in [pc : PCs, arg : Args]
    BY StageNamesAre DEF RevisionInv, RevisionTypeOK, PCs, Args, Kinds, OpenGate, Return, At,
       Free
  <2> QED
    BY <1>1, <1>2, <2>3 DEF RevisionInv, RevisionTypeOK, OpenGate, Return, plan
<1>4. Quiet
  <2>1. UNCHANGED <<mode, heroes, rejected, acts, uploads>> /\ control' # Nothing
    BY <1>1, <1>2, NoControlFile DEF OpenGate, Return, plan
  <2>2. StagesMove
    BY <1>1, <1>2, StageNamesAre DEF StagesMove, OpenGate, Return, At, Free, Control, Complete,
       Ahead, Message, Kinds
  <2>3. JobsMove
    BY <1>1 DEF RevisionInv, RevisionTypeOK, JobsMove, OpenGate, Return, Early, Files
  <2>4. HeroMoves
    BY <1>1, <1>2, LoadsBeforeHero, StageNamesAre DEF RevisionInv, RevisionTypeOK,
       ActsAreAhead, HeroIsAhead, HeroMoves, OpenGate, Return, At, Free, Complete, Control,
       Files
  <2>5. UploadMoves
    BY <1>1 DEF RevisionInv, RevisionTypeOK, UploadMoves, OpenGate, Return, At, Free, Files
  <2>6. ApprovalsMove
    BY <1>1, <1>2 DEF RevisionInv, RevisionTypeOK, ApprovalsMove, OpenGate, Return, Control,
       Files, Kinds
  <2> QED
    BY <1>1, <1>2, <2>1, <2>2, <2>3, <2>4, <2>5, <2>6 DEF Quiet
<1> QED
  BY <1>3, <1>4, QuietKeeps

\* An approval writes its receipt.
LEMMA ApproveKeeps ==
    ASSUME RevisionInv, NEW k \in Kinds, Approve(k)
    PROVE  RevisionInv'
<1>1. control \in Control /\ control # Nothing
  BY InCommand DEF Approve, Begin, Goto, At, Free
<1>2. control' = control
  BY DEF Approve, Begin, Goto
<1>3. RevisionTypeOK'
  <2>1. files' \in Files /\ files'.reviews \subseteq files'.authority
    BY <1>1 DEF RevisionInv, RevisionTypeOK, Control, Files, Approve, Begin, Goto, Kinds, Media
  <2>3. proc' \in [pc : PCs, arg : Args]
    BY StageNamesAre DEF RevisionInv, RevisionTypeOK, PCs, Args, Kinds, Approve, Begin, Goto,
       At, Free
  <2> QED
    BY <1>1, <1>2, <2>1, <2>3 DEF RevisionInv, RevisionTypeOK, Approve, Begin, Goto, plan
<1>4. Quiet
  <2>1. UNCHANGED <<mode, heroes, rejected, acts, uploads>> /\ control' # Nothing
    BY <1>1, <1>2, NoControlFile DEF Approve, Begin, Goto, plan
  <2>2. StagesMove
    BY <1>1, <1>2, StageNamesAre DEF StagesMove, Approve, Begin, Goto, At, Free, Control,
       Complete, Ahead, Message, Kinds
  <2>3. JobsMove
    BY <1>1 DEF RevisionInv, RevisionTypeOK, JobsMove, Approve, Begin, Goto, Early, Files
  <2>4. HeroMoves
    BY <1>1, <1>2, LoadsBeforeHero, StageNamesAre DEF RevisionInv, RevisionTypeOK,
       ActsAreAhead, HeroIsAhead, HeroMoves, Approve, Begin, Goto, At, Free, Complete, Control,
       Files
  <2>5. UploadMoves
    BY <1>1 DEF RevisionInv, RevisionTypeOK, UploadMoves, Approve, Begin, Goto, At, Free, Files
  <2>6. ApprovalsMove
    BY <1>1, <1>2 DEF RevisionInv, RevisionTypeOK, ApprovalsMove, Approve, Begin, Goto,
       Control, Files, Kinds
  <2> QED
    BY <1>1, <1>2, <2>1, <2>2, <2>3, <2>4, <2>5, <2>6 DEF Quiet
<1> QED
  BY <1>3, <1>4, QuietKeeps

\* The publication package is frozen.
LEMMA FreezePackageKeeps ==
    ASSUME RevisionInv, FreezePackage
    PROVE  RevisionInv'
<1>1. control \in Control /\ control # Nothing
  BY InCommand DEF FreezePackage, Goto, At, Free
<1>2. control' = control
  BY DEF FreezePackage, Goto
<1>3. RevisionTypeOK'
  <2>1. files' \in Files /\ files'.reviews \subseteq files'.authority
    BY <1>1 DEF RevisionInv, RevisionTypeOK, Control, Files, FreezePackage, Goto, Kinds, Media
  <2>3. proc' \in [pc : PCs, arg : Args]
    BY StageNamesAre DEF RevisionInv, RevisionTypeOK, PCs, Args, Kinds, FreezePackage, Goto,
       At, Free
  <2> QED
    BY <1>1, <1>2, <2>1, <2>3 DEF RevisionInv, RevisionTypeOK, FreezePackage, Goto, plan
<1>4. Quiet
  <2>1. UNCHANGED <<mode, heroes, rejected, acts, uploads>> /\ control' # Nothing
    BY <1>1, <1>2, NoControlFile DEF FreezePackage, Goto, plan
  <2>2. StagesMove
    BY <1>1, <1>2, StageNamesAre DEF StagesMove, FreezePackage, Goto, At, Free, Control,
       Complete, Ahead, Message, Kinds
  <2>3. JobsMove
    BY <1>1 DEF RevisionInv, RevisionTypeOK, JobsMove, FreezePackage, Goto, Early, Files
  <2>4. HeroMoves
    BY <1>1, <1>2, LoadsBeforeHero, StageNamesAre DEF RevisionInv, RevisionTypeOK,
       ActsAreAhead, HeroIsAhead, HeroMoves, FreezePackage, Goto, At, Free, Complete, Control,
       Files
  <2>5. UploadMoves
    BY <1>1 DEF RevisionInv, RevisionTypeOK, UploadMoves, FreezePackage, Goto, At, Free, Files
  <2>6. ApprovalsMove
    BY <1>1, <1>2 DEF RevisionInv, RevisionTypeOK, ApprovalsMove, FreezePackage, Goto, Control,
       Files, Kinds
  <2> QED
    BY <1>1, <1>2, <2>1, <2>2, <2>3, <2>4, <2>5, <2>6 DEF Quiet
<1> QED
  BY <1>3, <1>4, QuietKeeps

\* An approval is saved.
LEMMA SaveApprovalKeeps ==
    ASSUME RevisionInv, NEW k \in Kinds, SaveApproval(k)
    PROVE  RevisionInv'
<1>1. control \in Control /\ control # Nothing
  BY InCommand DEF SaveApproval, Return, At, Free
<1>2. control' \in Control /\ control'.rev = control.rev
  BY <1>1, StageNamesAre, StatusesAre DEF Control, SaveApproval, Return, At
<1>3. RevisionTypeOK'
  <2>3. proc' \in [pc : PCs, arg : Args]
    BY StageNamesAre DEF RevisionInv, RevisionTypeOK, PCs, Args, Kinds, SaveApproval, Return,
       At, Free
  <2> QED
    BY <1>1, <1>2, <2>3 DEF RevisionInv, RevisionTypeOK, SaveApproval, Return, plan
<1>4. Quiet
  <2>1. UNCHANGED <<mode, heroes, rejected, acts, uploads>> /\ control' # Nothing
    BY <1>1, <1>2, NoControlFile DEF SaveApproval, Return, plan
  <2>2. StagesMove
    BY <1>1, <1>2, StageNamesAre DEF StagesMove, SaveApproval, Return, At, Free, Control,
       Complete, Ahead, Message, Kinds
  <2>3. JobsMove
    BY <1>1 DEF RevisionInv, RevisionTypeOK, JobsMove, SaveApproval, Return, Early, Files
  <2>4. HeroMoves
    BY <1>1, <1>2, LoadsBeforeHero, StageNamesAre DEF RevisionInv, RevisionTypeOK,
       ActsAreAhead, HeroIsAhead, HeroMoves, SaveApproval, Return, At, Free, Complete, Control,
       Files
  <2>5. UploadMoves
    BY <1>1 DEF RevisionInv, RevisionTypeOK, UploadMoves, SaveApproval, Return, At, Free, Files
  <2>6. ApprovalsMove
    BY <1>1, <1>2 DEF RevisionInv, RevisionTypeOK, ApprovalsMove, SaveApproval, Return,
       Control, Files, Kinds
  <2> QED
    BY <1>1, <1>2, <2>1, <2>2, <2>3, <2>4, <2>5, <2>6 DEF Quiet
<1> QED
  BY <1>3, <1>4, QuietKeeps

\* authorize_publication() writes its receipt.
LEMMA AuthorizeKeeps ==
    ASSUME RevisionInv, Authorize
    PROVE  RevisionInv'
<1>1. control \in Control /\ control # Nothing
  BY InCommand DEF Authorize, Begin, Goto, At, Free
<1>2. control' = control
  BY DEF Authorize, Begin, Goto
<1>3. RevisionTypeOK'
  <2>1. files' \in Files /\ files'.reviews \subseteq files'.authority
    BY <1>1 DEF RevisionInv, RevisionTypeOK, Control, Files, Authorize, Begin, Goto, Kinds,
       Media
  <2>3. proc' \in [pc : PCs, arg : Args]
    BY StageNamesAre DEF RevisionInv, RevisionTypeOK, PCs, Args, Kinds, Authorize, Begin, Goto,
       At, Free
  <2> QED
    BY <1>1, <1>2, <2>1, <2>3 DEF RevisionInv, RevisionTypeOK, Authorize, Begin, Goto, plan
<1>4. Quiet
  <2>1. UNCHANGED <<mode, heroes, rejected, acts, uploads>> /\ control' # Nothing
    BY <1>1, <1>2, NoControlFile DEF Authorize, Begin, Goto, plan
  <2>2. StagesMove
    BY <1>1, <1>2, StageNamesAre DEF StagesMove, Authorize, Begin, Goto, At, Free, Control,
       Complete, Ahead, Message, Kinds
  <2>3. JobsMove
    BY <1>1 DEF RevisionInv, RevisionTypeOK, JobsMove, Authorize, Begin, Goto, Early, Files
  <2>4. HeroMoves
    BY <1>1, <1>2, LoadsBeforeHero, StageNamesAre DEF RevisionInv, RevisionTypeOK,
       ActsAreAhead, HeroIsAhead, HeroMoves, Authorize, Begin, Goto, At, Free, Complete,
       Control, Files
  <2>5. UploadMoves
    BY <1>1 DEF RevisionInv, RevisionTypeOK, UploadMoves, Authorize, Begin, Goto, At, Free,
       Files
  <2>6. ApprovalsMove
    BY <1>1, <1>2 DEF RevisionInv, RevisionTypeOK, ApprovalsMove, Authorize, Begin, Goto,
       Control, Files, Kinds
  <2> QED
    BY <1>1, <1>2, <2>1, <2>2, <2>3, <2>4, <2>5, <2>6 DEF Quiet
<1> QED
  BY <1>3, <1>4, QuietKeeps

\* The authorisation is saved.
LEMMA SaveAuthorizationKeeps ==
    ASSUME RevisionInv, SaveAuthorization
    PROVE  RevisionInv'
<1>1. control \in Control /\ control # Nothing
  BY InCommand DEF SaveAuthorization, Return, At, Free
<1>2. control' \in Control /\ control'.rev = control.rev
  BY <1>1, StageNamesAre, StatusesAre DEF Control, SaveAuthorization, Return, At
<1>3. RevisionTypeOK'
  <2>3. proc' \in [pc : PCs, arg : Args]
    BY StageNamesAre DEF RevisionInv, RevisionTypeOK, PCs, Args, Kinds, SaveAuthorization,
       Return, At, Free
  <2> QED
    BY <1>1, <1>2, <2>3 DEF RevisionInv, RevisionTypeOK, SaveAuthorization, Return, plan
<1>4. Quiet
  <2>1. UNCHANGED <<mode, heroes, rejected, acts, uploads>> /\ control' # Nothing
    BY <1>1, <1>2, NoControlFile DEF SaveAuthorization, Return, plan
  <2>2. StagesMove
    BY <1>1, <1>2, StageNamesAre DEF StagesMove, SaveAuthorization, Return, At, Free, Control,
       Complete, Ahead, Message, Kinds
  <2>3. JobsMove
    BY <1>1 DEF RevisionInv, RevisionTypeOK, JobsMove, SaveAuthorization, Return, Early, Files
  <2>4. HeroMoves
    BY <1>1, <1>2, LoadsBeforeHero, StageNamesAre DEF RevisionInv, RevisionTypeOK,
       ActsAreAhead, HeroIsAhead, HeroMoves, SaveAuthorization, Return, At, Free, Complete,
       Control, Files
  <2>5. UploadMoves
    BY <1>1 DEF RevisionInv, RevisionTypeOK, UploadMoves, SaveAuthorization, Return, At, Free,
       Files
  <2>6. ApprovalsMove
    BY <1>1, <1>2 DEF RevisionInv, RevisionTypeOK, ApprovalsMove, SaveAuthorization, Return,
       Control, Files, Kinds
  <2> QED
    BY <1>1, <1>2, <2>1, <2>2, <2>3, <2>4, <2>5, <2>6 DEF Quiet
<1> QED
  BY <1>3, <1>4, QuietKeeps

\* publish() writes its intent.
LEMMA PublishKeeps ==
    ASSUME RevisionInv, Publish
    PROVE  RevisionInv'
<1>1. control \in Control /\ control # Nothing
  BY InCommand DEF Publish, Begin, Goto, At, Free
<1>2. control' = control
  BY DEF Publish, Begin, Goto
<1>3. RevisionTypeOK'
  <2>1. files' \in Files /\ files'.reviews \subseteq files'.authority
    BY <1>1 DEF RevisionInv, RevisionTypeOK, Control, Files, Publish, Begin, Goto, Kinds, Media
  <2>3. proc' \in [pc : PCs, arg : Args]
    BY StageNamesAre DEF RevisionInv, RevisionTypeOK, PCs, Args, Kinds, Publish, Begin, Goto,
       At, Free
  <2> QED
    BY <1>1, <1>2, <2>1, <2>3 DEF RevisionInv, RevisionTypeOK, Publish, Begin, Goto, plan
<1>4. Quiet
  <2>1. UNCHANGED <<mode, heroes, rejected, acts, uploads>> /\ control' # Nothing
    BY <1>1, <1>2, NoControlFile DEF Publish, Begin, Goto, plan
  <2>2. StagesMove
    BY <1>1, <1>2, StageNamesAre DEF StagesMove, Publish, Begin, Goto, At, Free, Control,
       Complete, Ahead, Message, Kinds
  <2>3. JobsMove
    BY <1>1 DEF RevisionInv, RevisionTypeOK, JobsMove, Publish, Begin, Goto, Early, Files
  <2>4. HeroMoves
    BY <1>1, <1>2, LoadsBeforeHero, StageNamesAre DEF RevisionInv, RevisionTypeOK,
       ActsAreAhead, HeroIsAhead, HeroMoves, Publish, Begin, Goto, At, Free, Complete, Control,
       Files
  <2>5. UploadMoves
    BY <1>1 DEF RevisionInv, RevisionTypeOK, UploadMoves, Publish, Publishable, Goto, At, Files
  <2>6. ApprovalsMove
    BY <1>1, <1>2 DEF RevisionInv, RevisionTypeOK, ApprovalsMove, Publish, Begin, Goto,
       Control, Files, Kinds
  <2> QED
    BY <1>1, <1>2, <2>1, <2>2, <2>3, <2>4, <2>5, <2>6 DEF Quiet
<1> QED
  BY <1>3, <1>4, QuietKeeps

\* The publication receipt is written.
LEMMA RecordPublicationKeeps ==
    ASSUME RevisionInv, RecordPublication
    PROVE  RevisionInv'
<1>1. control \in Control /\ control # Nothing
  BY InCommand DEF RecordPublication, Goto, At, Free
<1>2. control' = control
  BY DEF RecordPublication, Goto
<1>3. RevisionTypeOK'
  <2>1. files' \in Files /\ files'.reviews \subseteq files'.authority
    BY <1>1 DEF RevisionInv, RevisionTypeOK, Control, Files, RecordPublication, Goto, Kinds,
       Media
  <2>3. proc' \in [pc : PCs, arg : Args]
    BY StageNamesAre DEF RevisionInv, RevisionTypeOK, PCs, Args, Kinds, RecordPublication,
       Goto, At, Free
  <2> QED
    BY <1>1, <1>2, <2>1, <2>3 DEF RevisionInv, RevisionTypeOK, RecordPublication, Goto, plan
<1>4. Quiet
  <2>1. UNCHANGED <<mode, heroes, rejected, acts, uploads>> /\ control' # Nothing
    BY <1>1, <1>2, NoControlFile DEF RecordPublication, Goto, plan
  <2>2. StagesMove
    BY <1>1, <1>2, StageNamesAre DEF StagesMove, RecordPublication, Goto, At, Free, Control,
       Complete, Ahead, Message, Kinds
  <2>3. JobsMove
    BY <1>1 DEF RevisionInv, RevisionTypeOK, JobsMove, RecordPublication, Goto, Early, Files
  <2>4. HeroMoves
    BY <1>1, <1>2, LoadsBeforeHero, StageNamesAre DEF RevisionInv, RevisionTypeOK,
       ActsAreAhead, HeroIsAhead, HeroMoves, RecordPublication, Goto, At, Free, Complete,
       Control, Files
  <2>5. UploadMoves
    BY <1>1 DEF RevisionInv, RevisionTypeOK, UploadMoves, RecordPublication, Goto, At, Free,
       Files
  <2>6. ApprovalsMove
    BY <1>1, <1>2 DEF RevisionInv, RevisionTypeOK, ApprovalsMove, RecordPublication, Goto,
       Control, Files, Kinds
  <2> QED
    BY <1>1, <1>2, <2>1, <2>2, <2>3, <2>4, <2>5, <2>6 DEF Quiet
<1> QED
  BY <1>3, <1>4, QuietKeeps

\* The package is rewritten.
LEMMA RewritePackageKeeps ==
    ASSUME RevisionInv, RewritePackage
    PROVE  RevisionInv'
<1>1. control \in Control /\ control # Nothing
  BY InCommand DEF RewritePackage, Goto, At, Free
<1>2. control' = control
  BY DEF RewritePackage, Goto
<1>3. RevisionTypeOK'
  <2>1. files' \in Files /\ files'.reviews \subseteq files'.authority
    BY <1>1 DEF RevisionInv, RevisionTypeOK, Control, Files, RewritePackage, Goto, Kinds, Media
  <2>3. proc' \in [pc : PCs, arg : Args]
    BY StageNamesAre DEF RevisionInv, RevisionTypeOK, PCs, Args, Kinds, RewritePackage, Goto,
       At, Free
  <2> QED
    BY <1>1, <1>2, <2>1, <2>3 DEF RevisionInv, RevisionTypeOK, RewritePackage, Goto, plan
<1>4. Quiet
  <2>1. UNCHANGED <<mode, heroes, rejected, acts, uploads>> /\ control' # Nothing
    BY <1>1, <1>2, NoControlFile DEF RewritePackage, Goto, plan
  <2>2. StagesMove
    BY <1>1, <1>2, StageNamesAre DEF StagesMove, RewritePackage, Goto, At, Free, Control,
       Complete, Ahead, Message, Kinds
  <2>3. JobsMove
    BY <1>1 DEF RevisionInv, RevisionTypeOK, JobsMove, RewritePackage, Goto, Early, Files
  <2>4. HeroMoves
    BY <1>1, <1>2, LoadsBeforeHero, StageNamesAre DEF RevisionInv, RevisionTypeOK,
       ActsAreAhead, HeroIsAhead, HeroMoves, RewritePackage, Goto, At, Free, Complete, Control,
       Files
  <2>5. UploadMoves
    BY <1>1 DEF RevisionInv, RevisionTypeOK, UploadMoves, RewritePackage, Goto, At, Free, Files
  <2>6. ApprovalsMove
    BY <1>1, <1>2 DEF RevisionInv, RevisionTypeOK, ApprovalsMove, RewritePackage, Goto,
       Control, Files, Kinds
  <2> QED
    BY <1>1, <1>2, <2>1, <2>2, <2>3, <2>4, <2>5, <2>6 DEF Quiet
<1> QED
  BY <1>3, <1>4, QuietKeeps

\* The publication is saved.
LEMMA SavePublishedKeeps ==
    ASSUME RevisionInv, SavePublished
    PROVE  RevisionInv'
<1>1. control \in Control /\ control # Nothing
  BY InCommand DEF SavePublished, Return, At, Free
<1>2. control' \in Control /\ control'.rev = control.rev
  BY <1>1, StageNamesAre, StatusesAre DEF Control, SavePublished, Return, At
<1>3. RevisionTypeOK'
  <2>3. proc' \in [pc : PCs, arg : Args]
    BY StageNamesAre DEF RevisionInv, RevisionTypeOK, PCs, Args, Kinds, SavePublished, Return,
       At, Free
  <2> QED
    BY <1>1, <1>2, <2>3 DEF RevisionInv, RevisionTypeOK, SavePublished, Return, plan
<1>4. Quiet
  <2>1. UNCHANGED <<mode, heroes, rejected, acts, uploads>> /\ control' # Nothing
    BY <1>1, <1>2, NoControlFile DEF SavePublished, Return, plan
  <2>2. StagesMove
    BY <1>1, <1>2, StageNamesAre DEF StagesMove, SavePublished, Return, At, Free, Control,
       Complete, Ahead, Message, Kinds
  <2>3. JobsMove
    BY <1>1 DEF RevisionInv, RevisionTypeOK, JobsMove, SavePublished, Return, Early, Files
  <2>4. HeroMoves
    BY <1>1, <1>2, LoadsBeforeHero, StageNamesAre DEF RevisionInv, RevisionTypeOK,
       ActsAreAhead, HeroIsAhead, HeroMoves, SavePublished, Return, At, Free, Complete,
       Control, Files
  <2>5. UploadMoves
    BY <1>1 DEF RevisionInv, RevisionTypeOK, UploadMoves, SavePublished, Return, At, Free, Files
  <2>6. ApprovalsMove
    BY <1>1, <1>2 DEF RevisionInv, RevisionTypeOK, ApprovalsMove, SavePublished, Return,
       Control, Files, Kinds
  <2> QED
    BY <1>1, <1>2, <2>1, <2>2, <2>3, <2>4, <2>5, <2>6 DEF Quiet
<1> QED
  BY <1>3, <1>4, QuietKeeps

-----------------------------------------------------------------------------
(* Steps that make an outbound act *)

\* The step leaves its place, and a stage that acts was started.
StageActs(a) ==
    /\ \A s \in {"script", "audio", "encode"} : /\ proc' # At("op", s)
                                                /\ a = Once(s) => control.stages[s] # "none"
    /\ \A k \in Kinds : /\ proc' # At("send", k)
                        /\ a = Once(Message[k]) => control.stages[Message[k]] # "none"

\* A job that acts, acts as it moves on.
JobActs(a) ==
    mode = "LIVE" => \A j \in Jobs :
        /\ img'[j] = "none" => img[j] = "none" /\ a # ForJob("image", j)
        /\ img'[j] \in Early => img[j] \in Early /\ a # ForJob("review", j)
        /\ img'[j] # "none" => j \in files'.authority

HeroActs(a) ==
    /\ proc' \notin {At("op", "heroes"), At("hero", "none")} /\ proc'.pc # "hero"
    /\ a # Once("hero") => Unsent(Once("hero"))
    /\ a = Once("hero") => /\ Complete("images") /\ files'.hero = "touched"
                           /\ proc' \in {Free, At("finish", "heroes")}

\* Act a is made, if it is counted at all, for the first time.
Acting(a) ==
    /\ UNCHANGED <<mode, heroes, control, rejected, uploads>> /\ control # Nothing
    /\ acts'[a] \in {acts[a], 1} /\ \A b \in Acts : b # a => acts'[b] = acts[b]
    /\ StageActs(a) /\ JobActs(a) /\ HeroActs(a)
    /\ files'.intent = files.intent /\ files'.approval = files.approval /\ proc'.pc # "upload"

\* A step of this kind keeps the invariant; the upload is treated below.
LEMMA ActingKeeps ==
    ASSUME RevisionInv, RevisionTypeOK', NEW a \in Acts, a # Once("upload"), Acting(a)
    PROVE  RevisionInv'
<1> USE DEF Acting
<1>1. RevisionActsOnce'
  BY DEF RevisionInv, RevisionActsOnce
<1>2. PublishedRevisionApproved' /\ NothingYet'
  BY DEF RevisionInv, PublishedRevisionApproved, NothingYet
<1>3. acts'[Once("upload")] = acts[Once("upload")]
  BY ActsAre
<1>4. UploadsInOrder' /\ UploadIsAhead'
  BY <1>3 DEF RevisionInv, ActsAreAhead, UploadsInOrder, UploadIsAhead, Unsent
<1>5. StagesAreAhead'
  <2>1. ASSUME NEW s \in {"script", "audio"}, mode' = "LIVE", Ahead(s, At("op", s))'
        PROVE  Unsent(Once(s))'
    <3>1. control.stages[s] = "none"
      BY <2>1 DEF StageActs, Ahead
    <3>2. Unsent(Once(s)) /\ a # Once(s)
      BY <2>1, <3>1 DEF RevisionInv, ActsAreAhead, StagesAreAhead, StageActs, Ahead
    <3> QED
      BY <3>2, ActsAre DEF Unsent
  <2>2. ASSUME Ahead("encode", At("op", "encode"))'
        PROVE  Unsent(Once("encode"))'
    <3>1. control.stages["encode"] = "none"
      BY <2>2 DEF StageActs, Ahead
    <3>2. Unsent(Once("encode")) /\ a # Once("encode")
      BY <3>1 DEF RevisionInv, ActsAreAhead, StagesAreAhead, StageActs, Ahead
    <3> QED
      BY <3>2, ActsAre DEF Unsent
  <2>3. ASSUME NEW k \in Kinds, Ahead(Message[k], At("send", k))'
        PROVE  Unsent(Once(Message[k]))'
    <3>1. control.stages[Message[k]] = "none"
      BY <2>3 DEF StageActs, Ahead, At, Message
    <3>2. Unsent(Once(Message[k])) /\ a # Once(Message[k])
      BY <3>1 DEF RevisionInv, ActsAreAhead, StagesAreAhead, StageActs, Ahead
    <3> QED
      BY <3>2, ActsAre DEF Unsent
  <2> QED
    BY <2>1, <2>2, <2>3 DEF StagesAreAhead, StageActs
<1>6. JobsAreAhead'
  <2> SUFFICES ASSUME mode = "LIVE", NEW j \in Jobs
               PROVE  /\ img'[j] = "none" => Unsent(ForJob("image", j))'
                      /\ img'[j] \in Early => Unsent(ForJob("review", j))'
                      /\ img'[j] # "none" => j \in files'.authority
    BY DEF JobsAreAhead, Early
  <2>1. ForJob("image", j) \in Acts /\ ForJob("review", j) \in Acts
    BY ActsAre
  <2> QED
    BY <2>1 DEF RevisionInv, ActsAreAhead, JobsAreAhead, JobActs, Early, Unsent
<1>7. HeroIsAhead'
  BY ActsAre DEF HeroActs, HeroIsAhead, Unsent, Complete, Once
<1>8. ApprovedIsFresh'
  BY DEF RevisionInv, ApprovedIsFresh, Fresh, Identity
<1> QED
  BY <1>1, <1>2, <1>4, <1>5, <1>6, <1>7, <1>8 DEF RevisionInv, ActsAreAhead

\* LIVE authoring is paid for once: its stage is STARTED and not recoverable (stage).
LEMMA AuthorKeeps ==
    ASSUME RevisionInv, NEW s \in {"script", "audio"}, Author(s)
    PROVE  RevisionInv'
<1>1. control \in Control /\ control # Nothing
  BY InCommand DEF Author, At, Free
<1>2. Once(s) \in Acts /\ acts \in [Acts -> 0..2]
  BY ActsAre DEF RevisionInv, RevisionTypeOK
<1>3. mode = "LIVE" => Unsent(Once(s))
  BY DEF RevisionInv, ActsAreAhead, StagesAreAhead, Ahead, Author
<1>4. /\ acts' \in [Acts -> 0..2] /\ acts'[Once(s)] \in {acts[Once(s)], 1}
      /\ \A b \in Acts : b # Once(s) => acts'[b] = acts[b]
  BY <1>2, <1>3, DoneCounts DEF Author, Paid
<1>5. /\ files' \in Files /\ files'.reviews \subseteq files'.authority
      /\ files'.authority = files.authority /\ files'.approval = files.approval
      /\ files'.intent = files.intent
  <2>1. files' = files \/ \E v \in Bytes : files' = Made(s, v)
    BY <1>1, MadeVersions DEF Author
  <2> QED
    BY <2>1 DEF RevisionInv, RevisionTypeOK, Files, Made
<1>6. proc' \in {Free, At("finish", s)}
  BY DEF Author, FinishFresh, Goto, Return
<1>7. UNCHANGED <<mode, heroes, control, img, rejected, uploads>> /\ proc = At("op", s)
  BY DEF Author, plan
<1>8. RevisionTypeOK'
  BY <1>4, <1>5, <1>6, <1>7, StageNamesAre
     DEF RevisionInv, RevisionTypeOK, At, Free, PCs, Args
<1>9. Acting(Once(s))
  <2>1. StageActs(Once(s))
    <3>1. control.stages[s] # "none"
      BY <1>7 DEF RevisionInv, ActsAreAhead, StagesAreAhead
    <3>2. \A r \in {"script", "audio", "encode"} : Once(s) = Once(r) => r = s
      BY ActsDiffer
    <3>3. \A k \in Kinds : Once(s) # Once(Message[k])
      BY ActsDiffer, StageNamesAre
    <3> QED
      BY <1>6, <3>1, <3>2, <3>3 DEF StageActs, At, Free
  <2>2. JobActs(Once(s))
    BY <1>5, <1>7, ActsDiffer DEF RevisionInv, ActsAreAhead, JobsAreAhead, JobActs
  <2>3. HeroActs(Once(s))
    BY <1>6, <1>7, ActsDiffer, LoadsBeforeHero DEF HeroActs, At, Free
  <2> QED
    BY <1>1, <1>4, <1>5, <1>6, <1>7, <2>1, <2>2, <2>3 DEF Acting, At, Free
<1> QED
  BY <1>2, <1>8, <1>9, ActingKeeps, ActsDiffer

\* The first attempt of an encode (render_once).
LEMMA RenderVideoKeeps ==
    ASSUME RevisionInv, RenderVideo
    PROVE  RevisionInv'
<1> DEFINE a == Once("encode")
<1>1. control \in Control /\ control # Nothing
  BY InCommand DEF RenderVideo, At, Free
<1>2. a \in Acts /\ acts \in [Acts -> 0..2] /\ Unsent(a)
  BY ActsAre DEF RevisionInv, RevisionTypeOK, ActsAreAhead, StagesAreAhead, Ahead, RenderVideo
<1>3. /\ acts' \in [Acts -> 0..2] /\ acts'[a] = 1
      /\ \A b \in Acts : b # a => acts'[b] = acts[b]
  BY <1>2, DoneCounts DEF RenderVideo
<1>4. /\ files' \in Files /\ files'.reviews \subseteq files'.authority
      /\ files'.authority = files.authority /\ files'.approval = files.approval
      /\ files'.intent = files.intent
  <2>1. PICK v \in Bytes : files' = Made("video", v)
    BY <1>1, MadeVersions DEF RenderVideo
  <2> QED
    BY <2>1 DEF RevisionInv, RevisionTypeOK, Files, Made
<1>5. /\ UNCHANGED <<mode, heroes, control, img, rejected, uploads>>
      /\ proc = At("op", "encode") /\ proc' = At("encoded", "none")
  BY DEF RenderVideo, plan, Goto
<1>6. RevisionTypeOK'
  BY <1>3, <1>4, <1>5 DEF RevisionInv, RevisionTypeOK, At, PCs, Args
<1>7. Acting(a)
  <2>1. StageActs(a)
    <3>1. control.stages["encode"] # "none"
      BY <1>5 DEF RevisionInv, ActsAreAhead, StagesAreAhead
    <3>2. \A r \in {"script", "audio", "encode"} : a = Once(r) => r = "encode"
      BY ActsDiffer
    <3>3. \A k \in Kinds : a # Once(Message[k])
      BY ActsDiffer, StageNamesAre
    <3> QED
      BY <1>5, <3>1, <3>2, <3>3 DEF StageActs, At
  <2>2. JobActs(a)
    BY <1>4, <1>5, ActsDiffer DEF RevisionInv, ActsAreAhead, JobsAreAhead, JobActs
  <2>3. HeroActs(a)
    BY <1>5, ActsDiffer, LoadsBeforeHero DEF HeroActs, At, Free
  <2> QED
    BY <1>1, <1>3, <1>4, <1>5, <2>1, <2>2, <2>3 DEF Acting, At
<1> QED
  BY <1>2, <1>6, <1>7, ActingKeeps, ActsDiffer

\* A message is sent once: it was STARTED with its intent (deliver).
LEMMA SendKeeps ==
    ASSUME RevisionInv, NEW k \in Kinds, Send(k)
    PROVE  RevisionInv'
<1> DEFINE a == Once(Message[k])
<1>1. control \in Control /\ control # Nothing
  BY InCommand DEF Send, At, Free
<1>2. a \in Acts /\ acts \in [Acts -> 0..2] /\ Unsent(a)
  BY ActsAre DEF RevisionInv, RevisionTypeOK, ActsAreAhead, StagesAreAhead, Ahead, Send
<1>3. /\ acts' \in [Acts -> 0..2] /\ acts'[a] = 1
      /\ \A b \in Acts : b # a => acts'[b] = acts[b]
  BY <1>2, DoneCounts DEF Send
<1>4. /\ UNCHANGED <<mode, heroes, control, files, img, rejected, uploads>>
      /\ proc = At("send", k) /\ proc' \in {Free, At("receipt", k)}
  BY DEF Send, plan, Goto, Return
<1>5. RevisionTypeOK'
  BY <1>3, <1>4 DEF RevisionInv, RevisionTypeOK, At, Free, PCs, Args
<1>6. a # Once("upload") /\ a # Once("hero")
  BY ActsDiffer, StageNamesAre
<1>7. Acting(a)
  <2>1. StageActs(a)
    <3>1. control.stages[Message[k]] # "none"
      BY <1>4 DEF RevisionInv, ActsAreAhead, StagesAreAhead
    <3>2. \A r \in {"script", "audio", "encode"} : a # Once(r)
      BY ActsDiffer, StageNamesAre
    <3>3. \A l \in Kinds : a = Once(Message[l]) => l = k
      BY ActsDiffer, StageNamesAre
    <3> QED
      BY <1>4, <3>1, <3>2, <3>3 DEF StageActs, At, Free
  <2>2. JobActs(a)
    <3>1. \A j : a # ForJob("image", j) /\ a # ForJob("review", j)
      BY ActsDiffer, StageNamesAre
    <3> QED
      BY <1>4, <3>1 DEF RevisionInv, ActsAreAhead, JobsAreAhead, JobActs, Early
  <2>3. HeroActs(a)
    BY <1>4, <1>6, LoadsBeforeHero DEF HeroActs, At, Free
  <2> QED
    BY <1>1, <1>3, <1>4, <2>1, <2>2, <2>3 DEF Acting, At, Free
<1> QED
  BY <1>2, <1>5, <1>6, <1>7, ActingKeeps

\* The hero request is made once: its intent keeps every later command from loading.
LEMMA HeroSubmitKeeps ==
    ASSUME RevisionInv, HeroSubmit
    PROVE  RevisionInv'
<1> DEFINE a == Once("hero")
<1>1. control \in Control /\ control # Nothing
  BY InCommand DEF HeroSubmit, At, Free
<1>2. a \in Acts /\ acts \in [Acts -> 0..2] /\ Unsent(a)
  BY ActsAre DEF RevisionInv, RevisionTypeOK, ActsAreAhead, HeroIsAhead, HeroSubmit, At, Free
<1>3. /\ acts' \in [Acts -> 0..2] /\ acts'[a] = 1
      /\ \A b \in Acts : b # a => acts'[b] = acts[b]
  BY <1>2, DoneCounts DEF HeroSubmit
<1>4. /\ UNCHANGED <<mode, heroes, control, files, img, rejected, uploads>>
      /\ proc = At("hero", "none") /\ proc' \in {Free, At("finish", "heroes")}
  BY DEF RevisionInv, RevisionTypeOK, ActsAreAhead, HeroIsAhead, HeroSubmit, plan, Goto, Return, At
<1>5. RevisionTypeOK'
  BY <1>3, <1>4, StageNamesAre DEF RevisionInv, RevisionTypeOK, At, Free, PCs, Args
<1>6. Acting(a)
  <2>1. StageActs(a)
    <3>1. \A r \in {"script", "audio", "encode"} : a # Once(r)
      BY ActsDiffer
    <3>2. \A l \in Kinds : a # Once(Message[l])
      BY ActsDiffer, StageNamesAre
    <3> QED
      BY <1>4, <3>1, <3>2 DEF StageActs, At, Free
  <2>2. JobActs(a)
    BY <1>4, ActsDiffer DEF RevisionInv, ActsAreAhead, JobsAreAhead, JobActs, Early
  <2>3. HeroActs(a)
    BY <1>4 DEF RevisionInv, ActsAreAhead, HeroIsAhead, HeroActs, At, Free
  <2> QED
    BY <1>1, <1>3, <1>4, <2>1, <2>2, <2>3 DEF Acting, At, Free
<1> QED
  BY <1>2, <1>5, <1>6, ActingKeeps, ActsDiffer

\* What a paid act of a job has in common.
LEMMA JobActKeeps ==
    ASSUME RevisionInv, NEW j \in Jobs, NEW n \in {"image", "review"}, Paid(ForJob(n, j)),
           InImages, UNCHANGED <<mode, heroes, control, files, rejected, proc, uploads>>,
           NEW p \in Progress, Step(j, p), p # "none", mode = "LIVE" => j \in files.authority,
           mode = "LIVE" => Unsent(ForJob(n, j)),
           n = "image" => img[j] = "none",
           n = "review" => p \notin Early
    PROVE  RevisionInv'
<1> DEFINE a == ForJob(n, j)
<1>1. control \in Control /\ control # Nothing
  BY InCommand DEF InImages, At, Free
<1>2. a \in Acts /\ acts \in [Acts -> 0..2]
  BY ActsAre DEF RevisionInv, RevisionTypeOK
<1>3. /\ acts' \in [Acts -> 0..2] /\ acts'[a] \in {acts[a], 1}
      /\ \A b \in Acts : b # a => acts'[b] = acts[b]
  BY <1>2, DoneCounts DEF Paid
<1>4. img \in [Jobs -> Progress] /\ img' = [img EXCEPT ![j] = p] /\ img' \in [Jobs -> Progress]
  BY DEF RevisionInv, RevisionTypeOK, Step
<1>5. RevisionTypeOK'
  BY <1>3, <1>4 DEF RevisionInv, RevisionTypeOK
<1>6. \A m : a # Once(m) \/ m = n
  BY ActsDiffer
<1>7. Acting(a)
  <2>1. StageActs(a)
    <3>1. \A r \in {"script", "audio", "encode"} : a # Once(r)
      BY <1>6
    <3>2. \A l \in Kinds : a # Once(Message[l])
      BY <1>6, StageNamesAre
    <3> QED
      BY <3>1, <3>2 DEF StageActs, InImages, At
  <2>2. JobActs(a)
    <3> SUFFICES ASSUME mode = "LIVE", NEW i \in Jobs
                 PROVE  /\ img'[i] = "none" => img[i] = "none" /\ a # ForJob("image", i)
                        /\ img'[i] \in Early => img[i] \in Early /\ a # ForJob("review", i)
                        /\ img'[i] # "none" => i \in files'.authority
      BY DEF JobActs
    <3>1. CASE i = j
      <4>1. img'[i] = p
        BY <1>4, <3>1
      <4>2. CASE n = "image"
        BY <3>1, <4>1, <4>2, ActsDiffer DEF Early
      <4>3. CASE n = "review"
        BY <3>1, <4>1, <4>3, ActsDiffer DEF Early
      <4> QED
        BY <4>2, <4>3
    <3>2. CASE i # j
      <4>1. img'[i] = img[i] /\ a # ForJob("image", i) /\ a # ForJob("review", i)
        BY <1>4, <3>2, ActsDiffer
      <4> QED
        BY <4>1 DEF RevisionInv, ActsAreAhead, JobsAreAhead
    <3> QED
      BY <3>1, <3>2
  <2>3. HeroActs(a)
    BY <1>6, LoadsBeforeHero DEF HeroActs, InImages, At, Free
  <2> QED
    BY <1>1, <1>3, <2>1, <2>2, <2>3 DEF Acting, InImages, At
<1> QED
  BY <1>2, <1>5, <1>6, <1>7, ActingKeeps

\* The executor posts a job once.
LEMMA PostImageKeeps ==
    ASSUME RevisionInv, NEW j \in Jobs, PostImage(j)
    PROVE  RevisionInv'
<1>1. PICK p \in {"posted", "lost"} : Step(j, p)
  BY DEF PostImage
<1>2. mode = "LIVE" => Unsent(ForJob("image", j))
  BY DEF RevisionInv, ActsAreAhead, JobsAreAhead, PostImage
<1>3. p \in Progress /\ p # "none"
  BY DEF Progress
<1>4. /\ Paid(ForJob("image", j)) /\ InImages /\ img[j] = "none" /\ (mode = "LIVE" => j \in files.authority)
      /\ UNCHANGED <<mode, heroes, control, files, rejected, proc, uploads>>
  BY DEF PostImage, plan
<1> QED
  BY <1>1, <1>2, <1>3, <1>4, JobActKeeps

\* A LIVE review that was asked for is not asked again.
LEMMA ReceiveReviewKeeps ==
    ASSUME RevisionInv, NEW j \in Jobs, ReceiveReview(j)
    PROVE  RevisionInv'
<1>1. PICK p \in {"decided_pass", "decided_fail", "asked"} : Step(j, p)
  BY DEF ReceiveReview
<1>2. mode = "LIVE" => Unsent(ForJob("review", j)) /\ j \in files.authority
  BY DEF RevisionInv, ActsAreAhead, JobsAreAhead, ReceiveReview
<1>3. p \in Progress /\ p # "none" /\ p \notin Early
  BY DEF Progress, Early
<1>4. /\ Paid(ForJob("review", j)) /\ InImages
      /\ UNCHANGED <<mode, heroes, control, files, rejected, proc, uploads>>
  BY DEF ReceiveReview, plan
<1> QED
  BY <1>1, <1>2, <1>3, <1>4, JobActKeeps

-----------------------------------------------------------------------------
(* The upload *)

\* What an upload under way can be, seen from its intent: approved, fresh, the first of its revision.
LEMMA UploadIsApproved ==
    ASSUME RevisionInv, proc.pc = "upload"
    PROVE  /\ control \in Control /\ control # Nothing
           /\ Unsent(Once("upload"))
           /\ \A k \in Kinds : files.approval[k] = files.media[k] /\ Fresh(k, files.media[k])
           /\ \A i \in DOMAIN uploads : uploads[i].rev < control.rev
<1>1. control \in Control /\ control # Nothing
  BY InCommand DEF Free
<1>2. Unsent(Once("upload"))
  BY DEF RevisionInv, ActsAreAhead, UploadIsAhead
<1>3. \A k \in Kinds : files.approval[k] = files.media[k] /\ Fresh(k, files.media[k])
  BY DEF RevisionInv, ApprovedIsFresh
<1> QED
  BY <1>1, <1>2, <1>3 DEF RevisionInv, UploadsInOrder

\* The uploads carry the revision they were made in.
LEMMA UploadRevisions ==
    ASSUME RevisionInv, NEW i \in DOMAIN uploads
    PROVE  uploads[i].rev \in Nat
<1> DEFINE Up == [rev : Versions, media : [Kinds -> Bytes], approved : [Kinds -> Bytes],
                  rejected : SUBSET (Media \X Versions)]
<1>1. uploads \in Seq(Up)
  BY DEF RevisionInv, RevisionTypeOK
<1>2. \A u \in Up : u.rev \in Versions
  OBVIOUS
<1> HIDE DEF Up
<1>3. uploads[i] \in Up
  BY <1>1
<1>4. uploads[i].rev \in Versions
  BY <1>2, <1>3
<1> QED
  BY <1>4, RevisionConstants DEF Versions

\* An upload that reaches the channel is recorded as the first of its revision.
LEMMA UploadedKeepsOrder ==
    ASSUME RevisionInv, proc.pc = "upload", Uploaded, UNCHANGED <<control, rejected>>
    PROVE  /\ acts' \in [Acts -> 0..2] /\ acts'[Once("upload")] = 1
           /\ \A b \in Acts : b # Once("upload") => acts'[b] = acts[b]
           /\ uploads' \in Seq([rev : Versions, media : [Kinds -> Bytes], approved : [Kinds -> Bytes],
                                rejected : SUBSET (Media \X Versions)])
           /\ PublishedRevisionApproved' /\ UploadsInOrder'
<1> DEFINE new == [rev |-> control.rev, media |-> [k \in Kinds |-> files.media[k]],
                   approved |-> files.approval, rejected |-> rejected]
           Up == [rev : Versions, media : [Kinds -> Bytes], approved : [Kinds -> Bytes],
                  rejected : SUBSET (Media \X Versions)]
<1>1. /\ acts' \in [Acts -> 0..2] /\ acts'[Once("upload")] = 1
      /\ \A b \in Acts : b # Once("upload") => acts'[b] = acts[b]
  BY UploadIsApproved, ActsAre, DoneCounts DEF Uploaded, RevisionInv, RevisionTypeOK
<1>2. new \in Up
  BY UploadIsApproved DEF RevisionInv, RevisionTypeOK, Control, Files, Media
<1>3. uploads \in Seq(Up) /\ uploads' = Append(uploads, new)
  BY DEF Uploaded, RevisionInv, RevisionTypeOK
<1> HIDE DEF Up
<1>4. /\ uploads' \in Seq(Up) /\ DOMAIN uploads' = DOMAIN uploads \cup {Len(uploads) + 1}
      /\ Len(uploads) + 1 \notin DOMAIN uploads
      /\ uploads'[Len(uploads) + 1] = new /\ \A i \in DOMAIN uploads : uploads'[i] = uploads[i]
  BY <1>2, <1>3
<1>5. PublishedRevisionApproved'
  <2>1. \A k \in Kinds : new.approved[k] = new.media[k] /\ <<k, new.media[k]>> \notin new.rejected
    BY UploadIsApproved DEF Fresh, Identity
  <2>2. \A i \in DOMAIN uploads : uploads[i].rev # new.rev
    <3>1. \A i \in DOMAIN uploads : uploads[i].rev < control.rev /\ uploads[i].rev \in Nat
      BY UploadRevisions, UploadIsApproved
    <3> QED
      BY <3>1, UploadIsApproved DEF Control, Versions
  <2> HIDE DEF new
  <2>3. ASSUME NEW i \in DOMAIN uploads'
        PROVE  /\ \A k \in Kinds : /\ uploads'[i].approved[k] = uploads'[i].media[k]
                                   /\ <<k, uploads'[i].media[k]>> \notin uploads'[i].rejected
               /\ \A j \in DOMAIN uploads' : uploads'[i].rev = uploads'[j].rev => i = j
    <3>1. CASE i \in DOMAIN uploads
      BY <1>4, <2>2, <3>1 DEF RevisionInv, PublishedRevisionApproved
    <3>2. CASE i = Len(uploads) + 1
      BY <1>4, <2>1, <2>2, <3>2
    <3> QED
      BY <1>4, <3>1, <3>2
  <2> QED
    BY <2>3 DEF PublishedRevisionApproved
<1>6. UploadsInOrder'
  <2>1. \A i \in DOMAIN uploads' : uploads'[i].rev <= control.rev
    <3>1. \A i \in DOMAIN uploads : uploads[i].rev <= control.rev
      BY DEF RevisionInv, UploadsInOrder
    <3>2. new.rev <= control.rev
      BY UploadIsApproved DEF Control, Versions
    <3> HIDE DEF new
    <3> QED
      BY <1>4, <3>1, <3>2
  <2> QED
    BY <1>1, <2>1 DEF UploadsInOrder, Unsent
<1> QED
  BY <1>1, <1>4, <1>5, <1>6 DEF Up

\* The upload, with or without an answer (publish).
LEMMA UploadKeeps ==
    ASSUME RevisionInv, Upload
    PROVE  RevisionInv'
<1>1. /\ proc.pc = "upload" /\ UNCHANGED <<mode, heroes, control, img, rejected>>
      /\ proc' \in {Free, At("readback", "none")}
      /\ Uploaded \/ UNCHANGED <<acts, uploads>>
  BY DEF Upload, plan, Goto, Return
<1>2. /\ files' \in Files /\ files'.reviews \subseteq files'.authority /\ files'.intent # "none"
      /\ files'.approval = files.approval /\ files'.hero = files.hero /\ files'.authority = files.authority
  <2>1. \E i \in {"PENDING", "AMBIGUOUS", "FAILED", "REMOTE_ACCEPTED"} : files' = [files EXCEPT !.intent = i]
    BY DEF Upload
  <2> QED
    BY <2>1 DEF RevisionInv, RevisionTypeOK, Files
<1>3. /\ acts' \in [Acts -> 0..2] /\ acts'[Once("upload")] <= 1
      /\ \A b \in Acts : b # Once("upload") => acts'[b] = acts[b]
      /\ uploads' \in Seq([rev : Versions, media : [Kinds -> Bytes], approved : [Kinds -> Bytes],
                           rejected : SUBSET (Media \X Versions)])
      /\ PublishedRevisionApproved' /\ UploadsInOrder'
  <2>1. CASE Uploaded
    BY <1>1, <2>1, UploadedKeepsOrder
  <2>2. CASE UNCHANGED <<acts, uploads>>
    BY <1>1, <2>2, ActsAre
       DEF RevisionInv, RevisionTypeOK, RevisionActsOnce, PublishedRevisionApproved, UploadsInOrder, Unsent, Once
  <2> QED
    BY <1>1, <2>1, <2>2
<1>4. control \in Control /\ control # Nothing
  BY <1>1, UploadIsApproved
<1>5. RevisionTypeOK'
  BY <1>1, <1>2, <1>3 DEF RevisionInv, RevisionTypeOK, At, Free, PCs, Args
<1>6. RevisionActsOnce' /\ NothingYet' /\ UploadIsAhead'
  BY <1>1, <1>2, <1>3, <1>4 DEF RevisionInv, RevisionActsOnce, NothingYet, UploadIsAhead, At, Free
<1>7. /\ \A n \in {"script", "audio", "encode", "hero"} : acts'[Once(n)] = acts[Once(n)]
      /\ \A k \in Kinds : acts'[Once(Message[k])] = acts[Once(Message[k])]
      /\ \A j \in Jobs : /\ acts'[ForJob("image", j)] = acts[ForJob("image", j)]
                         /\ acts'[ForJob("review", j)] = acts[ForJob("review", j)]
  <2>1. \A n \in {"script", "audio", "encode", "hero"} : Once(n) \in Acts /\ Once(n) # Once("upload")
    BY ActsAre, ActsDiffer
  <2>2. \A k \in Kinds : Once(Message[k]) \in Acts /\ Once(Message[k]) # Once("upload")
    BY ActsAre, ActsDiffer, StageNamesAre
  <2>3. \A j \in Jobs : /\ ForJob("image", j) \in Acts /\ ForJob("image", j) # Once("upload")
                        /\ ForJob("review", j) \in Acts /\ ForJob("review", j) # Once("upload")
    BY ActsAre, ActsDiffer
  <2> QED
    BY <1>3, <2>1, <2>2, <2>3
<1>8. StagesAreAhead'
  BY <1>1, <1>4, <1>7 DEF RevisionInv, ActsAreAhead, StagesAreAhead, Ahead, Unsent, At, Free, Message
<1>9. JobsAreAhead'
  BY <1>1, <1>2, <1>7 DEF RevisionInv, ActsAreAhead, JobsAreAhead, Unsent
<1>10. HeroIsAhead'
  <2>1. Unsent(Once("hero"))
    BY <1>1, LoadsBeforeHero DEF At, Free
  <2> QED
    BY <1>1, <1>7, <2>1 DEF HeroIsAhead, Unsent, At, Free
<1>11. ApprovedIsFresh'
  BY <1>1, <1>2 DEF RevisionInv, ApprovedIsFresh, Fresh, Identity, At, Free
<1> QED
  BY <1>3, <1>5, <1>6, <1>8, <1>9, <1>10, <1>11 DEF RevisionInv, ActsAreAhead

-----------------------------------------------------------------------------
(* A new revision, and the theorems *)

\* The files of a new revision.
LEMMA NoFilesAre ==
    /\ NoFiles \in Files /\ NoFiles.reviews \subseteq NoFiles.authority
    /\ NoFiles.intent = "none" /\ \A k \in Kinds : NoFiles.approval[k] = Nothing
BY DEF NoFiles, Files, NoBytes, Bytes

\* Its control file.
LEMMA NewControlIs ==
    ASSUME NEW r \in Versions
    PROVE  /\ NewControl(r) \in Control /\ NewControl(r) # Nothing /\ NewControl(r).rev = r
           /\ \A k \in Kinds : NewControl(r).artifacts[k] = Nothing
<1>1. NewControl(r) \in Control
  BY DEF NewControl, Control, NoBytes, Bytes, Statuses, WaitingStates
<1> QED
  BY <1>1, NoControlFile DEF NewControl, NoBytes

\* Nothing has been made in a new revision, so everything is ahead.
LEMMA NewRevisionIsAhead ==
    ASSUME \A a \in Acts : Unsent(a), proc = Free, img \in [Jobs -> {"none"}], uploads = <<>> \/ control # Nothing
    PROVE  ActsAreAhead /\ RevisionActsOnce
<1>1. RevisionActsOnce /\ NothingYet
  BY DEF RevisionActsOnce, NothingYet, Unsent
<1>2. StagesAreAhead
  BY ActsAre DEF StagesAreAhead, At, Free
<1>3. JobsAreAhead
  BY ActsAre DEF JobsAreAhead
<1>4. HeroIsAhead /\ UploadIsAhead
  BY ActsAre DEF HeroIsAhead, UploadIsAhead, At, Free
<1> QED
  BY <1>1, <1>2, <1>3, <1>4 DEF ActsAreAhead

\* The invariant holds before the plan.
LEMMA RevisionInitInv == RevisionInit => RevisionInv
<1> SUFFICES ASSUME RevisionInit PROVE RevisionInv
  OBVIOUS
<1> USE DEF RevisionInit
<1>1. RevisionTypeOK
  <2>1. proc \in [pc : PCs, arg : Args]
    BY DEF Free, PCs, Args
  <2>2. acts \in [Acts -> 0..2] /\ img \in [Jobs -> Progress]
    BY DEF Progress
  <2> QED
    BY <2>1, <2>2, NoFilesAre DEF RevisionTypeOK
<1>2. ActsAreAhead /\ RevisionActsOnce
  BY NewRevisionIsAhead DEF Unsent
<1>3. PublishedRevisionApproved /\ UploadsInOrder
  BY DEF PublishedRevisionApproved, UploadsInOrder
<1>4. ApprovedIsFresh
  BY NoFilesAre DEF ApprovedIsFresh, Fresh, Free
<1> QED
  BY <1>1, <1>2, <1>3, <1>4 DEF RevisionInv

\* create_plan() keeps the invariant.
LEMMA CreatePlanKeeps ==
    ASSUME RevisionInv, CreatePlan
    PROVE  RevisionInv'
<1>1. 0 \in Versions
  BY RevisionConstants DEF Versions
<1>2. /\ control' = NewControl(0) /\ control = Nothing /\ proc = Free
      /\ UNCHANGED <<mode, heroes, files, img, rejected, proc, acts, uploads>>
  BY DEF CreatePlan, plan
<1>3. /\ control' \in Control /\ control' # Nothing
      /\ \A k \in Kinds : control'.artifacts[k] = Nothing
  BY <1>1, <1>2, NewControlIs
<1>4. uploads = <<>> /\ \A a \in Acts : Unsent(a)
  BY <1>2 DEF RevisionInv, ActsAreAhead, NothingYet
<1>5. RevisionTypeOK'
  BY <1>2, <1>3 DEF RevisionInv, RevisionTypeOK
<1>6. RevisionActsOnce' /\ PublishedRevisionApproved' /\ UploadsInOrder'
  BY <1>2, <1>4 DEF RevisionInv, RevisionActsOnce, PublishedRevisionApproved, UploadsInOrder
<1>7. ActsAreAhead'
  <2>1. NothingYet'
    BY <1>3 DEF NothingYet
  <2>2. StagesAreAhead'
    BY <1>2, <1>4, ActsAre DEF StagesAreAhead, Unsent, At, Free
  <2>3. JobsAreAhead'
    BY <1>2 DEF RevisionInv, ActsAreAhead, JobsAreAhead, Unsent
  <2>4. HeroIsAhead' /\ UploadIsAhead'
    BY <1>2, <1>4, ActsAre DEF HeroIsAhead, UploadIsAhead, Unsent, At, Free
  <2> QED
    BY <2>1, <2>2, <2>3, <2>4 DEF ActsAreAhead
<1>8. ApprovedIsFresh'
  BY <1>2, <1>3 DEF RevisionInv, ApprovedIsFresh, Fresh, Identity, Kinds, Media
<1> QED
  BY <1>5, <1>6, <1>7, <1>8 DEF RevisionInv

\* reject() retires every medium and starts the next revision.
LEMMA RejectKeeps ==
    ASSUME RevisionInv, Reject
    PROVE  RevisionInv'
<1>1. control \in Control /\ control # Nothing /\ proc = Free /\ proc' = Free
  BY InCommand DEF Reject, Begin
<1>2. control.rev + 1 \in Versions /\ control.rev \in Nat
  BY <1>1, RevisionConstants DEF Reject, Control, Versions
<1>3. /\ control' \in Control /\ control' # Nothing /\ control'.rev = control.rev + 1
      /\ \A k \in Kinds : control'.artifacts[k] = Nothing
  BY <1>2, NewControlIs DEF Reject, Successor
<1>4. /\ rejected' \subseteq Media \X Versions
      /\ \A m \in Media : Identity(m, Nothing) \notin rejected'
  <2>1. rejected' = rejected \cup Retired
    BY DEF Reject
  <2>2. Retired \subseteq Media \X Versions
    BY DEF RevisionInv, RevisionTypeOK, Files, Bytes, Retired, Identity
  <2>3. \A m \in Media : Identity(m, Nothing) \notin Retired
    BY DEF Retired, Identity
  <2> QED
    BY <2>1, <2>2, <2>3 DEF RevisionInv, RevisionTypeOK, ApprovedIsFresh
<1>5. /\ files' = NoFiles /\ img' \in [Jobs -> {"none"}] /\ UNCHANGED <<mode, heroes, proc, uploads>>
      /\ acts' \in [Acts -> 0..2] /\ \A a \in Acts : acts'[a] = 0
  BY DEF Reject, plan
<1>6. RevisionTypeOK'
  BY <1>3, <1>4, <1>5, NoFilesAre DEF RevisionInv, RevisionTypeOK, Progress
<1>7. RevisionActsOnce' /\ PublishedRevisionApproved'
  BY <1>5 DEF RevisionInv, RevisionActsOnce, PublishedRevisionApproved
<1>8. ActsAreAhead'
  <2>1. NothingYet'
    BY <1>3 DEF NothingYet
  <2>2. StagesAreAhead'
    BY <1>1, <1>5, ActsAre DEF StagesAreAhead, Unsent, At, Free
  <2>3. JobsAreAhead'
    BY <1>5, ActsAre DEF JobsAreAhead, Unsent
  <2>4. HeroIsAhead' /\ UploadIsAhead'
    BY <1>1, <1>5, ActsAre DEF HeroIsAhead, UploadIsAhead, Unsent, At, Free
  <2> QED
    BY <2>1, <2>2, <2>3, <2>4 DEF ActsAreAhead
<1>9. ApprovedIsFresh'
  BY <1>1, <1>3, <1>4, <1>5, NoFilesAre DEF ApprovedIsFresh, Fresh, Free, Kinds, Media
<1>10. UploadsInOrder'
  <2>1. \A i \in DOMAIN uploads : uploads[i].rev \in Nat /\ uploads[i].rev <= control.rev
    BY UploadRevisions DEF RevisionInv, UploadsInOrder
  <2> QED
    BY <1>2, <1>3, <1>5, <2>1 DEF UploadsInOrder
<1> QED
  BY <1>6, <1>7, <1>8, <1>9, <1>10 DEF RevisionInv

\* Every step of the harness keeps the invariant.
LEMMA RevisionNextKeeps == RevisionInv /\ [RevisionNext]_vars => RevisionInv'
<1> SUFFICES ASSUME RevisionInv, [RevisionNext]_vars PROVE RevisionInv'
  OBVIOUS
<1>1. ASSUME CreatePlan \/ ApprovePlan \/ Reject \/ Stop \/ BeginRun PROVE RevisionInv'
  BY <1>1, CreatePlanKeeps, ApprovePlanKeeps, RejectKeeps, StopKeeps, BeginRunKeeps
<1>2. ASSUME (\E s \in ToSet(Stages) : StartStage(s)) \/ FinishStage PROVE RevisionInv'
  BY <1>2, StartStageKeeps, FinishStageKeeps
<1>3. ASSUME WriteScript \/ Synthesize PROVE RevisionInv'
  BY <1>3, AuthorKeeps DEF WriteScript, Synthesize
<1>4. ASSUME PostAudioContracts \/ NoHeroes \/ PlanMotion \/ FinalQA PROVE RevisionInv'
  BY <1>4, DeriveKeeps, StageNamesAre DEF PostAudioContracts, NoHeroes, PlanMotion, FinalQA
<1>5. ASSUME HeroIntent \/ HeroSubmit \/ RenderVideo \/ EncodeReceipt \/ RecoverEncode \/ MakeSidecars
      PROVE  RevisionInv'
  BY <1>5, HeroIntentKeeps, HeroSubmitKeeps, RenderVideoKeeps, EncodeReceiptKeeps, RecoverEncodeKeeps,
     MakeSidecarsKeeps
<1>6. ASSUME NEW j \in Jobs,
             \/ PostImage(j) \/ ReceiveImage(j) \/ RejectTechnically(j)
             \/ AskReview(j) \/ ReserveReview(j) \/ ReceiveReview(j) \/ Record(j)
      PROVE  RevisionInv'
  BY <1>6, PostImageKeeps, ReceiveImageKeeps, RejectTechnicallyKeeps, AskReviewKeeps, ReserveReviewKeeps,
     ReceiveReviewKeeps, RecordKeeps
<1>7. ASSUME AuthorizeWave \/ CloseImages PROVE RevisionInv'
  BY <1>7, AuthorizeWaveKeeps, CloseImagesKeeps
<1>8. ASSUME NEW k \in Kinds,
             \/ FreezeArtifacts(k) \/ Deliver(k) \/ Send(k) \/ WriteReceipt(k) \/ OpenGate(k)
             \/ Approve(k) \/ SaveApproval(k)
      PROVE  RevisionInv'
  BY <1>8, FreezeArtifactsKeeps, DeliverKeeps, SendKeeps, WriteReceiptKeeps, OpenGateKeeps, ApproveKeeps,
     SaveApprovalKeeps
<1>9. ASSUME FreezePackage \/ Authorize \/ SaveAuthorization \/ Publish PROVE RevisionInv'
  BY <1>9, FreezePackageKeeps, AuthorizeKeeps, SaveAuthorizationKeeps, PublishKeeps
<1>10. ASSUME Upload \/ RecordPublication \/ RewritePackage \/ SavePublished PROVE RevisionInv'
  BY <1>10, UploadKeeps, RecordPublicationKeeps, RewritePackageKeeps, SavePublishedKeeps
<1>11. CASE UNCHANGED vars
  BY <1>11 DEF vars, RevisionInv, RevisionTypeOK, RevisionActsOnce, PublishedRevisionApproved, ActsAreAhead,
     NothingYet, StagesAreAhead, JobsAreAhead, HeroIsAhead, UploadIsAhead, ApprovedIsFresh, UploadsInOrder,
     Ahead, Unsent, Complete, Fresh
<1> QED
  BY <1>1, <1>2, <1>3, <1>4, <1>5, <1>6, <1>7, <1>8, <1>9, <1>10, <1>11 DEF RevisionNext

\* The inductive invariant of the revision harness.
THEOREM RevisionInvariant == RevisionSpec => []RevisionInv
BY RevisionInitInv, RevisionNextKeeps, PTL DEF RevisionSpec

\* However often a command stops and is run again, nothing is paid for, sent or uploaded
\* twice in one revision (stage, deliver, publish).
THEOREM RevisionPaysOnce == RevisionSpec => []RevisionActsOnce
<1>1. RevisionInv => RevisionActsOnce
  BY DEF RevisionInv
<1> QED
  BY <1>1, RevisionInvariant, PTL

\* Every upload is of media that all three gates approved as they were uploaded and that no
\* earlier revision rejected, and a revision is uploaded once (publish, fresh, reject).
THEOREM RevisionUploadsApproved == RevisionSpec => []PublishedRevisionApproved
<1>1. RevisionInv => PublishedRevisionApproved
  BY DEF RevisionInv
<1> QED
  BY <1>1, RevisionInvariant, PTL

-----------------------------------------------------------------------------
(* The serverless hero provider *)

\* A call waits with a copy of the checkpoint that names the job.
Following == DrivePCs \cup RecoverPCs \cup {"loop", "cancel"}
Ended == {"done", "failed", "cancelled"}

\* A checkpoint, on disk or as a copy, claims no more than the service did.
Evidenced(state) ==
    /\ state.status \in Terminal => remote \in Ended
    /\ state.status = "COMPLETED" => remote = "done"

\* Before the POST is answered the file is as the claim left it, nobody but the
\* submitting driver is at work, and there is no job to cancel.
Unnamed ==
    /\ ck = NoFile => posts = 0 /\ remote = "none" /\ \A p \in Calls : pc[p] = "idle"
    /\ ck # NoFile /\ ~ck.id => ck = FreshCheckpoint /\ \A p \in Calls : pc[p] \in {"idle", "post", "posted"}
    /\ posts = 0 <=> remote = "none"

\* The driver of a POST holds the claim it wrote, and counts the POST.
Posting ==
    \A d \in Drivers :
       /\ pc[d] \in {"post", "posted"} => ck = FreshCheckpoint /\ local[d] = FreshCheckpoint
       /\ pc[d] = "post" => posts = 0
       /\ pc[d] = "posted" => posts = 1

\* The executor's lock: one driver at a time.  cancel() only sends requests.
OneDriver ==
    /\ \A d, e \in Drivers : pc[d] # "idle" /\ pc[e] # "idle" => d = e
    /\ \A c \in Cancellers : pc[c] \in {"idle", "cancel"}

\* A named job was posted, the file says no more than the service did, and
\* neither do the copies and the answer a call is about to use.
CopiesAreEvidenced ==
    /\ ck # NoFile => Evidenced(ck) /\ (ck.id => remote # "none")
    /\ \A p \in Calls :
          /\ pc[p] \in Following => ck # NoFile /\ ck.id
          /\ pc[p] \in Following \ {"loop"} => local[p].id /\ Evidenced(local[p])
          /\ pc[p] \in {"check", "rcheck"} =>
                answer[p] # "none" /\ (answer[p] \in Ended => remote = answer[p])

\* A claim is never taken back: who sends a cancellation has it on file and in
\* its copy, and no copy has a claim that the file has not.
ClaimsAreKept ==
    \A p \in Calls :
       /\ pc[p] = "cancel" => local[p].claimed /\ ck.claimed
       /\ pc[p] \in Following \ {"loop"} /\ local[p].claimed => ck.claimed

\* A completed job is delivered only by a driver that races no cancellation.
CompletionIsUnclaimed ==
    /\ ck # NoFile /\ ck.status = "COMPLETED" /\ ck.claimed =>
          \A d \in Drivers : pc[d] \in {"idle", "cancel"}
    /\ \A d \in Drivers : pc[d] = "download" =>
          ck.status = "COMPLETED" /\ ~ck.claimed /\ local[d] = ck
    /\ \A c \in Cancellers : pc[c] = "cancel" => local[c].status \notin Terminal

\* After a delivery nobody is left who could write.
DeliveredIsQuiet == returned => \A p \in Calls : pc[p] = "idle"

HeroInv ==
    /\ PostedOnceAndClaimed
    /\ Unnamed /\ Posting /\ OneDriver /\ CopiesAreEvidenced /\ ClaimsAreKept
    /\ CompletionIsUnclaimed /\ DeliveredIsQuiet
    /\ returned => ck # NoFile /\ DeliveredStaysDelivered

-----------------------------------------------------------------------------
\* What _parse_status() makes of each answer.
LEMMA ParsedFacts ==
    ASSUME NEW r \in Remotes
    PROVE  /\ Parsed(r) \in {"RUNNING"} \cup Terminal
           /\ Parsed(r) \in Terminal <=> r \in Ended
           /\ Parsed(r) = "COMPLETED" <=> r = "done"
BY DEF Parsed, Remotes, Terminal, Ended

\* The claim that submit() writes.
LEMMA FreshFacts ==
    /\ FreshCheckpoint \in Checkpoint /\ FreshCheckpoint # NoFile
    /\ FreshCheckpoint.id = FALSE /\ FreshCheckpoint.claimed = FALSE /\ FreshCheckpoint.status = "SUBMITTING"
<1>1. FreshCheckpoint \in Checkpoint
  BY DEF FreshCheckpoint, Checkpoint
<1>2. FreshCheckpoint # NoFile
  BY <1>1, HeroConstants
<1> QED
  BY <1>1, <1>2 DEF FreshCheckpoint

-----------------------------------------------------------------------------
(* The steps that several handlers share *)

\* A call that ends without a write disturbs nobody.
LEMMA LeaveKeeps ==
    ASSUME HeroInv, NEW p \in Calls, Leave(p), UNCHANGED <<ck, file, remote, posts, due, returned>>,
           bound' \in BOOLEAN
    PROVE  HeroInv'
<1> USE HeroConstants DEF HeroInv, PostedOnceAndClaimed, Calls, Checkpoint, Leave, Reach
<1>1. PostedOnceAndClaimed'
  BY DEF CallPCs, DrivePCs, RecoverPCs
<1>2. Unnamed'
  BY FreshFacts DEF Unnamed, CopiesAreEvidenced, Following, DrivePCs, RecoverPCs
<1>3. Posting'
  BY FreshFacts DEF Posting, Unnamed
<1>4. OneDriver'
  BY DEF OneDriver, Unnamed
<1>5. CopiesAreEvidenced'
  BY DEF CopiesAreEvidenced, Unnamed, Posting, Following, DrivePCs, RecoverPCs, Terminal, Ended, Evidenced
<1>6. ClaimsAreKept'
  BY DEF ClaimsAreKept, Unnamed, Following, DrivePCs, RecoverPCs
<1>7. CompletionIsUnclaimed'
  BY DEF CompletionIsUnclaimed, Unnamed, ClaimsAreKept, OneDriver, Terminal
<1>8. DeliveredIsQuiet' /\ (returned => ck # NoFile /\ DeliveredStaysDelivered)'
  BY DEF DeliveredIsQuiet, DeliveredStaysDelivered
<1> QED
  BY <1>1, <1>2, <1>4, <1>5, <1>6, <1>7, <1>8, <1>3

\* The claim of a cancellation, by the only driver or by cancel() of an unfinished
\* job, is durable before anything is sent (_cancel_once).
LEMMA CancelOnceKeeps ==
    ASSUME HeroInv, NEW p \in Calls, ck # NoFile, ck.id, ~returned,
           p \in Cancellers => ck.status \notin Terminal,
           p \in Drivers => \A e \in Drivers \ {p} : pc[e] = "idle",
           CancelOnce(p), UNCHANGED <<file, remote, posts, due, returned>>, bound' \in BOOLEAN
    PROVE  HeroInv'
<1>0. ck \in Checkpoint
  BY DEF HeroInv, PostedOnceAndClaimed
<1>1. CASE ck.status = "CANCELLED"
  BY <1>1, LeaveKeeps DEF CancelOnce
<1>2. CASE ck.status # "CANCELLED"
  <2>0. /\ ck' \in Checkpoint /\ ck'.claimed = TRUE
        /\ ck'.id = ck.id /\ ck'.status = ck.status /\ ck'.result = ck.result
        /\ Keep(p, ck') /\ Reach(p, "cancel") /\ answer' = answer
    <3>1. ck' = [ck EXCEPT !.claimed = TRUE] /\ Keep(p, ck') /\ Reach(p, "cancel") /\ answer' = answer
      BY <1>2, Zenon DEF CancelOnce
    <3> QED
      BY <1>0, <3>1 DEF Checkpoint
  <2> USE <2>0, HeroConstants DEF HeroInv, PostedOnceAndClaimed, Calls, Reach, Keep
  <2>1. PostedOnceAndClaimed'
    BY DEF CallPCs, DrivePCs, RecoverPCs
  <2>2. Unnamed'
    BY FreshFacts DEF Unnamed, CopiesAreEvidenced, Following, DrivePCs, RecoverPCs
  <2>8. Posting'
    BY FreshFacts DEF Posting, Unnamed
  <2>3. OneDriver'
    BY DEF OneDriver, Unnamed
  <2>4. CopiesAreEvidenced'
    BY DEF CopiesAreEvidenced, Unnamed, Posting, Following, DrivePCs, RecoverPCs, Terminal, Ended, Evidenced
  <2>5. ClaimsAreKept'
    BY DEF ClaimsAreKept, Unnamed, Following, DrivePCs, RecoverPCs
  <2>6. CompletionIsUnclaimed'
    BY DEF CompletionIsUnclaimed, Unnamed, ClaimsAreKept, OneDriver, Terminal
  <2>7. DeliveredIsQuiet' /\ (returned => ck # NoFile /\ DeliveredStaysDelivered)'
    BY DEF DeliveredIsQuiet, DeliveredStaysDelivered
  <2> QED
    BY <2>1, <2>2, <2>3, <2>4, <2>5, <2>6, <2>7, <2>8
<1> QED
  BY <1>1, <1>2

\* A driver that goes on waiting with a fresh copy of the file it has just read.
LEMMA WaitKeeps ==
    ASSUME HeroInv, NEW d \in Drivers, NEW l \in {"sleep", "rstatus", "download"}, ck # NoFile, ck.id,
           ~returned,
           \A e \in Drivers \ {d} : pc[e] = "idle",
           ~ck.claimed \/ ck.status # "COMPLETED",
           l = "download" => ck.status = "COMPLETED",
           Keep(d, ck), Reach(d, l),
           UNCHANGED <<ck, file, answer, remote, posts, due, returned>>, bound' \in BOOLEAN
    PROVE  HeroInv'
<1> USE HeroConstants DEF HeroInv, PostedOnceAndClaimed, Calls, Checkpoint, Reach, Keep
<1>1. PostedOnceAndClaimed'
  BY DEF CallPCs, DrivePCs, RecoverPCs
<1>2. Unnamed'
  BY FreshFacts DEF Unnamed, CopiesAreEvidenced, Following, DrivePCs, RecoverPCs
<1>3. Posting'
  BY FreshFacts DEF Posting, Unnamed
<1>4. OneDriver'
  BY DEF OneDriver, Unnamed
<1>5. CopiesAreEvidenced'
  BY DEF CopiesAreEvidenced, Unnamed, Posting, Following, DrivePCs, RecoverPCs, Terminal, Ended, Evidenced
<1>6. ClaimsAreKept'
  BY DEF ClaimsAreKept, Unnamed, Following, DrivePCs, RecoverPCs
<1>7. CompletionIsUnclaimed'
  BY DEF CompletionIsUnclaimed, Unnamed, ClaimsAreKept, OneDriver, Terminal
<1>8. DeliveredIsQuiet' /\ (returned => ck # NoFile /\ DeliveredStaysDelivered)'
  BY DEF DeliveredIsQuiet, DeliveredStaysDelivered
<1> QED
  BY <1>1, <1>2, <1>4, <1>5, <1>6, <1>7, <1>8, <1>3

\* A driver that goes on with the copy it holds.
LEMMA MoveKeeps ==
    ASSUME HeroInv, NEW d \in Drivers, NEW l \in {"loop", "status"}, pc[d] \in {"sleep", "check"},
           Reach(d, l), UNCHANGED <<ck, file, bound, local, answer, remote, posts, due, returned>>
    PROVE  HeroInv'
<1> USE HeroConstants DEF HeroInv, PostedOnceAndClaimed, Calls, Checkpoint, Reach
<1>1. PostedOnceAndClaimed'
  BY DEF CallPCs, DrivePCs, RecoverPCs
<1>2. Unnamed'
  BY FreshFacts DEF Unnamed, CopiesAreEvidenced, Following, DrivePCs, RecoverPCs
<1>3. Posting'
  BY FreshFacts DEF Posting, Unnamed
<1>4. OneDriver'
  BY DEF OneDriver, Unnamed
<1>5. CopiesAreEvidenced'
  BY DEF CopiesAreEvidenced, Unnamed, Posting, Following, DrivePCs, RecoverPCs, Terminal, Ended, Evidenced
<1>6. ClaimsAreKept'
  BY DEF ClaimsAreKept, Unnamed, Following, DrivePCs, RecoverPCs
<1>7. CompletionIsUnclaimed'
  BY DEF CompletionIsUnclaimed, Unnamed, ClaimsAreKept, OneDriver, Terminal
<1>8. DeliveredIsQuiet' /\ (returned => ck # NoFile /\ DeliveredStaysDelivered)'
  BY DEF DeliveredIsQuiet, DeliveredStaysDelivered
<1> QED
  BY <1>1, <1>2, <1>4, <1>5, <1>6, <1>7, <1>8, <1>3

\* submit() claims a request nobody has claimed (_claim_submission).
LEMMA SubmitKeeps ==
    ASSUME HeroInv, NEW d \in Drivers, Submit(d)
    PROVE  HeroInv'
<1> USE HeroConstants, FreshFacts DEF HeroInv, PostedOnceAndClaimed, Calls, Checkpoint, Submit, Reach, Keep,
                                      Claims
<1>1. PostedOnceAndClaimed'
  BY DEF CallPCs, DrivePCs, RecoverPCs
<1>2. Unnamed'
  BY FreshFacts DEF Unnamed, CopiesAreEvidenced, Following, DrivePCs, RecoverPCs
<1>3. Posting'
  BY FreshFacts DEF Posting, Unnamed
<1>4. OneDriver'
  BY DEF OneDriver, Unnamed
<1>5. CopiesAreEvidenced'
  BY DEF CopiesAreEvidenced, Unnamed, Posting, Following, DrivePCs, RecoverPCs, Terminal, Ended, Evidenced
<1>6. ClaimsAreKept'
  BY DEF ClaimsAreKept, Unnamed, Following, DrivePCs, RecoverPCs
<1>7. CompletionIsUnclaimed'
  BY DEF CompletionIsUnclaimed, Unnamed, ClaimsAreKept, OneDriver, Terminal
<1>8. DeliveredIsQuiet' /\ (returned => ck # NoFile /\ DeliveredStaysDelivered)'
  BY DEF DeliveredIsQuiet, DeliveredStaysDelivered
<1> QED
  BY <1>1, <1>2, <1>4, <1>5, <1>6, <1>7, <1>8, <1>3

\* The answer is saved into the copy: nobody has claimed a cancellation since it
\* was read, so the copy has no claim either and no cancellation is under way.
LEMMA SaveKeeps ==
    ASSUME HeroInv, NEW d \in Drivers, pc[d] \in {"check", "rcheck"}, ~ck.claimed,
           ck' = [local[d] EXCEPT !.status = Parsed(answer[d])], Reach(d, "loop"),
           UNCHANGED <<file, bound, local, answer, remote, posts, due, returned>>
    PROVE  HeroInv'
<1>1. /\ ck' \in Checkpoint /\ ck'.claimed = FALSE /\ ck'.id = TRUE
      /\ Evidenced(ck') /\ (\A c \in Cancellers : pc[c] = "idle") /\ ~returned
      /\ \A e \in Drivers : e # d => pc[e] = "idle"
  <2>1. local[d] \in Checkpoint /\ answer[d] \in Remotes /\ ck \in Checkpoint
        /\ local[d].id = TRUE /\ local[d].claimed = FALSE
    BY DEF HeroInv, PostedOnceAndClaimed, Calls, CopiesAreEvidenced, ClaimsAreKept, Following, DrivePCs,
           RecoverPCs, Checkpoint
  <2>2. Parsed(answer[d]) \in {"RUNNING"} \cup Terminal
        /\ (Parsed(answer[d]) \in Terminal => remote \in Ended)
        /\ (Parsed(answer[d]) = "COMPLETED" => remote = "done")
    BY <2>1, ParsedFacts DEF HeroInv, CopiesAreEvidenced, Calls, Ended
  <2>3. ck' \in Checkpoint /\ ck'.claimed = FALSE /\ ck'.id = TRUE /\ Evidenced(ck')
    BY <2>1, <2>2 DEF Checkpoint, Terminal, Evidenced
  <2>4. \A c \in Cancellers : pc[c] = "idle"
    BY DEF HeroInv, OneDriver, ClaimsAreKept, Calls
  <2>5. ~returned /\ \A e \in Drivers : e # d => pc[e] = "idle"
    BY DEF HeroInv, DeliveredIsQuiet, OneDriver, Calls
  <2> QED
    BY <2>3, <2>4, <2>5
<1> USE <1>1, HeroConstants DEF HeroInv, PostedOnceAndClaimed, Calls, Reach, Checkpoint
<1>2. PostedOnceAndClaimed'
  BY DEF CallPCs, DrivePCs, RecoverPCs
<1>3. Unnamed'
  BY FreshFacts DEF Unnamed, CopiesAreEvidenced, Following, DrivePCs, RecoverPCs
<1>4. Posting'
  BY FreshFacts DEF Posting, Unnamed
<1>5. OneDriver'
  BY DEF OneDriver, Unnamed
<1>6. CopiesAreEvidenced'
  BY DEF CopiesAreEvidenced, Unnamed, Posting, Following, DrivePCs, RecoverPCs, Terminal, Ended, Evidenced
<1>7. ClaimsAreKept'
  BY DEF ClaimsAreKept, Unnamed, Following, DrivePCs, RecoverPCs
<1>8. CompletionIsUnclaimed'
  BY DEF CompletionIsUnclaimed, Unnamed, ClaimsAreKept, OneDriver, Terminal
<1>9. DeliveredIsQuiet' /\ (returned => ck # NoFile /\ DeliveredStaysDelivered)'
  BY DEF DeliveredIsQuiet, DeliveredStaysDelivered
<1> QED
  BY <1>2, <1>3, <1>5, <1>6, <1>7, <1>8, <1>9, <1>4

\* The only submission arrives.
LEMMA PostArrivesKeeps ==
    ASSUME HeroInv, NEW d \in Drivers, PostArrives(d)
    PROVE  HeroInv'
<1>1. pc[d] = "post" /\ local[d] = FreshCheckpoint /\ posts = 0 /\ posts' = 1 /\ remote = "none"
      /\ remote' = "running" /\ ck = FreshCheckpoint /\ ~returned
      /\ (\A q \in Calls : q # d => pc[q] = "idle")
      /\ Reach(d, "posted") /\ UNCHANGED <<ck, file, bound, local, answer, due, returned>>
  BY FreshFacts DEF HeroInv, Unnamed, Posting, OneDriver, DeliveredIsQuiet, PostArrives, Calls
<1> USE FreshFacts
<1> USE <1>1, HeroConstants DEF HeroInv, PostedOnceAndClaimed, Calls, Reach, Remotes
<1>2. PostedOnceAndClaimed'
  BY DEF CallPCs, DrivePCs, RecoverPCs
<1>3. Unnamed'
  BY FreshFacts DEF Unnamed, CopiesAreEvidenced, Following, DrivePCs, RecoverPCs
<1>4. Posting'
  BY FreshFacts DEF Posting, Unnamed
<1>5. OneDriver'
  BY DEF OneDriver, Unnamed
<1>6. CopiesAreEvidenced'
  BY DEF CopiesAreEvidenced, Unnamed, Posting, Following, DrivePCs, RecoverPCs, Terminal, Ended, Evidenced
<1>7. ClaimsAreKept'
  BY DEF ClaimsAreKept, Unnamed, Following, DrivePCs, RecoverPCs
<1>8. CompletionIsUnclaimed'
  BY DEF CompletionIsUnclaimed, Unnamed, ClaimsAreKept, OneDriver, Terminal
<1>9. DeliveredIsQuiet' /\ (returned => ck # NoFile /\ DeliveredStaysDelivered)'
  BY DEF DeliveredIsQuiet, DeliveredStaysDelivered
<1> QED
  BY <1>2, <1>3, <1>5, <1>6, <1>7, <1>8, <1>9, <1>4

\* Without an answer the claim stays as it was written.
LEMMA PostFailsKeeps ==
    ASSUME HeroInv, NEW d \in Drivers, PostFails(d)
    PROVE  HeroInv'
<1>0. ck' = ck /\ Leave(d) /\ UNCHANGED <<file, bound, remote, posts, due, returned>>
  BY DEF HeroInv, Posting, PostFails
<1> QED
  BY <1>0, LeaveKeeps DEF HeroInv, PostedOnceAndClaimed, Calls

\* The answered POST names the job: nobody else is at work on an unnamed one.
LEMMA PostAnsweredKeeps ==
    ASSUME HeroInv, NEW d \in Drivers, PostAnswered(d)
    PROVE  HeroInv'
<1>1. pc[d] = "posted" /\ ck = FreshCheckpoint /\ local[d] = FreshCheckpoint /\ posts = 1 /\ remote \in Remotes \ {"none"}
      /\ ~returned
      /\ (\A q \in Calls : q # d => pc[q] = "idle")
  <2>1. pc[d] = "posted" /\ ck = FreshCheckpoint /\ local[d] = FreshCheckpoint /\ posts = 1
    BY DEF HeroInv, Posting, PostAnswered
  <2> QED
    BY <2>1, FreshFacts DEF HeroInv, PostedOnceAndClaimed, Unnamed, OneDriver, DeliveredIsQuiet, Calls
<1>2. Parsed(remote) \in {"RUNNING"} \cup Terminal
      /\ (Parsed(remote) \in Terminal => remote \in Ended)
      /\ (Parsed(remote) = "COMPLETED" => remote = "done")
  BY <1>1, ParsedFacts
<1>3. ck' \in Checkpoint /\ ck'.id = TRUE /\ ck'.claimed = FALSE /\ Evidenced(ck')
  <2>1. CASE ck' = [local[d] EXCEPT !.id = TRUE, !.status = Parsed(remote)]
    BY <1>1, <1>2, <2>1, FreshFacts DEF Checkpoint, Evidenced, Terminal
  <2>2. CASE ck' = [local[d] EXCEPT !.id = TRUE]
    BY <1>1, <2>2, FreshFacts DEF Checkpoint, Evidenced, Terminal
  <2> QED
    BY <2>1, <2>2 DEF PostAnswered
<1>4. /\ \E l \in {"loop", "idle"} : Reach(d, l)
      /\ local' \in [Calls -> Checkpoint] /\ answer' \in [Calls -> Remotes]
      /\ bound' \in BOOLEAN /\ UNCHANGED <<file, remote, posts, due, returned>>
  BY <1>1, <1>3 DEF PostAnswered, Leave, Keep, HeroInv, PostedOnceAndClaimed, Calls
<1>5. \A q \in Calls : pc'[q] \in {"idle", "loop"} /\ (pc'[q] = "loop" => q = d)
  BY <1>1, <1>4 DEF Reach, HeroInv, PostedOnceAndClaimed, Calls
<1> USE <1>1, <1>3, <1>4
<1> USE <1>5, HeroConstants DEF HeroInv, PostedOnceAndClaimed, Calls, Reach, Checkpoint, Remotes
<1>6. PostedOnceAndClaimed'
  BY DEF CallPCs, DrivePCs, RecoverPCs
<1>7. Unnamed'
  BY FreshFacts DEF Unnamed, CopiesAreEvidenced, Following, DrivePCs, RecoverPCs
<1>8. Posting'
  BY FreshFacts DEF Posting, Unnamed
<1>9. OneDriver'
  BY DEF OneDriver, Unnamed
<1>10. CopiesAreEvidenced'
  BY DEF CopiesAreEvidenced, Unnamed, Posting, Following, DrivePCs, RecoverPCs, Terminal, Ended, Evidenced
<1>11. ClaimsAreKept'
  BY DEF ClaimsAreKept, Unnamed, Following, DrivePCs, RecoverPCs
<1>12. CompletionIsUnclaimed'
  BY DEF CompletionIsUnclaimed, Unnamed, ClaimsAreKept, OneDriver, Terminal
<1>13. DeliveredIsQuiet' /\ (returned => ck # NoFile /\ DeliveredStaysDelivered)'
  BY DEF DeliveredIsQuiet, DeliveredStaysDelivered
<1> QED
  BY <1>6, <1>7, <1>9, <1>10, <1>11, <1>12, <1>13, <1>8

\* A control request ends and saves the copy it was claimed with.  The claim is
\* in the copy, and the job of a copy that says CANCELLED has ended by then.
LEMMA CancelStepKeeps ==
    ASSUME HeroInv, NEW p \in Calls, CancelStep(p)
    PROVE  HeroInv'
<1>1. /\ local[p] \in Checkpoint /\ local[p].id = TRUE /\ local[p].claimed = TRUE /\ Evidenced(local[p])
      /\ pc[p] = "cancel" /\ ck # NoFile /\ ck.claimed = TRUE /\ remote \in Remotes \ {"none"} /\ ~returned
      /\ ck \in Checkpoint /\ ck.id = TRUE
  BY DEF CancelStep, HeroInv, PostedOnceAndClaimed, CopiesAreEvidenced, ClaimsAreKept, DeliveredIsQuiet,
         Following, Calls, Checkpoint
<1>2. remote' = remote \/ (remote = "running" /\ remote' = "cancelled")
  BY DEF CancelStep
<1>3. (ck' = [local[p] EXCEPT !.status = "CANCELLED"] /\ remote' # "running") \/ ck' = local[p]
  BY DEF CancelStep, Abandon
<1>4. /\ ck' \in Checkpoint /\ ck'.id = TRUE /\ ck'.claimed = TRUE
      /\ ck'.status \in Terminal => remote' \in Ended
      /\ ck'.status = "COMPLETED" => remote' = "done" /\ local[p].status = "COMPLETED"
  BY <1>1, <1>2, <1>3 DEF Checkpoint, Terminal, Ended, Evidenced, Remotes
<1>5. /\ \A d \in Drivers : pc[d] # "download"
      /\ p \in Drivers => \A d \in Drivers : d # p => pc[d] = "idle"
      /\ p \in Cancellers => local[p].status \notin Terminal
  BY <1>1 DEF HeroInv, CompletionIsUnclaimed, OneDriver
<1>6. /\ Leave(p) /\ UNCHANGED <<file, bound, posts, due, returned>>
      /\ \A q \in Calls : pc[q] \notin {"post", "posted"}
  BY <1>1, FreshFacts DEF CancelStep, HeroInv, Posting, OneDriver, Calls
<1> USE <1>1, <1>2, <1>4, <1>5
<1> USE <1>6, HeroConstants DEF HeroInv, PostedOnceAndClaimed, Calls, Reach, Leave, Remotes
<1>7. PostedOnceAndClaimed'
  BY DEF CallPCs, DrivePCs, RecoverPCs
<1>8. Unnamed'
  BY FreshFacts DEF Unnamed, CopiesAreEvidenced, Following, DrivePCs, RecoverPCs
<1>9. Posting'
  BY FreshFacts DEF Posting, Unnamed
<1>10. OneDriver'
  BY DEF OneDriver, Unnamed
<1>11. CopiesAreEvidenced'
  BY DEF CopiesAreEvidenced, Unnamed, Posting, Following, DrivePCs, RecoverPCs, Terminal, Ended, Evidenced
<1>12. ClaimsAreKept'
  BY DEF ClaimsAreKept, Unnamed, Following, DrivePCs, RecoverPCs
<1>13. CompletionIsUnclaimed'
  BY DEF CompletionIsUnclaimed, Unnamed, ClaimsAreKept, OneDriver, Terminal
<1>14. DeliveredIsQuiet' /\ (returned => ck # NoFile /\ DeliveredStaysDelivered)'
  BY DEF DeliveredIsQuiet, DeliveredStaysDelivered
<1> QED
  BY <1>7, <1>8, <1>10, <1>11, <1>12, <1>13, <1>14, <1>9

\* The answer is the state of the job when the service made it, which only ends.
LEMMA StatusAnsweredKeeps ==
    ASSUME HeroInv, NEW d \in Drivers, StatusAnswered(d)
    PROVE  HeroInv'
<1>1. /\ pc[d] \in {"status", "rstatus"} /\ answer' = [answer EXCEPT ![d] = remote]
      /\ \E l \in {"check", "rcheck"} : Reach(d, l)
      /\ UNCHANGED <<ck, file, bound, local, remote, posts, due, returned>>
  BY DEF StatusAnswered
<1> USE <1>1, HeroConstants DEF HeroInv, PostedOnceAndClaimed, Calls, Reach
<1>2. PostedOnceAndClaimed'
  BY DEF CallPCs, DrivePCs, RecoverPCs
<1>3. Unnamed'
  BY FreshFacts DEF Unnamed, CopiesAreEvidenced, Following, DrivePCs, RecoverPCs
<1>4. Posting'
  BY FreshFacts DEF Posting, Unnamed
<1>5. OneDriver'
  BY DEF OneDriver, Unnamed
<1>6. CopiesAreEvidenced'
  BY DEF CopiesAreEvidenced, Unnamed, Posting, Following, DrivePCs, RecoverPCs, Terminal, Ended, Evidenced
<1>7. ClaimsAreKept'
  BY DEF ClaimsAreKept, Unnamed, Following, DrivePCs, RecoverPCs
<1>8. CompletionIsUnclaimed'
  BY DEF CompletionIsUnclaimed, Unnamed, ClaimsAreKept, OneDriver, Terminal
<1>9. DeliveredIsQuiet' /\ (returned => ck # NoFile /\ DeliveredStaysDelivered)'
  BY DEF DeliveredIsQuiet, DeliveredStaysDelivered
<1> QED
  BY <1>2, <1>3, <1>5, <1>6, <1>7, <1>8, <1>9, <1>4

\* The end of a completed job: the result is rejected, or linked, recorded and
\* returned, with the copy that is still what the file says (_complete).
LEMMA ResultKeeps ==
    ASSUME HeroInv, NEW d \in Drivers, NEW state \in Checkpoint, pc[d] \in {"loop", "download"},
           state = ck, ck.status = "COMPLETED", RejectResult(d, state) \/ DeliverHero(d, state),
           UNCHANGED <<bound, remote, posts, due>>
    PROVE  HeroInv'
<1>1. /\ ck \in Checkpoint /\ ck.id = TRUE /\ ck.claimed = FALSE /\ remote = "done" /\ ~returned
      /\ (\A q \in Calls : q # d => pc[q] = "idle")
  BY HeroConstants DEF HeroInv, PostedOnceAndClaimed, CopiesAreEvidenced, ClaimsAreKept, CompletionIsUnclaimed,
      OneDriver, DeliveredIsQuiet, Following, DrivePCs, RecoverPCs, Evidenced, Calls, Checkpoint
<1>2. /\ ck' \in Checkpoint /\ ck'.id = TRUE /\ ck'.claimed = FALSE
      /\ returned' = TRUE => file' /\ ck'.status = "COMPLETED" /\ ck'.result
      /\ file' \in BOOLEAN /\ returned' \in BOOLEAN
  <2>1. file \in BOOLEAN /\ returned = FALSE
    BY <1>1 DEF HeroInv, PostedOnceAndClaimed
  <2>2. CASE ck' = [state EXCEPT !.status = "FAILED"] /\ file' \in {file, TRUE} /\ returned' = returned
    BY <1>1, <2>1, <2>2 DEF Checkpoint, Terminal
  <2>3. CASE ck' = [state EXCEPT !.status = "COMPLETED", !.result = TRUE] /\ file' = TRUE /\ returned' = TRUE
    BY <1>1, <2>3 DEF Checkpoint, Terminal
  <2>4. CASE ck' = ck /\ file' = TRUE /\ returned' = returned
    BY <1>1, <2>1, <2>4 DEF Checkpoint
  <2> QED
    BY <2>2, <2>3, <2>4, Zenon DEF RejectResult, DeliverHero
<1>3. (\A q \in Calls : pc'[q] = "idle") /\ pc' \in [Calls -> CallPCs] /\ UNCHANGED <<local, answer>>
  BY <1>1 DEF RejectResult, DeliverHero, Die, Leave, Reach, HeroInv, PostedOnceAndClaimed, Calls, CallPCs
<1> USE <1>1, <1>2
<1> USE <1>3, HeroConstants DEF HeroInv, PostedOnceAndClaimed, Calls, Checkpoint
<1>4. PostedOnceAndClaimed'
  BY DEF CallPCs, DrivePCs, RecoverPCs
<1>5. Unnamed'
  BY FreshFacts DEF Unnamed, CopiesAreEvidenced, Following, DrivePCs, RecoverPCs
<1>6. Posting'
  BY FreshFacts DEF Posting, Unnamed
<1>7. OneDriver'
  BY DEF OneDriver, Unnamed
<1>8. CopiesAreEvidenced'
  BY DEF CopiesAreEvidenced, Unnamed, Posting, Following, DrivePCs, RecoverPCs, Terminal, Ended, Evidenced
<1>9. ClaimsAreKept'
  BY DEF ClaimsAreKept, Unnamed, Following, DrivePCs, RecoverPCs
<1>10. CompletionIsUnclaimed'
  BY DEF CompletionIsUnclaimed, Unnamed, ClaimsAreKept, OneDriver, Terminal
<1>11. DeliveredIsQuiet' /\ (returned => ck # NoFile /\ DeliveredStaysDelivered)'
  BY DEF DeliveredIsQuiet, DeliveredStaysDelivered
<1> QED
  BY <1>4, <1>5, <1>7, <1>8, <1>9, <1>10, <1>11, <1>6

\* The service ends the job, the deadline passes, the process dies.
LEMMA EnvironmentKeeps ==
    ASSUME HeroInv, RemoteEnds \/ Deadline \/ Crash \/ UNCHANGED heroVars
    PROVE  HeroInv'
<1>1. /\ UNCHANGED <<ck, file, bound, local, answer, posts, returned>> /\ due' \in BOOLEAN
      /\ remote' = remote \/ (remote = "running" /\ remote' \in Ended)
  BY DEF RemoteEnds, Deadline, Crash, Die, heroVars, callVars, Ended, HeroInv, PostedOnceAndClaimed
<1>2. pc' \in [Calls -> CallPCs] /\ \A p \in Calls : pc'[p] \in {pc[p], "idle"}
  BY DEF RemoteEnds, Deadline, Crash, Die, heroVars, callVars, HeroInv, PostedOnceAndClaimed, CallPCs
<1> USE <1>1
<1> USE <1>2, HeroConstants DEF HeroInv, PostedOnceAndClaimed, Calls, Remotes, Ended
<1>3. PostedOnceAndClaimed'
  BY DEF CallPCs, DrivePCs, RecoverPCs
<1>4. Unnamed'
  BY FreshFacts DEF Unnamed, CopiesAreEvidenced, Following, DrivePCs, RecoverPCs
<1>5. Posting'
  BY FreshFacts DEF Posting, Unnamed
<1>6. OneDriver'
  BY DEF OneDriver, Unnamed
<1>7. CopiesAreEvidenced'
  BY DEF CopiesAreEvidenced, Unnamed, Posting, Following, DrivePCs, RecoverPCs, Terminal, Ended, Evidenced
<1>8. ClaimsAreKept'
  BY DEF ClaimsAreKept, Unnamed, Following, DrivePCs, RecoverPCs
<1>9. CompletionIsUnclaimed'
  BY DEF CompletionIsUnclaimed, Unnamed, ClaimsAreKept, OneDriver, Terminal
<1>10. DeliveredIsQuiet' /\ (returned => ck # NoFile /\ DeliveredStaysDelivered)'
  BY DEF DeliveredIsQuiet, DeliveredStaysDelivered
<1> QED
  BY <1>3, <1>4, <1>6, <1>7, <1>8, <1>9, <1>10, <1>5

-----------------------------------------------------------------------------
(* The inductive invariant *)

\* A driver at work is the only one, its job is named, and nothing was returned.
LEMMA DriverAtWork ==
    ASSUME HeroInv, NEW d \in Drivers, pc[d] \in Following
    PROVE  /\ ck # NoFile /\ ck \in Checkpoint /\ ck.id /\ ~returned
           /\ \A e \in Drivers \ {d} : pc[e] = "idle"
           /\ d \notin Cancellers /\ d \in Calls /\ bound \in BOOLEAN
BY HeroConstants DEF HeroInv, PostedOnceAndClaimed, CopiesAreEvidenced, OneDriver, DeliveredIsQuiet,
                     Following, DrivePCs,
    RecoverPCs, Calls

\* A driver that stops to cancel keeps the invariant.
LEMMA DriverCancelKeeps ==
    ASSUME HeroInv, NEW d \in Drivers, pc[d] \in Following, CancelOnce(d),
           UNCHANGED <<file, bound, remote, posts, due, returned>>
    PROVE  HeroInv'
BY DriverAtWork, CancelOnceKeeps

\* Every step of _drive() and _complete() keeps the invariant.
LEMMA DriveKeeps ==
    ASSUME HeroInv, NEW d \in Drivers,
           \/ LoopCompleted(d) \/ LoopUnfinished(d) \/ Wake(d) \/ StatusTimeout(d) \/ TransportRaises(d)
           \/ StatusChecked(d) \/ Downloaded(d) \/ CallerCancels(d)
    PROVE  HeroInv'
<1>0. d \in Calls /\ bound \in BOOLEAN
  BY DEF Calls, HeroInv, PostedOnceAndClaimed
<1>1. CASE LoopCompleted(d)
  <2>1. pc[d] \in Following /\ pc[d] \in {"loop", "download"} /\ ck.status = "COMPLETED"
    BY <1>1 DEF LoopCompleted, Following
  <2>2. ~ck.claimed
    BY <2>1, DriverAtWork, <1>1 DEF LoopCompleted, HeroInv, CompletionIsUnclaimed
  <2>3. CASE RejectResult(d, ck) \/ DeliverHero(d, ck)
    BY <1>1, <2>1, <2>3, DriverAtWork, ResultKeeps DEF LoopCompleted
  <2>4. CASE Keep(d, ck) /\ Reach(d, "download") /\ UNCHANGED <<ck, file, answer, returned>>
    BY <1>0, <1>1, <2>1, <2>2, <2>4, DriverAtWork, WaitKeeps DEF LoopCompleted
  <2> QED
    BY <1>1, <2>3, <2>4 DEF LoopCompleted
<1>2. CASE LoopUnfinished(d)
  <2>1. pc[d] \in Following /\ ck.status # "COMPLETED"
    BY <1>2 DEF LoopUnfinished, Following
  <2>2. CASE Failed(d)
    BY <1>0, <1>2, <2>2, LeaveKeeps DEF LoopUnfinished, Failed
  <2>3. CASE CancelOnce(d)
    BY <1>2, <2>1, <2>3, DriverCancelKeeps DEF LoopUnfinished
  <2>4. CASE Keep(d, ck) /\ Reach(d, "sleep") /\ UNCHANGED <<ck, answer>>
    BY <1>0, <1>2, <2>1, <2>4, DriverAtWork, WaitKeeps DEF LoopUnfinished
  <2> QED
    BY <1>2, <2>2, <2>3, <2>4 DEF LoopUnfinished
<1>3. CASE Wake(d)
  <2>1. CASE CancelOnce(d)
    BY <1>3, <2>1, DriverCancelKeeps DEF Wake, Following, DrivePCs
  <2>2. ASSUME NEW l \in {"loop", "status"}, Reach(d, l), UNCHANGED <<ck, local, answer>>
        PROVE  HeroInv'
    BY <1>3, <2>2, MoveKeeps DEF Wake
  <2> QED
    BY <1>3, <2>1, <2>2 DEF Wake
<1>4. CASE StatusTimeout(d)
  BY <1>4, DriverCancelKeeps DEF StatusTimeout, Following, DrivePCs
<1>5. CASE TransportRaises(d)
  BY <1>0, <1>5, LeaveKeeps DEF TransportRaises
<1>6. CASE StatusChecked(d)
  <2>1. CASE CancelOnce(d)
    BY <1>6, <2>1, DriverCancelKeeps DEF StatusChecked, Following, DrivePCs
  <2>2. CASE Reach(d, "loop") /\ UNCHANGED <<ck, local, answer>>
    BY <1>6, <2>2, MoveKeeps DEF StatusChecked
  <2>3. CASE /\ ~ClaimSeen(ck) /\ ck' = [local[d] EXCEPT !.status = Parsed(answer[d])]
             /\ Reach(d, "loop") /\ UNCHANGED <<local, answer>>
    BY <1>6, <2>3, SaveKeeps DEF StatusChecked, ClaimSeen
  <2> QED
    BY <1>6, <2>1, <2>2, <2>3 DEF StatusChecked
<1>7. CASE Downloaded(d)
  <2>1. pc[d] \in Following /\ local[d] = ck /\ ck.status = "COMPLETED"
    BY <1>7 DEF Downloaded, HeroInv, CompletionIsUnclaimed, Following, DrivePCs
  <2> QED
    BY <1>7, <2>1, DriverAtWork, ResultKeeps DEF Downloaded
<1>8. CASE CallerCancels(d)
  BY <1>8, DriverCancelKeeps DEF CallerCancels, Following
<1> QED
  BY <1>1, <1>2, <1>3, <1>4, <1>5, <1>6, <1>7, <1>8

\* A recovery starts where no driver is, from what the checkpoint says.
LEMMA RecoverKeeps ==
    ASSUME HeroInv, NEW d \in Drivers, Recover(d)
    PROVE  HeroInv'
<1>0. /\ d \in Calls /\ d \notin Cancellers /\ ck # NoFile /\ ck \in Checkpoint /\ ck.id /\ bound' \in BOOLEAN
      /\ \A e \in Drivers : pc[e] = "idle"
      /\ UNCHANGED <<file, remote, posts, due>>
  BY HeroConstants DEF Recover, DriverActive, HeroInv, PostedOnceAndClaimed, Calls
<1>1. CASE CancelOnce(d) /\ UNCHANGED returned /\ (ck.claimed \/ ck.status \notin Terminal)
  <2>1. ~returned
    BY <1>1 DEF HeroInv, DeliveredStaysDelivered, Terminal
  <2> QED
    BY <1>0, <1>1, <2>1, CancelOnceKeeps
<1>2. CASE /\ ~ck.claimed /\ ck.status = "COMPLETED" /\ ck.result /\ file /\ returned' = TRUE
           /\ UNCHANGED <<ck, callVars>>
  <2>1. \A p \in Calls : pc[p] = "idle"
    BY <1>0, <1>2 DEF HeroInv, OneDriver, ClaimsAreKept, Calls
  <2>2. UNCHANGED <<ck, file, pc, local, answer, remote, posts, due>>
    BY <1>0, <1>2 DEF callVars
  <2> USE <1>0, <1>2, <2>1, <2>2 DEF HeroInv
  <2>3. PostedOnceAndClaimed'
    BY DEF PostedOnceAndClaimed
  <2>4. Unnamed' /\ Posting' /\ OneDriver'
    BY DEF Unnamed, Posting, OneDriver
  <2>5. CopiesAreEvidenced' /\ ClaimsAreKept' /\ CompletionIsUnclaimed'
    BY DEF CopiesAreEvidenced, ClaimsAreKept, CompletionIsUnclaimed, Evidenced
  <2>6. DeliveredIsQuiet' /\ (returned => ck # NoFile /\ DeliveredStaysDelivered)'
    BY DEF DeliveredIsQuiet, DeliveredStaysDelivered
  <2> QED
    BY <2>3, <2>4, <2>5, <2>6
<1>3. CASE Failed(d) /\ UNCHANGED returned
  BY <1>0, <1>3, LeaveKeeps DEF Failed
<1>4. CASE /\ ~ck.claimed /\ ~ck.result /\ Keep(d, ck) /\ Reach(d, "rstatus")
           /\ UNCHANGED <<ck, answer, returned>>
  <2>1. ~returned
    BY <1>4 DEF HeroInv, DeliveredStaysDelivered
  <2> QED
    BY <1>0, <1>4, <2>1, WaitKeeps
<1> QED
  BY <1>1, <1>2, <1>3, <1>4 DEF Recover

\* The poll of a recovery ends.
LEMMA RecoverPollKeeps ==
    ASSUME HeroInv, NEW d \in Drivers, RecoverTimeout(d) \/ RecoverRaises(d) \/ RecoverChecked(d)
    PROVE  HeroInv'
<1>0. d \in Calls /\ bound \in BOOLEAN /\ pc[d] \in Following /\ UNCHANGED <<file, bound, remote, posts,
                                                                             due, returned>>
  BY DEF Calls, HeroInv, PostedOnceAndClaimed, RecoverTimeout, RecoverRaises, RecoverChecked, Following,
         RecoverPCs
<1>1. CASE Leave(d) /\ UNCHANGED ck
  BY <1>0, <1>1, LeaveKeeps
<1>2. CASE CancelOnce(d)
  BY <1>0, <1>2, DriverCancelKeeps
<1>3. CASE /\ pc[d] = "rcheck" /\ ~ClaimSeen(ck) /\ ck' = [local[d] EXCEPT !.status = Parsed(answer[d])]
           /\ Reach(d, "loop") /\ UNCHANGED <<local, answer>>
  BY <1>0, <1>3, SaveKeeps DEF ClaimSeen
<1> QED
  BY <1>1, <1>2, <1>3 DEF RecoverTimeout, RecoverRaises, RecoverChecked

\* The inductive step: every handler, the service, the clock and a crash.
LEMMA HeroInvStep ==
    ASSUME HeroInv, [HeroNext]_heroVars
    PROVE  HeroInv'
<1>1. ASSUME NEW d \in Drivers, Submit(d) \/ Recover(d) \/ DriverStep(d) \/ CallerCancels(d)
      PROVE  HeroInv'
  BY <1>1, SubmitKeeps, RecoverKeeps, PostArrivesKeeps, PostFailsKeeps, PostAnsweredKeeps, DriveKeeps,
     StatusAnsweredKeeps, RecoverPollKeeps, CancelStepKeeps, Zenon DEF DriverStep, Calls
<1>2. ASSUME NEW c \in Cancellers, Cancel(c)
      PROVE  HeroInv'
  <2>1. /\ c \in Calls /\ c \notin Drivers /\ bound \in BOOLEAN /\ ck # NoFile /\ ck.id
           /\ ck.status \notin Terminal
        /\ CancelOnce(c) /\ UNCHANGED <<file, bound, remote, posts, due, returned>>
    BY <1>2, HeroConstants DEF Cancel, Calls, HeroInv, PostedOnceAndClaimed
  <2>2. ~returned
    BY <2>1 DEF HeroInv, DeliveredStaysDelivered, Terminal
  <2> QED
    BY <2>1, <2>2, CancelOnceKeeps
<1>3. ASSUME NEW c \in Cancellers, CancelStep(c)
      PROVE  HeroInv'
  BY <1>3, CancelStepKeeps DEF Calls
<1>4. CASE RemoteEnds \/ Deadline \/ Crash \/ UNCHANGED heroVars
  BY <1>4, EnvironmentKeeps
<1> QED
  BY <1>1, <1>2, <1>3, <1>4, Zenon DEF HeroNext

\* Nothing is claimed before the first call.
LEMMA HeroInvInit == HeroInit => HeroInv
<1> SUFFICES ASSUME HeroInit PROVE HeroInv
  OBVIOUS
<1>1. PostedOnceAndClaimed
  <2>1. pc \in [Calls -> CallPCs] /\ local \in [Calls -> Checkpoint] /\ answer \in [Calls -> Remotes]
    BY FreshFacts DEF HeroInit, CallPCs, Remotes
  <2>2. remote \in Remotes /\ {file, bound, due, returned} \subseteq BOOLEAN
    BY DEF HeroInit, Remotes
  <2> QED
    BY <2>1, <2>2 DEF HeroInit, PostedOnceAndClaimed
<1>2. Unnamed /\ Posting /\ OneDriver
  BY DEF HeroInit, Unnamed, Posting, OneDriver, Calls
<1>3. CopiesAreEvidenced /\ ClaimsAreKept /\ CompletionIsUnclaimed /\ DeliveredIsQuiet
  BY DEF HeroInit, CopiesAreEvidenced, ClaimsAreKept, CompletionIsUnclaimed, DeliveredIsQuiet, Following,
         DrivePCs,
         RecoverPCs, Calls
<1> QED
  BY <1>1, <1>2, <1>3 DEF HeroInit, HeroInv

\* HeroInv holds of every reachable state; fairness is not needed for it.
LEMMA HeroInvariance == HeroSpec => []HeroInv
<1>1. HeroInv /\ [HeroNext]_heroVars => HeroInv'
  BY HeroInvStep
<1> QED
  BY HeroInvInit, <1>1, PTL DEF HeroSpec

-----------------------------------------------------------------------------
(* Theorems *)

\* The paid POST is made at most once and never without its durable claim, for any
\* number of calls, cancellations, crashes and lost answers (submit).
THEOREM PostsOnce == HeroSpec => []PostedOnceAndClaimed
<1>1. HeroInv => PostedOnceAndClaimed
  BY DEF HeroInv
<1> QED
  BY <1>1, HeroInvariance, PTL

\* No copy that is saved late makes a running job look finished (_cancel_once, _drive).
THEOREM TerminalHasEvidence == HeroSpec => []TerminalIsEvidenced
<1>1. HeroInv => TerminalIsEvidenced
  BY DEF HeroInv, CopiesAreEvidenced, TerminalIsEvidenced, Evidenced, Ended
<1> QED
  BY <1>1, HeroInvariance, PTL

\* A delivered clip is never taken back: not by a cancellation that raced it, not by
\* a later recovery (_complete, cancel).
THEOREM DeliveriesStay == HeroSpec => []DeliveredStaysDelivered
<1>1. HeroInv => DeliveredStaysDelivered
  BY DEF HeroInv, DeliveredStaysDelivered
<1> QED
  BY <1>1, HeroInvariance, PTL
=============================================================================
