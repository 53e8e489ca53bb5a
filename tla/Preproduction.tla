----------------------------- MODULE Preproduction -----------------------------
(***************************************************************************)
(* Offline pre-production (src/hybrid/preproduction.py,                    *)
(* audio_preproduction.py, audio_qualification_evidence.py) and the TEST   *)
(* handoff to the compiled runner (src/hybrid/autonomous_cli.py).          *)
(*                                                                         *)
(* One request holds a revision per source.  Its commands are processes    *)
(* that share nothing but files: advance and the qualification import run  *)
(* behind .advance.lock, the other importers each behind a lock of their   *)
(* own, so they read a revision while advance rewrites it.  A storyboard   *)
(* is known by the timeline evidence it was made from, and so are the four *)
(* files advance derives from it.  A command that raises or dies stops     *)
(* where it is; what it wrote stays.                                       *)
(***************************************************************************)
EXTENDS Integers, FiniteSets, Functions

CONSTANTS
    Procs,         \* commands under way at one time
    Sources,       \* local source evidence
    Timelines,     \* local timeline evidence, each with its recording
    Candidates,    \* audio candidates with their timing, license and alignment
    Declarations,  \* the qualification declarations
    SourceMode,    \* the mode a source's provenance allows
    NeedsReview,   \* sources with narrative segments: QA stays pending
    SourceOf,      \* the source and script a timeline binds
    SuffixOf,      \* the file suffix of a timeline's recording
    Nothing,       \* no such file or value
    Torn,          \* a file whose writer died while writing
    MaxAdvances,   \* bound: advance commands
    MaxFaults      \* bound: commands interrupted while they write

ASSUME EvidenceAssumption ==
    /\ SourceMode \in [Sources -> {"TEST", "PREPRODUCTION"}]
    /\ NeedsReview \subseteq Sources
    /\ SourceOf \in [Timelines -> Sources]
    /\ DOMAIN SuffixOf = Timelines
    /\ Nothing \notin Timelines \cup Sources \cup Candidates /\ Torn \notin Timelines
    /\ MaxAdvances \in Nat /\ MaxFaults \in Nat

VARIABLES
    request,   \* request.json and its namespace
    rev,       \* the files of each revision
    stages,    \* stages.json of each revision
    cinput,    \* compilation-input.json of each revision
    review,    \* revisions with an independent review file
    packet,    \* the published packets of each revision
    staging,   \* staging directories an importer left behind
    runner,    \* the compiled TEST runner of each revision's packet
    worker,    \* the request's row in the worker's queue, the runners its handler found and resumed
    proc,      \* the commands under way
    left       \* what is left of the bounds

files == <<rev, stages, cinput>>
handoff == <<runner, worker>>
vars == <<request, files, review, packet, staging, handoff, proc, left>>

Suffixes == Range(SuffixOf)
Content == Timelines \cup {Nothing, Torn}
Derived == {"scenes", "qa", "timeline", "audio"}
Blank == [f \in Derived |-> Nothing]
Packets == {"director", "compiled", "audio", "qualification"}

Idle == [pc |-> "idle", s |-> Nothing, t |-> Nothing, board |-> Nothing, suffix |-> Nothing,
         raw |-> Blank, again |-> Blank, pass |-> 1, run |-> FALSE, at |-> Nothing]

AdvanceSteps == {"source", "script", "scenes", "qa", "timeline", "audio", "stages", "cinput", "request"}
ReadSteps == {"reread", "read_timeline", "read_scenes", "read_qa", "read_audio"}
CompileSteps == {"compile", "copy_audio", "copy_scenes", "publish_compiled"}
RunSteps == {"run", "mkdir", "snapshot", "harness", "start", "enqueue"}
AudioSteps == {"audio_lock", "audio_stage", "audio_publish"}
QualificationSteps == {"qualify_stage", "qualify_publish"}
Steps == {"idle", "opening", "import_lock", "import_publish"} \cup AdvanceSteps \cup ReadSteps
         \cup CompileSteps \cup RunSteps \cup AudioSteps \cup QualificationSteps

Command == [pc : Steps, s : Sources \cup {Nothing}, t : Timelines \cup Candidates \cup Declarations \cup {Nothing},
            board : Timelines \cup {Nothing}, suffix : Suffixes \cup {Nothing},
            raw : [Derived -> Content], again : [Derived -> Content], pass : {1, 2}, run : BOOLEAN,
            at : Sources \cup {Nothing}]
Revision == [source : {"none", "ok", "torn"}, script : BOOLEAN, scenes : Content, qa : Content,
             timeline : Content, audio : [Suffixes -> Content]]
MediaPacket == [receipt : Timelines, bytes : [Derived -> Content]]
QualificationBundle == [declares : Declarations, candidate : Candidates]

ASSUME NothingIsNoPacket == Nothing \notin MediaPacket

PreproductionTypeOK ==
    /\ request \in [kind : {"none", "opened", "ready"}, src : Sources \cup {Nothing},
                    status : {"BLOCKED", "TTS_REQUIRED", "PREPRODUCTION_VALIDATED"}]
    /\ rev \in [Sources -> Revision]
    /\ stages \in [Sources -> [script : BOOLEAN, board : Timelines \cup {Nothing}]]
    /\ cinput \in [Sources -> Timelines \cup {Nothing}]
    /\ review \subseteq Sources
    /\ worker \in [row : BOOLEAN, found : SUBSET Sources, resumed : SUBSET Sources]
    /\ packet \in [Packets -> [Sources -> MediaPacket \cup Candidates \cup QualificationBundle \cup {Nothing}]]
    /\ staging \subseteq {"audio", "qualification"} \X Sources
    /\ runner \in [Sources -> [stage : {"none", "made", "copied", "harness", "started"}, inputs : [Derived -> Content]]]
    /\ proc \in [Procs -> Command]
    /\ left \in [{"advances", "faults"} -> Nat]

PreproductionInit ==
    /\ request = [kind |-> "none", src |-> Nothing, status |-> "BLOCKED"]
    /\ rev = [s \in Sources |-> [source |-> "none", script |-> FALSE, scenes |-> Nothing, qa |-> Nothing,
                                 timeline |-> Nothing, audio |-> [x \in Suffixes |-> Nothing]]]
    /\ stages = [s \in Sources |-> [script |-> FALSE, board |-> Nothing]]
    /\ cinput = [s \in Sources |-> Nothing]
    /\ review = {} /\ staging = {}
    /\ worker = [row |-> FALSE, found |-> {}, resumed |-> {}]
    /\ packet = [k \in Packets |-> [s \in Sources |-> Nothing]]
    /\ runner = [s \in Sources |-> [stage |-> "none", inputs |-> Blank]]
    /\ proc = [p \in Procs |-> Idle]
    /\ left = [advances |-> MaxAdvances, faults |-> MaxFaults]

Spend(what) == left[what] > 0 /\ left' = [left EXCEPT ![what] = @ - 1]
At(p, pc) == proc[p].pc = pc
Goto(p, pc) == proc' = [proc EXCEPT ![p].pc = pc]
Return(p) == proc' = [proc EXCEPT ![p] = Idle]

\* A lock is held by the command whose step lies inside it.
Held(S) == \E q \in Procs : proc[q].pc \in S
HeldFor(S, s) == \E q \in Procs : proc[q].pc \in S /\ proc[q].s = s
AdvanceLock == Held(AdvanceSteps \cup QualificationSteps)

-----------------------------------------------------------------------------
(* start_preproduction(): mkdir claims the namespace, request.json opens it. *)

StartPreproduction(p) ==
    /\ At(p, "idle") /\ request.kind = "none"
    /\ request' = [request EXCEPT !.kind = "opened"]
    /\ Goto(p, "opening")
    /\ UNCHANGED <<files, review, packet, staging, handoff, left>>

OpenRequest(p) ==
    /\ At(p, "opening")
    /\ request' = [request EXCEPT !.kind = "ready"]
    /\ Return(p)
    /\ UNCHANGED <<files, review, packet, staging, handoff, left>>

-----------------------------------------------------------------------------
(* advance_preproduction(), behind .advance.lock *)

AudioFiles(s) == {x \in Suffixes : rev[s].audio[x] # Nothing}

\* _verify_completed_stages(): the files still are what the stages recorded.
CompletedStagesVerify(s) ==
    /\ rev[s].source # "torn"
    /\ stages[s].script => rev[s].script
    /\ stages[s].board # Nothing => rev[s].scenes = stages[s].board /\ rev[s].qa = stages[s].board

\* _verified_completed_storyboard(): they are, and so are the recorded inputs.
StoryboardVerifies(s) ==
    /\ stages[s].board # Nothing
    /\ \A f \in {"scenes", "qa", "timeline"} : rev[s][f] = stages[s].board
    /\ \E x \in Suffixes : AudioFiles(s) = {x} /\ rev[s].audio[x] = stages[s].board

\* Timeline evidence is consumed once QA passed and only if it binds the source.
Consumable(s, t) == s \notin NeedsReview /\ SourceOf[t] = s

\* Where advance goes once the script is there: a recorded storyboard is reused.
AfterScript(s, t) == IF t \in {Nothing, stages[s].board} THEN "stages" ELSE "scenes"

AdvanceBegin(p, s, t) ==
    /\ At(p, "idle") /\ ~AdvanceLock
    /\ request.kind = "ready" /\ Spend("advances")
    /\ CompletedStagesVerify(s)
    /\ t # Nothing => Consumable(s, t)
    /\ proc' = [proc EXCEPT ![p] = [Idle EXCEPT !.s = s, !.t = t, !.pc =
                  IF rev[s].source = "none" THEN "source"
                  ELSE IF stages[s].script THEN AfterScript(s, t) ELSE "script"]]
    /\ UNCHANGED <<request, files, review, packet, staging, handoff>>

\* The copy of the source is written in place.
WriteSource(p) ==
    /\ At(p, "source")
    /\ rev' = [rev EXCEPT ![proc[p].s].source = "ok"]
    /\ Goto(p, IF stages[proc[p].s].script THEN AfterScript(proc[p].s, proc[p].t) ELSE "script")
    /\ UNCHANGED <<request, stages, cinput, review, packet, staging, handoff, left>>

\* ScriptAgent and ScriptQAAgent: research, script, plan and QA depend on the source alone.
WriteScript(p) ==
    /\ At(p, "script")
    /\ rev' = [rev EXCEPT ![proc[p].s].script = TRUE]
    /\ Goto(p, AfterScript(proc[p].s, proc[p].t))
    /\ UNCHANGED <<request, stages, cinput, review, packet, staging, handoff, left>>

NextWrite == [scenes |-> "qa", qa |-> "timeline", timeline |-> "audio", audio |-> "stages"]

\* The content of one derived file of revision s is replaced.
WithFile(s, f, t, c) == IF f = "audio" THEN [rev EXCEPT ![s].audio[SuffixOf[t]] = c] ELSE [rev EXCEPT ![s][f] = c]

\* StoryboardAgent, its report, then the imported timeline and recording
WriteDerived(p) ==
    /\ proc[p].pc \in Derived
    /\ rev' = WithFile(proc[p].s, proc[p].pc, proc[p].t, proc[p].t)
    /\ Goto(p, NextWrite[proc[p].pc])
    /\ UNCHANGED <<request, stages, cinput, review, packet, staging, handoff, left>>

\* The files that are not replaced atomically can be torn by a crash.
TornBy(p) ==
    CASE At(p, "source") -> [rev EXCEPT ![proc[p].s].source = "torn"]
      [] proc[p].pc \in {"scenes", "timeline", "audio"} -> WithFile(proc[p].s, proc[p].pc, proc[p].t, Torn)
      [] OTHER -> rev

\* VALIDATED with fresh or recorded evidence, or when the stored one verifies
Status(p) == IF proc[p].t # Nothing \/ StoryboardVerifies(proc[p].s)
             THEN "PREPRODUCTION_VALIDATED" ELSE "TTS_REQUIRED"

SaveStages(p) ==
    /\ At(p, "stages")
    /\ stages' = [stages EXCEPT ![proc[p].s] =
                    [script |-> TRUE, board |-> IF proc[p].t = Nothing THEN @.board ELSE proc[p].t]]
    /\ Goto(p, IF Status(p) = "PREPRODUCTION_VALIDATED" THEN "cinput" ELSE "request")
    /\ UNCHANGED <<request, rev, cinput, review, packet, staging, handoff, left>>

SaveCompilationInput(p) ==
    /\ At(p, "cinput")
    /\ cinput' = [cinput EXCEPT ![proc[p].s] = stages[proc[p].s].board]
    /\ Goto(p, "request")
    /\ UNCHANGED <<request, rev, stages, review, packet, staging, handoff, left>>

SaveRequest(p) ==
    /\ At(p, "request")
    /\ request' = [kind |-> "ready", src |-> proc[p].s, status |-> Status(p)]
    /\ Return(p)
    /\ UNCHANGED <<files, review, packet, staging, handoff, left>>

-----------------------------------------------------------------------------
(* compile_preproduction() and run_preproduction_test(): the TEST handoff *)

Executes(mode) == request.kind = "ready" /\ request.src # Nothing /\ SourceMode[request.src] = mode

\* What compile verifies before it takes its lock.
Compilable(s) ==
    /\ request.status = "PREPRODUCTION_VALIDATED"
    /\ CompletedStagesVerify(s) /\ StoryboardVerifies(s)
    /\ cinput[s] = stages[s].board

CompileBegin(p, run) ==
    /\ At(p, "idle") /\ Executes("TEST") /\ Compilable(request.src)
    /\ proc' = [proc EXCEPT ![p] = [Idle EXCEPT !.pc = "compile", !.s = request.src, !.run = run,
                  !.board = stages[request.src].board, !.suffix = CHOOSE x \in AudioFiles(request.src) : TRUE]]
    /\ UNCHANGED <<request, files, review, packet, staging, handoff, left>>

Compiled(p) == IF proc[p].run THEN Goto(p, "run") ELSE Return(p)

\* existing_packet(): an earlier packet is returned when it binds the same input.
CompileLock(p) ==
    /\ At(p, "compile") /\ ~HeldFor(CompileSteps \ {"compile"}, proc[p].s)
    /\ LET old == packet.compiled[proc[p].s]
       IN  \/ old = Nothing /\ Goto(p, "copy_audio")
           \/ old # Nothing /\ old.receipt = proc[p].board /\ Compiled(p)
    /\ UNCHANGED <<request, files, review, packet, staging, handoff, left>>

CopyAudio(p) ==
    /\ At(p, "copy_audio") /\ rev[proc[p].s].audio[proc[p].suffix] # Nothing
    /\ proc' = [proc EXCEPT ![p].pc = "copy_scenes", ![p].raw.audio = rev[proc[p].s].audio[proc[p].suffix]]
    /\ UNCHANGED <<request, files, review, packet, staging, handoff, left>>

CopyScenes(p) ==
    /\ At(p, "copy_scenes") /\ rev[proc[p].s].scenes \in Timelines
    /\ proc' = [proc EXCEPT ![p].pc = "publish_compiled", ![p].raw.scenes = rev[proc[p].s].scenes]
    /\ UNCHANGED <<request, files, review, packet, staging, handoff, left>>

\* The receipt names what was verified, the packet holds what was copied.
PublishCompiled(p) ==
    /\ At(p, "publish_compiled")
    /\ packet' = [packet EXCEPT !.compiled[proc[p].s] = [receipt |-> proc[p].board, bytes |-> proc[p].raw]]
    /\ Compiled(p)
    /\ UNCHANGED <<request, files, review, staging, handoff, left>>

\* _load_compiled() finds the harness and the inputs it hashed; runner.json may be missing.
Loadable(s) == runner[s].stage \in {"harness", "started"}

\* adapter.start() saved runner.json.
Persisted(s) == runner[s].stage = "started"

\* The lock is the active revision's; a second handoff of the packet resumes its runner.
RunLock(p) ==
    /\ At(p, "run") /\ Executes("TEST") /\ request.status = "PREPRODUCTION_VALIDATED"
    /\ ~\E q \in Procs : proc[q].run /\ proc[q].at = request.src
    /\ runner[proc[p].s].stage # "none" => Loadable(proc[p].s) /\ Persisted(proc[p].s)
    /\ proc' = [proc EXCEPT ![p].at = request.src, ![p].pc =
                  IF runner[proc[p].s].stage = "none" THEN "mkdir" ELSE "enqueue"]
    /\ UNCHANGED <<request, files, review, packet, staging, handoff, left>>

\* start --compiled-input: the same start, without the run's lock
StartCompiled(p, s) ==
    /\ At(p, "idle") /\ packet.compiled[s] # Nothing /\ runner[s].stage = "none"
    /\ proc' = [proc EXCEPT ![p] = [Idle EXCEPT !.pc = "mkdir", !.s = s]]
    /\ UNCHANGED <<request, files, review, packet, staging, handoff, left>>

NextStart == [mkdir |-> "snapshot", snapshot |-> "harness", harness |-> "start", start |-> "enqueue"]
StageAfter == [mkdir |-> "made", snapshot |-> "copied", harness |-> "harness", start |-> "started"]

\* Mutant: mkdir(exist_ok=True).
NamespaceShared(s) == TRUE

\* mkdir() fails for all but one of the starts that found no namespace.
NamespaceFree(s) == runner[s].stage = "none"

\* The namespace is claimed, then inputs, harness and runner.json
BuildRunner(p) ==
    /\ proc[p].pc \in DOMAIN NextStart
    /\ At(p, "mkdir") => NamespaceFree(proc[p].s)
    /\ runner' = [runner EXCEPT ![proc[p].s] =
                    [stage |-> StageAfter[proc[p].pc],
                     inputs |-> IF At(p, "snapshot") THEN packet.compiled[proc[p].s].bytes ELSE @.inputs]]
    /\ IF At(p, "start") /\ ~proc[p].run THEN Return(p) ELSE Goto(p, NextStart[proc[p].pc])
    /\ UNCHANGED <<request, files, review, packet, staging, worker, left>>

\* Only the fenced worker advances a runner: the handoff enqueues the episode, whose name all
\* revisions of the request share.
Enqueue(p) ==
    /\ At(p, "enqueue")
    /\ worker' = [worker EXCEPT !.row = TRUE]
    /\ Return(p)
    /\ UNCHANGED <<request, files, review, packet, staging, runner, left>>

\* enqueue --request-id: the runner is loaded, whether its document is there is not asked.
EnqueueCompiled(s) ==
    /\ Loadable(s)
    /\ worker' = [worker EXCEPT !.row = TRUE]
    /\ UNCHANGED <<request, files, review, packet, staging, runner, proc, left>>

\* Mutant: the first harness that names the episode is taken.
FirstMatch(s) == Loadable(s)

\* The handler's lookup: s has the only harness that names the queued episode.
OnlyMatch(s) == {u \in Sources : Loadable(u)} = {s}

\* _fixture_worker_handler() looks up the runner of the claimed episode ...
WorkerFinds(s) ==
    /\ worker.row /\ OnlyMatch(s)
    /\ worker' = [worker EXCEPT !.found = @ \cup {s}]
    /\ UNCHANGED <<request, files, review, packet, staging, runner, proc, left>>

\* ... loads it, and raises on a document that is not there before resume_owned() is called.
WorkerResumes(s) ==
    /\ s \in worker.found /\ Loadable(s) /\ Persisted(s)
    /\ worker' = [worker EXCEPT !.resumed = @ \cup {s}]
    /\ UNCHANGED <<request, files, review, packet, staging, runner, proc, left>>

-----------------------------------------------------------------------------
(* import_real_preproduction_handoff(): the evidence is read twice, once     *)
(* before and once behind .director-import.lock.                             *)

\* An operator puts the independent review beside the script.
PlaceReview(s) ==
    /\ s \notin review /\ stages[s].script
    /\ review' = review \cup {s}
    /\ UNCHANGED <<request, files, packet, staging, handoff, proc, left>>

\* verify_real_preproduction_import(): receipt, index and bytes of a packet agree.
DirectorPacketVerifies(s) ==
    packet.director[s].receipt \in Timelines /\ \A f \in Derived : packet.director[s].bytes[f] # Nothing

\* _read_real_review_candidate(): the review is there and names source and script.
ReviewBinds(s) == s \in review

\* build_real_handoff_preflight() of the active revision
Preflight(s) ==
    /\ Executes("PREPRODUCTION") /\ request.src = s
    /\ stages[s].script /\ CompletedStagesVerify(s)
    /\ packet.director[s] # Nothing => DirectorPacketVerifies(s)

ImportBegin(p) ==
    /\ At(p, "idle") /\ Preflight(request.src)
    /\ proc' = [proc EXCEPT ![p] = [Idle EXCEPT !.pc = "reread", !.s = request.src]]
    /\ UNCHANGED <<request, files, review, packet, staging, handoff, left>>

\* The request and the stages are read again; the revision may have changed.
Reread(p) ==
    /\ At(p, "reread") /\ request.src = proc[p].s
    /\ ReviewBinds(proc[p].s)
    /\ \E x \in Suffixes : /\ AudioFiles(proc[p].s) = {x}
                           /\ proc' = [proc EXCEPT ![p].pc = "read_timeline", ![p].suffix = x,
                                                   ![p].board = stages[proc[p].s].board]
    /\ UNCHANGED <<request, files, review, packet, staging, handoff, left>>

NextRead == [read_timeline |-> "read_scenes", read_scenes |-> "read_qa", read_qa |-> "read_audio"]
FileRead == [read_timeline |-> "timeline", read_scenes |-> "scenes", read_qa |-> "qa", read_audio |-> "audio"]
FileNow(s, f, x) == IF f = "audio" THEN rev[s].audio[x] ELSE rev[s][f]
Gathered(p) == IF proc[p].pass = 1 THEN proc[p].raw ELSE proc[p].again

\* Each file is read on its own while advance may be writing.
ReadEvidence(p) ==
    /\ proc[p].pc \in DOMAIN NextRead
    /\ LET f == FileRead[proc[p].pc]
           now == [Gathered(p) EXCEPT ![f] = FileNow(proc[p].s, f, proc[p].suffix)]
       IN  proc' = [proc EXCEPT ![p].pc = NextRead[@],
                                ![p].raw = IF proc[p].pass = 1 THEN now ELSE @,
                                ![p].again = IF proc[p].pass = 2 THEN now ELSE @]
    /\ UNCHANGED <<request, files, review, packet, staging, handoff, left>>

\* Every file must be the one the storyboard stage recorded.
BindsStage(board, raw) == board # Nothing /\ \A f \in Derived : raw[f] = board

\* The last read; the second time the evidence must not have changed.
CheckEvidence(p) ==
    /\ At(p, "read_audio")
    /\ LET now == [Gathered(p) EXCEPT !.audio = FileNow(proc[p].s, "audio", proc[p].suffix)]
       IN  /\ BindsStage(proc[p].board, now)
           /\ \/ /\ proc[p].pass = 1
                 /\ proc' = [proc EXCEPT ![p].pc = "import_lock", ![p].raw = now]
              \/ /\ proc[p].pass = 2 /\ now = proc[p].raw
                 /\ proc' = [proc EXCEPT ![p].pc = "import_publish", ![p].again = Blank]
    /\ UNCHANGED <<request, files, review, packet, staging, handoff, left>>

ImportLock(p) ==
    /\ At(p, "import_lock") /\ Preflight(proc[p].s)
    /\ ~\E q \in Procs : proc[q].pass = 2 /\ proc[q].s = proc[p].s
    /\ proc' = [proc EXCEPT ![p].pc = "reread", ![p].pass = 2]
    /\ UNCHANGED <<request, files, review, packet, staging, handoff, left>>

\* Mutant: the files are read once more, the way compile_preproduction() copies them.
BytesNow(p) == [f \in Derived |-> FileNow(proc[p].s, f, proc[p].suffix)]

\* The packet is written from the bytes of the first reading.
PacketBytes(p) == proc[p].raw

\* existing(), or a staged packet that os.replace() publishes
ImportPublish(p) ==
    /\ At(p, "import_publish")
    /\ LET old == packet.director[proc[p].s]
           new == [receipt |-> proc[p].board, bytes |-> PacketBytes(p)]
       IN  /\ old # Nothing => old = new
           /\ packet' = [packet EXCEPT !.director[proc[p].s] = new]
    /\ Return(p)
    /\ UNCHANGED <<request, files, review, staging, handoff, left>>

-----------------------------------------------------------------------------
(* import_real_audio_candidate() and import_audio_qualification_evidence(): *)
(* an interrupted staging directory blocks the importer until an audit.     *)

\* _active_audio_import_snapshot()
AudioSnapshot(s) == Executes("PREPRODUCTION") /\ request.src = s /\ rev[s].source = "ok" /\ rev[s].script

\* verify_real_audio_candidate_import(): a replay of the packet's own bytes
AudioPacketVerifies(s) == packet.audio[s] \in Candidates

AudioImport(p, c) ==
    /\ At(p, "idle") /\ AudioSnapshot(request.src)
    /\ proc' = [proc EXCEPT ![p] = [Idle EXCEPT !.pc = "audio_lock", !.s = request.src, !.t = c]]
    /\ UNCHANGED <<request, files, review, packet, staging, handoff, left>>

AudioLock(p) ==
    /\ At(p, "audio_lock") /\ AudioSnapshot(proc[p].s)
    /\ ~HeldFor({"audio_stage", "audio_publish"}, proc[p].s)
    /\ <<"audio", proc[p].s>> \notin staging
    /\ LET old == packet.audio[proc[p].s]
       IN  IF old = Nothing THEN Goto(p, "audio_stage")
           ELSE AudioPacketVerifies(proc[p].s) /\ old = proc[p].t /\ Return(p)
    /\ UNCHANGED <<request, files, review, packet, staging, handoff, left>>

\* The exclusive writes into a staging directory
Stage(p, kind, next) ==
    /\ staging' = staging \cup {<<kind, proc[p].s>>}
    /\ Goto(p, next)
    /\ UNCHANGED <<request, files, review, packet, handoff, left>>

\* The snapshot holds still, and os.replace() publishes the directory.
Publish(p, kind, value) ==
    /\ AudioSnapshot(proc[p].s)
    /\ staging' = staging \ {<<kind, proc[p].s>>}
    /\ packet' = [packet EXCEPT ![kind][proc[p].s] = value]
    /\ Return(p)
    /\ UNCHANGED <<request, files, review, handoff, left>>

AudioStage(p) == At(p, "audio_stage") /\ Stage(p, "audio", "audio_publish")
AudioPublish(p) == At(p, "audio_publish") /\ Publish(p, "audio", proc[p].t)

\* The bundle binds the audio packet it was made beside.
Bundle(p) == [declares |-> proc[p].t, candidate |-> packet.audio[proc[p].s]]

\* verify_audio_qualification_evidence_import(): the bundle and the packet beside it
BundleVerifies(s) == AudioPacketVerifies(s) /\ packet.qualification[s].candidate = packet.audio[s]

\* Behind .advance.lock: the declarations of an imported candidate
Qualify(p, d) ==
    /\ At(p, "idle") /\ ~AdvanceLock /\ AudioSnapshot(request.src)
    /\ LET s == request.src
           old == packet.qualification[s]
       IN  /\ AudioPacketVerifies(s) /\ <<"qualification", s>> \notin staging
           /\ IF old = Nothing
              THEN proc' = [proc EXCEPT ![p] = [Idle EXCEPT !.pc = "qualify_stage", !.s = s, !.t = d]]
              ELSE BundleVerifies(s) /\ old.declares = d /\ UNCHANGED proc
    /\ UNCHANGED <<request, files, review, packet, staging, handoff, left>>

QualifyStage(p) == At(p, "qualify_stage") /\ Stage(p, "qualification", "qualify_publish")
QualifyPublish(p) == At(p, "qualify_publish") /\ Publish(p, "qualification", Bundle(p))

-----------------------------------------------------------------------------
\* The steps between two writes of one command
WritingSteps == {"opening", "snapshot", "harness", "start", "enqueue", "audio_publish", "qualify_publish"} \cup AdvanceSteps

\* A command raises or dies; its locks are released, a file it was writing is torn.
Stop(p) ==
    /\ ~At(p, "idle")
    /\ IF proc[p].pc \in WritingSteps THEN Spend("faults") ELSE UNCHANGED left
    /\ rev' \in {rev, TornBy(p)}
    /\ Return(p)
    /\ UNCHANGED <<request, stages, cinput, review, packet, staging, handoff>>

Advance(p) ==
    \/ \E s \in Sources, t \in Timelines \cup {Nothing} : AdvanceBegin(p, s, t)
    \/ WriteSource(p) \/ WriteScript(p) \/ WriteDerived(p)
    \/ SaveStages(p) \/ SaveCompilationInput(p) \/ SaveRequest(p)

TestHandoff(p) ==
    \/ \E run \in BOOLEAN : CompileBegin(p, run)
    \/ CompileLock(p) \/ CopyAudio(p) \/ CopyScenes(p) \/ PublishCompiled(p)
    \/ \E s \in Sources : StartCompiled(p, s)
    \/ RunLock(p) \/ BuildRunner(p) \/ Enqueue(p)

RealImports(p) ==
    \/ ImportBegin(p) \/ Reread(p) \/ ReadEvidence(p) \/ CheckEvidence(p) \/ ImportLock(p) \/ ImportPublish(p)
    \/ \E c \in Candidates : AudioImport(p, c)
    \/ AudioLock(p) \/ AudioStage(p) \/ AudioPublish(p)
    \/ \E d \in Declarations : Qualify(p, d)
    \/ QualifyStage(p) \/ QualifyPublish(p)

PreproductionNext ==
    \/ \E p \in Procs : StartPreproduction(p) \/ OpenRequest(p) \/ Advance(p) \/ TestHandoff(p) \/ RealImports(p) \/ Stop(p)
    \/ \E s \in Sources : PlaceReview(s) \/ EnqueueCompiled(s) \/ WorkerFinds(s) \/ WorkerResumes(s)

PreproductionSpec == PreproductionInit /\ [][PreproductionNext]_vars

-----------------------------------------------------------------------------
(* Properties *)

\* A published Director packet holds the storyboard, report, timeline and recording of
\* one advance, the one its receipt names, although advance may rewrite them while they are
\* read; a qualification bundle names the audio candidate that stands beside it.
PacketsBindOneAdvance ==
    \A s \in Sources :
       /\ packet.director[s] # Nothing =>
             \A f \in Derived : packet.director[s].bytes[f] = packet.director[s].receipt
       /\ packet.qualification[s] # Nothing => packet.qualification[s].candidate = packet.audio[s]

\* The worker resumes at most one runner for a request, although every revision's runner goes
\* by the same episode, and that runner's document was persisted over a snapshot of the
\* published compiled packet of a TEST revision, whoever raced to start or enqueue it and
\* wherever an earlier start died.
WorkerRunsOnePacket ==
    \A s \in worker.resumed :
       /\ SourceMode[s] = "TEST"
       /\ runner[s].stage = "started"
       /\ packet.compiled[s] # Nothing /\ runner[s].inputs = packet.compiled[s].bytes
       /\ \A u \in worker.resumed : u = s

\* What a packet handed over is never changed: no importer or compiler replaces a published
\* packet, and no start replaces the inputs of a persisted runner.
PublishedIsFinal ==
    [][/\ \A k \in Packets, s \in Sources : packet[k][s] # Nothing => packet'[k][s] = packet[k][s]
       /\ \A s \in Sources : runner[s].stage = "started" => runner'[s] = runner[s]]_vars

=============================================================================
