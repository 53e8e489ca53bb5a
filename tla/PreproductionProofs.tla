-------------------------- MODULE PreproductionProofs --------------------------
(***************************************************************************)
(* Offline pre-production, for any number of commands, sources, timelines, *)
(* advances and faults.                                                    *)
(*                                                                         *)
(* The commands share files and hold different locks.  The proof says what *)
(* each command knows of the files at each of its places (Knows) and which *)
(* two commands cannot be at their places together (Clash); what a command *)
(* knows is never disturbed because packets and inputs are final.          *)
(***************************************************************************)
EXTENDS Preproduction, TLAPS

AdvanceLocked == AdvanceSteps \cup QualificationSteps
Copying == {"copy_audio", "copy_scenes", "publish_compiled"}
Building == {"snapshot", "harness", "start"}
AudioLocked == {"audio_stage", "audio_publish"}

\* Two places behind the same lock, or in the same runner namespace
Clash(c, d) ==
    \/ c.pc \in AdvanceLocked /\ d.pc \in AdvanceLocked
    \/ c.s = d.s /\ \E L \in {Copying, Building, AudioLocked} : c.pc \in L /\ d.pc \in L

Exclusive == \A p, q \in Procs : p # q => ~Clash(proc[p], proc[q])

\* advance: the evidence it was given binds its source, and the script is staged before the request.
AdvanceKnows(c) ==
    /\ c.pc \in AdvanceSteps => c.t \in Timelines \cup {Nothing} /\ (c.t # Nothing => SourceOf[c.t] = c.s)
    /\ c.pc \in Derived => c.t # Nothing
    /\ c.pc \in {"cinput", "request"} => stages[c.s].script

\* compile and run: a TEST revision, whose packet is not there while it is copied and stays
\* there afterwards; the runner is as far as the builder brought it.
HandoffKnows(c) ==
    /\ c.pc \in CompileSteps \cup {"run"} => SourceMode[c.s] = "TEST"
    /\ c.pc \in CompileSteps => c.board # Nothing
    /\ c.pc \in CompileSteps => c.suffix \in Suffixes
    /\ c.pc \in Copying => packet.compiled[c.s] = Nothing
    /\ c.pc \in RunSteps => packet.compiled[c.s] # Nothing
    /\ c.pc = "snapshot" => runner[c.s].stage = "made"
    /\ c.pc = "harness" => runner[c.s].stage = "copied"
    /\ c.pc = "start" => runner[c.s].stage = "harness"
    /\ c.pc = "enqueue" => runner[c.s].stage = "started"

\* the importers: what was read twice binds the recorded storyboard, an audio packet is not
\* there while it is staged, and is there while it is qualified.
ImportKnows(c) ==
    /\ c.pc \in ReadSteps \ {"reread"} => c.suffix \in Suffixes
    /\ c.pc = "import_publish" => BindsStage(c.board, c.raw)
    /\ c.pc \in AudioSteps => c.t \in Candidates
    /\ c.pc \in AudioLocked => packet.audio[c.s] = Nothing
    /\ c.pc \in QualificationSteps => /\ packet.qualification[c.s] = Nothing
                                      /\ packet.audio[c.s] \in Candidates /\ c.t \in Declarations

Knows(c) ==
    /\ c.pc \notin {"idle", "opening"} => c.s \in Sources
    /\ AdvanceKnows(c) /\ HandoffKnows(c) /\ ImportKnows(c)

\* The recorded stages bind their source, and an executed request names a staged script.
StagesBind ==
    /\ \A s \in Sources : /\ stages[s].board # Nothing => stages[s].script /\ SourceOf[stages[s].board] = s
                          /\ cinput[s] # Nothing => SourceOf[cinput[s]] = s
    /\ request.src # Nothing => stages[request.src].script

\* A compiled packet is a TEST revision's, a runner runs what it copied from it, and the worker
\* found one runner, which has its harness, and resumed it once its document was there.
RunnersBind ==
    \A s \in Sources :
        /\ packet.compiled[s] # Nothing => packet.compiled[s] \in MediaPacket /\ SourceMode[s] = "TEST"
        /\ runner[s].stage \in {"copied", "harness", "started"} =>
              packet.compiled[s] # Nothing /\ runner[s].inputs = packet.compiled[s].bytes
        /\ s \in worker.found => runner[s].stage \in {"harness", "started"} /\ \A u \in worker.found : u = s
        /\ s \in worker.resumed => s \in worker.found /\ runner[s].stage = "started"

\* A qualification stands beside an audio packet.
BundlesBind == \A s \in Sources : packet.qualification[s] # Nothing => packet.audio[s] # Nothing

PreproductionInv ==
    /\ PreproductionTypeOK
    /\ \A p \in Procs : Knows(proc[p])
    /\ Exclusive
    /\ StagesBind /\ RunnersBind /\ BundlesBind /\ PacketsBindOneAdvance

-----------------------------------------------------------------------------
(* Lemmas about steps *)

\* A step of one command keeps the invariant if the others still know what they knew, and the
\* command knows its new place and clashes with nobody there.
LEMMA StepKeeps ==
    ASSUME PreproductionInv, PreproductionTypeOK', NEW p \in Procs,
           \A q \in Procs \ {p} : proc'[q] = proc[q] /\ ~Clash(proc'[p], proc[q]),
           \A q \in Procs : Knows(proc[q])',
           StagesBind', RunnersBind', BundlesBind', PacketsBindOneAdvance'
    PROVE  PreproductionInv'
<1>1. Exclusive'
  <2> SUFFICES ASSUME NEW q \in Procs, NEW r \in Procs, q # r
               PROVE  ~Clash(proc'[q], proc'[r])
    BY DEF Exclusive, Clash
  <2>1. CASE q = p
    BY <2>1
  <2>2. CASE r = p
    <3>1. ~Clash(proc'[p], proc[q]) /\ proc'[q] = proc[q]
      BY <2>2
    <3> QED
      BY <2>2, <3>1 DEF Clash
  <2>3. CASE q # p /\ r # p
    BY <2>3 DEF PreproductionInv, Exclusive
  <2> QED
    BY <2>1, <2>2, <2>3
<1> QED
  BY <1>1 DEF PreproductionInv

\* What a command knows depends on the stages, the packets and the runners alone.
LEMMA KnowsFrame ==
    ASSUME NEW p \in Procs, Knows(proc'[p]), UNCHANGED <<stages, packet, runner>>
    PROVE  Knows(proc[p])'
BY DEF Knows, AdvanceKnows, HandoffKnows, ImportKnows, BindsStage

\* A step that changes no more than its command, the evidence files, reviews or staging.
LEMMA CommandKeeps ==
    ASSUME PreproductionInv, PreproductionTypeOK', NEW p \in Procs,
           UNCHANGED <<request, stages, cinput, packet, runner, worker>>,
           \A q \in Procs \ {p} : proc'[q] = proc[q],
           Knows(proc'[p]), \A q \in Procs \ {p} : ~Clash(proc'[p], proc[q])
    PROVE  PreproductionInv'
<1>1. \A q \in Procs : Knows(proc'[q])
  BY DEF PreproductionInv
<1>2. \A q \in Procs : Knows(proc[q])'
  BY <1>1, KnowsFrame
<1>3. StagesBind' /\ RunnersBind' /\ BundlesBind' /\ PacketsBindOneAdvance'
  BY DEF PreproductionInv, StagesBind, RunnersBind, BundlesBind, PacketsBindOneAdvance
<1> QED
  BY <1>2, <1>3, StepKeeps

\* An idle command knows nothing and clashes with nobody.
LEMMA IdleFacts ==
    /\ Idle \in Command /\ Idle.pc = "idle" /\ Knows(Idle)
    /\ \A d : ~Clash(Idle, d)
<1>1. Idle.pc = "idle"
  BY DEF Idle
<1>2. Idle \in Command
  BY DEF Idle, Command, Steps, Blank, Content
<1>3. Knows(Idle)
  BY <1>1 DEF Knows, AdvanceKnows, HandoffKnows, ImportKnows, AdvanceSteps, Derived, CompileSteps, RunSteps, Copying,
     ReadSteps, AudioSteps, AudioLocked, QualificationSteps
<1>4. \A d : ~Clash(Idle, d)
  BY <1>1 DEF Clash, AdvanceLocked, AdvanceSteps, QualificationSteps, Copying, Building, AudioLocked
<1> QED
  BY <1>1, <1>2, <1>3, <1>4

\* A command that moves on behind the same lock, on the same revision, clashes with nobody new.
LEMMA SameLock ==
    ASSUME PreproductionInv, NEW p \in Procs, NEW c, c.s = proc[p].s,
           \A L \in {AdvanceLocked, Copying, Building, AudioLocked} : c.pc \in L => proc[p].pc \in L
    PROVE  \A q \in Procs \ {p} : ~Clash(c, proc[q])
BY DEF PreproductionInv, Exclusive, Clash

\* The fields of a command that goes to another step.
LEMMA GotoIs ==
    ASSUME proc \in [Procs -> Command], NEW p \in Procs, NEW l \in Steps, Goto(p, l)
    PROVE  /\ proc' \in [Procs -> Command]
           /\ \A q \in Procs \ {p} : proc'[q] = proc[q]
           /\ proc'[p] = [proc[p] EXCEPT !.pc = l]
           /\ proc'[p].pc = l /\ proc'[p].s = proc[p].s /\ proc'[p].t = proc[p].t
           /\ proc'[p].board = proc[p].board /\ proc'[p].suffix = proc[p].suffix
           /\ proc'[p].raw = proc[p].raw /\ proc'[p].run = proc[p].run
BY DEF Goto, Command

\* A command that returns is idle.
LEMMA ReturnIs ==
    ASSUME proc \in [Procs -> Command], NEW p \in Procs, Return(p)
    PROVE  /\ proc' \in [Procs -> Command] /\ proc'[p] = Idle
           /\ \A q \in Procs \ {p} : proc'[q] = proc[q]
BY IdleFacts DEF Return

\* A command begins.
LEMMA BeginIs ==
    ASSUME proc \in [Procs -> Command], NEW p \in Procs, NEW c \in Command, proc' = [proc EXCEPT ![p] = c]
    PROVE  /\ proc' \in [Procs -> Command] /\ proc'[p] = c
           /\ \A q \in Procs \ {p} : proc'[q] = proc[q]
OBVIOUS

\* The command of an action, and what it knows.
LEMMA CommandIs ==
    ASSUME PreproductionInv, NEW p \in Procs
    PROVE  /\ proc \in [Procs -> Command] /\ proc[p] \in Command /\ Knows(proc[p])
           /\ ~At(p, "idle") /\ ~At(p, "opening") => proc[p].s \in Sources
BY DEF PreproductionInv, PreproductionTypeOK, Knows, At

\* A command that returns, with nothing but evidence files changed.
LEMMA ReturnKeeps ==
    ASSUME PreproductionInv, PreproductionTypeOK', NEW p \in Procs, Return(p),
           UNCHANGED <<request, stages, cinput, packet, runner, worker>>
    PROVE  PreproductionInv'
BY CommandIs, ReturnIs, IdleFacts, CommandKeeps

\* The places of advance.
LEMMA AdvancePlaces ==
    ASSUME NEW c, c.pc \in AdvanceSteps
    PROVE  /\ HandoffKnows(c) /\ ImportKnows(c)
           /\ c.pc \notin Copying \cup Building \cup AudioLocked
           /\ c.pc \notin {"idle", "opening"} /\ c.pc \in AdvanceLocked
BY DEF AdvanceSteps, HandoffKnows, ImportKnows, CompileSteps, RunSteps, Copying, Building, ReadSteps,
   AudioSteps, AudioLocked, QualificationSteps, AdvanceLocked

\* The places of compile and run.
LEMMA HandoffPlaces ==
    ASSUME NEW c, c.pc \in CompileSteps \cup RunSteps
    PROVE  /\ AdvanceKnows(c) /\ ImportKnows(c)
           /\ c.pc \notin AdvanceLocked \cup AudioLocked
           /\ c.pc \notin {"idle", "opening"}
BY DEF AdvanceSteps, AdvanceKnows, ImportKnows, CompileSteps, RunSteps, Derived, ReadSteps,
   AudioSteps, AudioLocked, QualificationSteps, AdvanceLocked

\* The places of the importers.
LEMMA ImportPlaces ==
    ASSUME NEW c, c.pc \in ReadSteps \cup AudioSteps \cup QualificationSteps \cup {"import_lock", "import_publish"}
    PROVE  /\ AdvanceKnows(c) /\ HandoffKnows(c)
           /\ c.pc \notin Copying \cup Building
           /\ c.pc \notin {"idle", "opening"}
BY DEF AdvanceSteps, AdvanceKnows, HandoffKnows, CompileSteps, RunSteps, Derived, ReadSteps, Copying, Building,
   AudioSteps, QualificationSteps

\* The steps are those of the commands.
LEMMA StepsAre ==
    /\ {"idle", "opening", "import_lock", "import_publish"} \subseteq Steps /\ AdvanceSteps \subseteq Steps
    /\ ReadSteps \subseteq Steps /\ CompileSteps \subseteq Steps /\ RunSteps \subseteq Steps
    /\ AudioSteps \subseteq Steps /\ QualificationSteps \subseteq Steps
BY DEF Steps

-----------------------------------------------------------------------------
(* start_preproduction() and advance_preproduction() *)

\* The namespace is claimed.
LEMMA StartPreproductionKeeps ==
    ASSUME PreproductionInv, NEW p \in Procs, StartPreproduction(p)
    PROVE  PreproductionInv'
<1>1. /\ UNCHANGED <<rev, stages, cinput, review, packet, staging, runner, worker, left>>
      /\ Goto(p, "opening") /\ request' = [request EXCEPT !.kind = "opened"]
  BY DEF StartPreproduction, files, handoff
<1>2. /\ proc' \in [Procs -> Command] /\ proc'[p].pc = "opening"
      /\ \A q \in Procs \ {p} : proc'[q] = proc[q]
  BY <1>1, CommandIs, GotoIs, StepsAre
<1>3. PreproductionTypeOK'
  BY <1>1, <1>2 DEF PreproductionInv, PreproductionTypeOK
<1>4. Knows(proc'[p])
  BY <1>2 DEF Knows, AdvanceKnows, HandoffKnows, ImportKnows, AdvanceSteps, Derived, CompileSteps, RunSteps, Copying,
     ReadSteps, AudioSteps, AudioLocked, QualificationSteps
<1>5. \A q \in Procs : Knows(proc[q])'
  BY <1>1, <1>2, <1>4, KnowsFrame DEF PreproductionInv
<1>6. \A q \in Procs \ {p} : ~Clash(proc'[p], proc[q])
  BY <1>2 DEF Clash, AdvanceLocked, AdvanceSteps, QualificationSteps, Copying, Building, AudioLocked
<1>7. StagesBind' /\ RunnersBind' /\ BundlesBind' /\ PacketsBindOneAdvance'
  BY <1>1 DEF PreproductionInv, PreproductionTypeOK, StagesBind, RunnersBind, BundlesBind, PacketsBindOneAdvance
<1> QED
  BY <1>2, <1>3, <1>5, <1>6, <1>7, StepKeeps

\* The request is opened.
LEMMA OpenRequestKeeps ==
    ASSUME PreproductionInv, NEW p \in Procs, OpenRequest(p)
    PROVE  PreproductionInv'
<1>1. /\ UNCHANGED <<rev, stages, cinput, review, packet, staging, runner, worker, left>>
      /\ Return(p) /\ request' = [request EXCEPT !.kind = "ready"]
  BY DEF OpenRequest, files, handoff
<1>2. /\ proc' \in [Procs -> Command] /\ proc'[p] = Idle
      /\ \A q \in Procs \ {p} : proc'[q] = proc[q]
  BY <1>1, CommandIs, ReturnIs
<1>3. PreproductionTypeOK'
  BY <1>1, <1>2 DEF PreproductionInv, PreproductionTypeOK
<1>4. \A q \in Procs : Knows(proc[q])'
  BY <1>1, <1>2, IdleFacts, KnowsFrame DEF PreproductionInv
<1>5. StagesBind' /\ RunnersBind' /\ BundlesBind' /\ PacketsBindOneAdvance'
  BY <1>1 DEF PreproductionInv, PreproductionTypeOK, StagesBind, RunnersBind, BundlesBind, PacketsBindOneAdvance
<1> QED
  BY <1>2, <1>3, <1>4, <1>5, IdleFacts, StepKeeps

\* Where an advance goes once the script is there, it has what it needs.
LEMMA AfterScriptFacts ==
    ASSUME NEW s, NEW t
    PROVE  /\ AfterScript(s, t) \in {"stages", "scenes"}
           /\ AfterScript(s, t) = "scenes" => t # Nothing
BY DEF AfterScript

\* advance_preproduction() begins behind its lock.
LEMMA AdvanceBeginKeeps ==
    ASSUME PreproductionInv, NEW p \in Procs, NEW s \in Sources, NEW t \in Timelines \cup {Nothing},
           AdvanceBegin(p, s, t)
    PROVE  PreproductionInv'
<1>1. UNCHANGED <<request, rev, stages, cinput, review, packet, staging, runner, worker>>
  BY DEF AdvanceBegin, files, handoff
<1>2. PICK l \in {"source", "script", "stages", "scenes"} :
         /\ l = "scenes" => t # Nothing
         /\ proc' = [proc EXCEPT ![p] = [Idle EXCEPT !.s = s, !.t = t, !.pc = l]]
  BY AfterScriptFacts DEF AdvanceBegin
<1> DEFINE c == [Idle EXCEPT !.s = s, !.t = t, !.pc = l]
<1>3. c.pc = l /\ c.s = s /\ c.t = t /\ c \in Command
  BY IdleFacts, StepsAre DEF Command, AdvanceSteps, Idle
<1> HIDE DEF c
<1>4. /\ proc' \in [Procs -> Command] /\ proc'[p] = c
      /\ \A q \in Procs \ {p} : proc'[q] = proc[q]
  BY <1>2, <1>3, CommandIs, BeginIs DEF c
<1>5. left' \in [{"advances", "faults"} -> Nat]
  BY DEF PreproductionInv, PreproductionTypeOK, AdvanceBegin, Spend
<1>6. PreproductionTypeOK'
  BY <1>1, <1>4, <1>5 DEF PreproductionInv, PreproductionTypeOK
<1>7. l \in AdvanceSteps
  BY DEF AdvanceSteps
<1>8. Knows(c)
  <2>1. t # Nothing => SourceOf[t] = s
    BY DEF AdvanceBegin, Consumable
  <2>2. AdvanceKnows(c)
    BY <1>2, <1>3, <2>1 DEF AdvanceKnows, Derived
  <2> QED
    BY <1>3, <1>7, <2>2, AdvancePlaces DEF Knows
<1>9. \A q \in Procs \ {p} : ~Clash(c, proc[q])
  <2>1. \A q \in Procs : proc[q].pc \notin AdvanceLocked
    BY DEF AdvanceBegin, AdvanceLock, Held, AdvanceLocked
  <2> QED
    BY <1>3, <1>7, <2>1, AdvancePlaces DEF Clash
<1> QED
  BY <1>1, <1>4, <1>6, <1>8, <1>9, CommandKeeps

\* A writer of advance moves on behind its lock.
LEMMA AdvanceMoves ==
    ASSUME PreproductionInv, NEW p \in Procs, proc[p].pc \in AdvanceSteps,
           rev' \in [Sources -> Revision],
           UNCHANGED <<request, stages, cinput, review, packet, staging, runner, worker, left>>,
           NEW l \in AdvanceSteps \ {"cinput", "request"}, l \in Derived => proc[p].t # Nothing, Goto(p, l)
    PROVE  PreproductionInv'
<1>1. /\ proc' \in [Procs -> Command] /\ proc'[p].pc = l
      /\ \A q \in Procs \ {p} : proc'[q] = proc[q]
      /\ proc'[p].s = proc[p].s /\ proc'[p].t = proc[p].t
  BY CommandIs, GotoIs, StepsAre
<1>2. PreproductionTypeOK'
  BY <1>1 DEF PreproductionInv, PreproductionTypeOK
<1>3. Knows(proc'[p])
  <2>1. Knows(proc[p]) /\ proc[p].s \in Sources
    BY CommandIs, AdvancePlaces DEF At
  <2>2. AdvanceKnows(proc'[p])
    BY <1>1, <2>1 DEF Knows, AdvanceKnows
  <2> QED
    BY <1>1, <2>1, <2>2, AdvancePlaces DEF Knows
<1>4. \A q \in Procs \ {p} : ~Clash(proc'[p], proc[q])
  BY <1>1, AdvancePlaces, SameLock
<1> QED
  BY <1>1, <1>2, <1>3, <1>4, CommandKeeps

\* A written file leaves a revision.
LEMMA WithFileIs ==
    ASSUME rev \in [Sources -> Revision], NEW s \in Sources, NEW f \in Derived, NEW t \in Timelines,
           NEW c \in Content
    PROVE  WithFile(s, f, t, c) \in [Sources -> Revision]
<1>1. rev[s] \in Revision
  OBVIOUS
<1>2. CASE f = "audio"
  <2>1. SuffixOf[t] \in Suffixes
    BY EvidenceAssumption DEF Suffixes, Range
  <2>2. [rev[s] EXCEPT !.audio = [rev[s].audio EXCEPT ![SuffixOf[t]] = c]] \in Revision
    BY <1>1, <2>1 DEF Revision
  <2>3. WithFile(s, f, t, c) = [rev EXCEPT ![s] = [rev[s] EXCEPT !.audio = [rev[s].audio EXCEPT ![SuffixOf[t]] = c]]]
    BY <1>2 DEF WithFile
  <2> QED
    BY <2>2, <2>3
<1>3. CASE f # "audio"
  <2>1. WithFile(s, f, t, c) = [rev EXCEPT ![s] = [rev[s] EXCEPT ![f] = c]]
    BY <1>3 DEF WithFile
  <2>2. [rev[s] EXCEPT ![f] = c] \in Revision
    <3>1. CASE f = "scenes"
      BY <1>1, <3>1 DEF Revision
    <3>2. CASE f = "qa"
      BY <1>1, <3>2 DEF Revision
    <3>3. CASE f = "timeline"
      BY <1>1, <3>3 DEF Revision
    <3> QED
      BY <1>3, <3>1, <3>2, <3>3 DEF Derived
  <2> QED
    BY <2>1, <2>2
<1> QED
  BY <1>2, <1>3

\* The copy of the source.
LEMMA WriteSourceKeeps ==
    ASSUME PreproductionInv, NEW p \in Procs, WriteSource(p)
    PROVE  PreproductionInv'
<1>1. /\ UNCHANGED <<request, stages, cinput, review, packet, staging, runner, worker, left>>
      /\ proc[p].pc = "source" /\ rev' = [rev EXCEPT ![proc[p].s].source = "ok"]
  BY DEF WriteSource, handoff, At
<1>2. PICK l \in {"script", "stages", "scenes"} : (l = "scenes" => proc[p].t # Nothing) /\ Goto(p, l)
  BY AfterScriptFacts DEF WriteSource
<1>3. proc[p].s \in Sources
  BY <1>1, CommandIs DEF At
<1>4. rev' \in [Sources -> Revision]
  <2>1. rev \in [Sources -> Revision] /\ rev[proc[p].s] \in Revision
    BY <1>3 DEF PreproductionInv, PreproductionTypeOK
  <2>2. [rev[proc[p].s] EXCEPT !.source = "ok"] \in Revision
    BY <2>1 DEF Revision
  <2>3. rev' = [rev EXCEPT ![proc[p].s] = [rev[proc[p].s] EXCEPT !.source = "ok"]]
    BY <1>1
  <2> QED
    BY <2>1, <2>2, <2>3
<1> QED
  BY <1>1, <1>2, <1>4, AdvanceMoves DEF AdvanceSteps, Derived

\* Research, script, plan and QA.
LEMMA WriteScriptKeeps ==
    ASSUME PreproductionInv, NEW p \in Procs, WriteScript(p)
    PROVE  PreproductionInv'
<1>1. /\ UNCHANGED <<request, stages, cinput, review, packet, staging, runner, worker, left>>
      /\ proc[p].pc = "script" /\ rev' = [rev EXCEPT ![proc[p].s].script = TRUE]
  BY DEF WriteScript, handoff, At
<1>2. PICK l \in {"stages", "scenes"} : (l = "scenes" => proc[p].t # Nothing) /\ Goto(p, l)
  BY AfterScriptFacts DEF WriteScript
<1>3. proc[p].s \in Sources
  BY <1>1, CommandIs DEF At
<1>4. rev' \in [Sources -> Revision]
  <2>1. rev \in [Sources -> Revision] /\ rev[proc[p].s] \in Revision
    BY <1>3 DEF PreproductionInv, PreproductionTypeOK
  <2>2. [rev[proc[p].s] EXCEPT !.script = TRUE] \in Revision
    BY <2>1 DEF Revision
  <2>3. rev' = [rev EXCEPT ![proc[p].s] = [rev[proc[p].s] EXCEPT !.script = TRUE]]
    BY <1>1
  <2> QED
    BY <2>1, <2>2, <2>3
<1> QED
  BY <1>1, <1>2, <1>4, AdvanceMoves DEF AdvanceSteps, Derived

\* Storyboard, report, timeline and recording.
LEMMA WriteDerivedKeeps ==
    ASSUME PreproductionInv, NEW p \in Procs, WriteDerived(p)
    PROVE  PreproductionInv'
<1>1. /\ UNCHANGED <<request, stages, cinput, review, packet, staging, runner, worker, left>>
      /\ proc[p].pc \in Derived /\ rev' = WithFile(proc[p].s, proc[p].pc, proc[p].t, proc[p].t)
      /\ Goto(p, NextWrite[proc[p].pc])
  BY DEF WriteDerived, handoff
<1>2. proc[p].pc \in AdvanceSteps
  BY <1>1 DEF Derived, AdvanceSteps
<1>3. proc[p].s \in Sources /\ proc[p].t \in Timelines
  BY <1>1, <1>2, CommandIs, AdvancePlaces DEF At, Knows, AdvanceKnows
<1>4. rev' \in [Sources -> Revision]
  BY <1>1, <1>3, WithFileIs DEF PreproductionInv, PreproductionTypeOK, Content
<1>5. NextWrite[proc[p].pc] \in AdvanceSteps \ {"cinput", "request"}
  BY <1>1 DEF Derived, NextWrite, AdvanceSteps
<1>6. proc[p].t # Nothing
  BY <1>3, EvidenceAssumption
<1> QED
  BY <1>1, <1>2, <1>4, <1>5, <1>6, AdvanceMoves

\* A command that enters advance knows nothing of packets and runners.
LEMMA AdvanceEntered ==
    ASSUME NEW p \in Procs, proc'[p].pc \in AdvanceSteps
    PROVE  HandoffKnows(proc[p])' /\ ImportKnows(proc[p])'
BY DEF AdvanceSteps, HandoffKnows, ImportKnows, CompileSteps, RunSteps, Copying, Building, ReadSteps,
   AudioSteps, AudioLocked, QualificationSteps, AdvanceLocked

\* A command that enters compile or run knows nothing of advance and the importers.
LEMMA HandoffEntered ==
    ASSUME NEW p \in Procs, proc'[p].pc \in CompileSteps \cup RunSteps
    PROVE  AdvanceKnows(proc[p])' /\ ImportKnows(proc[p])'
BY DEF AdvanceSteps, AdvanceKnows, ImportKnows, CompileSteps, RunSteps, Derived, ReadSteps,
   AudioSteps, AudioLocked, QualificationSteps

\* A command that has returned knows nothing.
LEMMA IdleKnows ==
    ASSUME NEW p \in Procs, proc'[p].pc = "idle"
    PROVE  Knows(proc[p])'
BY DEF Knows, AdvanceKnows, HandoffKnows, ImportKnows, AdvanceSteps, Derived, CompileSteps, RunSteps, Copying,
   ReadSteps, AudioSteps, AudioLocked, QualificationSteps

\* stages.json records the script, and the storyboard of fresh evidence.
LEMMA SaveStagesKeeps ==
    ASSUME PreproductionInv, NEW p \in Procs, SaveStages(p)
    PROVE  PreproductionInv'
<1> DEFINE s == proc[p].s
           row == [script |-> TRUE, board |-> IF proc[p].t = Nothing THEN stages[s].board ELSE proc[p].t]
<1>1. /\ UNCHANGED <<request, rev, cinput, review, packet, staging, runner, worker, left>>
      /\ proc[p].pc = "stages" /\ stages' = [stages EXCEPT ![s] = row]
  BY DEF SaveStages, handoff, At
<1>2. proc[p].pc \in AdvanceSteps
  BY <1>1 DEF AdvanceSteps
<1>3. /\ s \in Sources /\ Knows(proc[p]) /\ proc[p].t \in Timelines \cup {Nothing}
      /\ proc[p].t # Nothing => SourceOf[proc[p].t] = s
  BY <1>2, CommandIs, AdvancePlaces DEF At, Knows, AdvanceKnows
<1>4. PICK l \in {"cinput", "request"} : Goto(p, l)
  BY DEF SaveStages
<1>5. l \in AdvanceSteps /\ l \notin Derived
  BY DEF AdvanceSteps, Derived
<1>6. /\ proc' \in [Procs -> Command] /\ proc'[p].pc = l
      /\ \A q \in Procs \ {p} : proc'[q] = proc[q]
      /\ proc'[p].s = s /\ proc'[p].t = proc[p].t
  BY <1>4, <1>5, CommandIs, GotoIs, StepsAre
<1>7. row \in [script : BOOLEAN, board : Timelines \cup {Nothing}]
  BY <1>3 DEF PreproductionInv, PreproductionTypeOK
<1>8. stages' \in [Sources -> [script : BOOLEAN, board : Timelines \cup {Nothing}]]
      /\ stages'[s] = row /\ \A r \in Sources \ {s} : stages'[r] = stages[r]
  BY <1>1, <1>3, <1>7 DEF PreproductionInv, PreproductionTypeOK
<1>9. PreproductionTypeOK'
  BY <1>1, <1>6, <1>8 DEF PreproductionInv, PreproductionTypeOK
<1>10. \A r \in Sources : stages[r].script => stages'[r].script
  BY <1>3, <1>8
<1>11. ASSUME NEW q \in Procs \ {p} PROVE Knows(proc[q])'
  <2>1. Knows(proc[q]) /\ proc'[q] = proc[q]
    BY <1>6 DEF PreproductionInv
  <2>2. AdvanceKnows(proc[q])'
    BY <1>10, <2>1 DEF Knows, AdvanceKnows
  <2>3. HandoffKnows(proc[q])' /\ ImportKnows(proc[q])'
    BY <1>1, <2>1 DEF Knows, HandoffKnows, ImportKnows, BindsStage
  <2> QED
    BY <2>1, <2>2, <2>3 DEF Knows
<1>12. Knows(proc[p])'
  <2>1. AdvanceKnows(proc[p])'
    BY <1>3, <1>5, <1>6, <1>8 DEF AdvanceKnows
  <2>2. HandoffKnows(proc[p])' /\ ImportKnows(proc[p])'
    BY <1>5, <1>6, AdvanceEntered
  <2> QED
    BY <1>3, <1>6, <2>1, <2>2 DEF Knows
<1>13. \A q \in Procs \ {p} : ~Clash(proc'[p], proc[q])
  BY <1>2, <1>5, <1>6, AdvancePlaces, SameLock
<1>14. StagesBind'
  BY <1>1, <1>3, <1>8, <1>10 DEF PreproductionInv, PreproductionTypeOK, StagesBind
<1>15. RunnersBind' /\ BundlesBind' /\ PacketsBindOneAdvance'
  BY <1>1 DEF PreproductionInv, RunnersBind, BundlesBind, PacketsBindOneAdvance
<1> QED
  BY <1>6, <1>9, <1>11, <1>12, <1>13, <1>14, <1>15, StepKeeps

\* compilation-input.json follows the recorded storyboard.
LEMMA SaveCompilationInputKeeps ==
    ASSUME PreproductionInv, NEW p \in Procs, SaveCompilationInput(p)
    PROVE  PreproductionInv'
<1>1. /\ UNCHANGED <<request, rev, stages, review, packet, staging, runner, worker, left>>
      /\ proc[p].pc = "cinput" /\ Goto(p, "request")
      /\ cinput' = [cinput EXCEPT ![proc[p].s] = stages[proc[p].s].board]
  BY DEF SaveCompilationInput, handoff, At
<1>2. proc[p].pc \in AdvanceSteps /\ "request" \in AdvanceSteps /\ "request" \notin Derived
  BY <1>1 DEF AdvanceSteps, Derived
<1>3. proc[p].s \in Sources /\ Knows(proc[p])
  BY <1>2, CommandIs, AdvancePlaces DEF At
<1>4. /\ proc' \in [Procs -> Command] /\ proc'[p].pc = "request"
      /\ \A q \in Procs \ {p} : proc'[q] = proc[q]
      /\ proc'[p].s = proc[p].s /\ proc'[p].t = proc[p].t
  BY <1>1, <1>2, CommandIs, GotoIs, StepsAre
<1>5. PreproductionTypeOK'
  BY <1>1, <1>3, <1>4 DEF PreproductionInv, PreproductionTypeOK
<1>6. Knows(proc'[p])
  <2>1. AdvanceKnows(proc'[p])
    BY <1>1, <1>2, <1>3, <1>4 DEF Knows, AdvanceKnows
  <2> QED
    BY <1>2, <1>3, <1>4, <2>1, AdvancePlaces DEF Knows
<1>7. \A q \in Procs : Knows(proc[q])'
  BY <1>1, <1>4, <1>6, KnowsFrame DEF PreproductionInv
<1>8. \A q \in Procs \ {p} : ~Clash(proc'[p], proc[q])
  BY <1>2, <1>4, AdvancePlaces, SameLock
<1>9. StagesBind'
  BY <1>1, <1>3 DEF PreproductionInv, PreproductionTypeOK, StagesBind
<1>10. RunnersBind' /\ BundlesBind' /\ PacketsBindOneAdvance'
  BY <1>1 DEF PreproductionInv, RunnersBind, BundlesBind, PacketsBindOneAdvance
<1> QED
  BY <1>4, <1>5, <1>7, <1>8, <1>9, <1>10, StepKeeps

\* request.json names the revision, whose script is staged.
LEMMA SaveRequestKeeps ==
    ASSUME PreproductionInv, NEW p \in Procs, SaveRequest(p)
    PROVE  PreproductionInv'
<1>1. /\ UNCHANGED <<rev, stages, cinput, review, packet, staging, runner, worker, left>>
      /\ proc[p].pc = "request" /\ Return(p)
      /\ request' = [kind |-> "ready", src |-> proc[p].s, status |-> Status(p)]
  BY DEF SaveRequest, files, handoff, At
<1>2. proc[p].s \in Sources /\ stages[proc[p].s].script
  BY <1>1, CommandIs DEF At, Knows, AdvanceKnows
<1>3. /\ proc' \in [Procs -> Command] /\ proc'[p] = Idle
      /\ \A q \in Procs \ {p} : proc'[q] = proc[q]
  BY <1>1, CommandIs, ReturnIs
<1>4. PreproductionTypeOK'
  BY <1>1, <1>2, <1>3 DEF PreproductionInv, PreproductionTypeOK, Status
<1>5. \A q \in Procs : Knows(proc[q])'
  BY <1>1, <1>3, IdleFacts, KnowsFrame DEF PreproductionInv
<1>6. StagesBind'
  BY <1>1, <1>2 DEF PreproductionInv, PreproductionTypeOK, StagesBind
<1>7. RunnersBind' /\ BundlesBind' /\ PacketsBindOneAdvance'
  BY <1>1 DEF PreproductionInv, RunnersBind, BundlesBind, PacketsBindOneAdvance
<1> QED
  BY <1>3, <1>4, <1>5, <1>6, <1>7, IdleFacts, StepKeeps

-----------------------------------------------------------------------------
(* compile_preproduction() and run_preproduction_test() *)

\* What compile verified, before its lock.
LEMMA CompileBeginKeeps ==
    ASSUME PreproductionInv, NEW p \in Procs, NEW run \in BOOLEAN, CompileBegin(p, run)
    PROVE  PreproductionInv'
<1> DEFINE s == request.src
           x == CHOOSE y \in AudioFiles(s) : TRUE
           c == [Idle EXCEPT !.pc = "compile", !.s = s, !.run = run, !.board = stages[s].board, !.suffix = x]
<1>1. /\ UNCHANGED <<request, rev, stages, cinput, review, packet, staging, runner, worker, left>>
      /\ proc' = [proc EXCEPT ![p] = c]
  BY DEF CompileBegin, files, handoff
<1>2. s \in Sources /\ SourceMode[s] = "TEST"
  BY DEF CompileBegin, Executes, PreproductionInv, PreproductionTypeOK
<1>3. stages[s].board # Nothing /\ stages[s].board \in Timelines /\ x \in Suffixes
  <2>1. stages[s].board # Nothing /\ \E y \in Suffixes : AudioFiles(s) = {y}
    BY DEF CompileBegin, Compilable, StoryboardVerifies
  <2> QED
    BY <1>2, <2>1 DEF PreproductionInv, PreproductionTypeOK
<1>4. "compile" \in CompileSteps /\ "compile" \notin Copying \cup Building \cup RunSteps /\ "compile" \in Steps
  BY StepsAre DEF CompileSteps, Copying, Building, RunSteps
<1>5. /\ c \in Command /\ c.pc = "compile" /\ c.s = s /\ c.board = stages[s].board /\ c.suffix = x
  BY <1>2, <1>3, <1>4, IdleFacts DEF Command, Idle
<1> HIDE DEF c
<1>6. /\ proc' \in [Procs -> Command] /\ proc'[p] = c
      /\ \A q \in Procs \ {p} : proc'[q] = proc[q]
  BY <1>1, <1>5, CommandIs, BeginIs
<1>7. PreproductionTypeOK'
  BY <1>1, <1>6 DEF PreproductionInv, PreproductionTypeOK
<1>8. Knows(c)
  <2>1. HandoffKnows(c)
    BY <1>2, <1>3, <1>4, <1>5 DEF HandoffKnows
  <2> QED
    BY <1>2, <1>4, <1>5, <2>1, HandoffPlaces DEF Knows
<1>9. \A q \in Procs \ {p} : ~Clash(c, proc[q])
  BY <1>4, <1>5, HandoffPlaces DEF Clash
<1> QED
  BY <1>1, <1>6, <1>7, <1>8, <1>9, CommandKeeps

\* A handoff goes on with its run, or returns.
LEMMA CompiledIs ==
    ASSUME PreproductionInv, NEW p \in Procs, Compiled(p), proc[p].pc \in CompileSteps
    PROVE  /\ proc' \in [Procs -> Command] /\ \A q \in Procs \ {p} : proc'[q] = proc[q]
           /\ proc'[p] = Idle \/ (proc'[p].pc = "run" /\ proc'[p].s = proc[p].s)
           /\ \A q \in Procs \ {p} : ~Clash(proc'[p], proc[q])
<1>1. CASE proc[p].run
  <2>1. /\ proc' \in [Procs -> Command] /\ \A q \in Procs \ {p} : proc'[q] = proc[q]
        /\ proc'[p].pc = "run" /\ proc'[p].s = proc[p].s
    BY <1>1, CommandIs, GotoIs, StepsAre DEF Compiled, RunSteps
  <2>2. "run" \in RunSteps /\ "run" \notin Copying \cup Building
    BY DEF RunSteps, Copying, Building
  <2>3. \A q \in Procs \ {p} : ~Clash(proc'[p], proc[q])
    BY <2>1, <2>2, HandoffPlaces DEF Clash
  <2> QED
    BY <2>1, <2>3
<1>2. CASE ~proc[p].run
  BY <1>2, CommandIs, ReturnIs, IdleFacts DEF Compiled
<1> QED
  BY <1>1, <1>2

\* The lock of the packet; one that is there already is returned.
LEMMA CompileLockKeeps ==
    ASSUME PreproductionInv, NEW p \in Procs, CompileLock(p)
    PROVE  PreproductionInv'
<1>1. /\ UNCHANGED <<request, rev, stages, cinput, review, packet, staging, runner, worker, left>>
      /\ proc[p].pc = "compile" /\ ~HeldFor(CompileSteps \ {"compile"}, proc[p].s)
  BY DEF CompileLock, files, handoff, At
<1>2. proc[p].pc \in CompileSteps /\ proc[p].s \in Sources /\ Knows(proc[p])
  BY <1>1, CommandIs DEF CompileSteps, At
<1>3. CASE packet.compiled[proc[p].s] = Nothing /\ Goto(p, "copy_audio")
  <2>1. "copy_audio" \in CompileSteps /\ "copy_audio" \in Copying /\ "copy_audio" \notin Building \cup RunSteps
    BY DEF CompileSteps, Copying, Building, RunSteps
  <2>2. /\ proc' \in [Procs -> Command] /\ proc'[p].pc = "copy_audio"
        /\ \A q \in Procs \ {p} : proc'[q] = proc[q]
        /\ proc'[p].s = proc[p].s /\ proc'[p].board = proc[p].board /\ proc'[p].suffix = proc[p].suffix
    BY <1>3, <2>1, CommandIs, GotoIs, StepsAre
  <2>3. PreproductionTypeOK'
    BY <1>1, <2>2 DEF PreproductionInv, PreproductionTypeOK
  <2>4. HandoffKnows(proc'[p])
    BY <1>2, <1>3, <2>1, <2>2 DEF Knows, HandoffKnows, Building
  <2>5. Knows(proc'[p])
    BY <1>2, <2>1, <2>2, <2>4, HandoffPlaces DEF Knows
  <2>6. \A q \in Procs \ {p} : ~Clash(proc'[p], proc[q])
    <3>1. \A q \in Procs : proc[q].s = proc[p].s => proc[q].pc \notin Copying
      BY <1>1 DEF HeldFor, CompileSteps, Copying
    <3> QED
      BY <2>1, <2>2, <3>1, HandoffPlaces DEF Clash
  <2> QED
    BY <1>1, <2>2, <2>3, <2>5, <2>6, CommandKeeps
<1>4. CASE packet.compiled[proc[p].s] # Nothing /\ Compiled(p)
  <2>1. PreproductionTypeOK'
    BY <1>1, <1>2, <1>4, CompiledIs DEF PreproductionInv, PreproductionTypeOK
  <2>2. Knows(proc'[p])
    <3>1. CASE proc'[p] = Idle
      BY <3>1, IdleFacts
    <3>2. CASE proc'[p].pc = "run" /\ proc'[p].s = proc[p].s
      <4>1. "run" \in RunSteps /\ "run" \notin CompileSteps \cup Copying
        BY DEF RunSteps, CompileSteps, Copying
      <4>2. HandoffKnows(proc'[p])
        BY <1>2, <1>4, <3>2, <4>1 DEF Knows, HandoffKnows
      <4> QED
        BY <1>2, <3>2, <4>1, <4>2, HandoffPlaces DEF Knows
    <3> QED
      BY <1>2, <1>4, <3>1, <3>2, CompiledIs
  <2> QED
    BY <1>1, <1>2, <1>4, <2>1, <2>2, CompiledIs, CommandKeeps
<1> QED
  BY <1>3, <1>4 DEF CompileLock

\* A command that has read another file.
LEMMA GatheredIs ==
    ASSUME NEW c \in Command, NEW l \in Steps, NEW r \in [Derived -> Content]
    PROVE  [c EXCEPT !.pc = l, !.raw = r] \in Command
BY DEF Command

\* Recording and storyboard are copied, each on its own.
LEMMA CopyKeeps ==
    ASSUME PreproductionInv, NEW p \in Procs, CopyAudio(p) \/ CopyScenes(p)
    PROVE  PreproductionInv'
<1>1. /\ UNCHANGED <<request, rev, stages, cinput, review, packet, staging, runner, worker, left>>
      /\ proc[p].pc \in {"copy_audio", "copy_scenes"}
  BY DEF CopyAudio, CopyScenes, files, handoff, At
<1>2. proc[p].pc \in CompileSteps /\ proc[p].pc \in Copying /\ proc[p].s \in Sources /\ Knows(proc[p])
  BY <1>1, CommandIs DEF CompileSteps, Copying, At
<1>3. rev[proc[p].s] \in Revision /\ proc[p].suffix \in Suffixes
  BY <1>2 DEF PreproductionInv, PreproductionTypeOK, Knows, HandoffKnows
<1>4. PICK l \in {"copy_scenes", "publish_compiled"} :
        /\ proc' \in [Procs -> Command] /\ proc'[p].pc = l
        /\ \A q \in Procs \ {p} : proc'[q] = proc[q]
        /\ proc'[p].s = proc[p].s /\ proc'[p].board = proc[p].board /\ proc'[p].suffix = proc[p].suffix
  <2>0. proc \in [Procs -> Command] /\ {"copy_scenes", "publish_compiled"} \subseteq Steps
    BY CommandIs, StepsAre DEF CompileSteps
  <2>1. CASE CopyAudio(p)
    <3>1. rev[proc[p].s].audio[proc[p].suffix] \in Content
      BY <1>3 DEF Revision
    <3>2. proc' = [proc EXCEPT ![p].pc = "copy_scenes", ![p].raw.audio = rev[proc[p].s].audio[proc[p].suffix]]
      BY <2>1 DEF CopyAudio
    <3>3. [proc[p].raw EXCEPT !["audio"] = rev[proc[p].s].audio[proc[p].suffix]] \in [Derived -> Content]
      BY <2>0, <3>1 DEF Command, Derived
    <3>4. [proc[p] EXCEPT !.pc = "copy_scenes", !.raw = [proc[p].raw EXCEPT !["audio"] = rev[proc[p].s].audio[proc[p].suffix]]] \in Command
      BY <2>0, <3>3, GatheredIs
    <3>5. proc'[p] = [proc[p] EXCEPT !.pc = "copy_scenes", !.raw = [proc[p].raw EXCEPT !["audio"] = rev[proc[p].s].audio[proc[p].suffix]]]
      BY <2>0, <3>2
    <3>6. \A q \in Procs \ {p} : proc'[q] = proc[q]
      BY <2>0, <3>2
    <3>7. proc' \in [Procs -> Command]
      BY <2>0, <3>2, <3>4, <3>5, <3>6
    <3> QED
      BY <2>0, <3>5, <3>6, <3>7 DEF Command
  <2>2. CASE CopyScenes(p)
    <3>1. rev[proc[p].s].scenes \in Content
      BY <1>3 DEF Revision
    <3>2. proc' = [proc EXCEPT ![p].pc = "publish_compiled", ![p].raw.scenes = rev[proc[p].s].scenes]
      BY <2>2 DEF CopyScenes
    <3>3. [proc[p].raw EXCEPT !["scenes"] = rev[proc[p].s].scenes] \in [Derived -> Content]
      BY <2>0, <3>1 DEF Command, Derived
    <3>4. [proc[p] EXCEPT !.pc = "publish_compiled", !.raw = [proc[p].raw EXCEPT !["scenes"] = rev[proc[p].s].scenes]] \in Command
      BY <2>0, <3>3, GatheredIs
    <3>5. proc'[p] = [proc[p] EXCEPT !.pc = "publish_compiled", !.raw = [proc[p].raw EXCEPT !["scenes"] = rev[proc[p].s].scenes]]
      BY <2>0, <3>2
    <3>6. \A q \in Procs \ {p} : proc'[q] = proc[q]
      BY <2>0, <3>2
    <3>7. proc' \in [Procs -> Command]
      BY <2>0, <3>2, <3>4, <3>5, <3>6
    <3> QED
      BY <2>0, <3>5, <3>6, <3>7 DEF Command
  <2> QED
    BY <2>1, <2>2
<1>5. l \in CompileSteps /\ l \in Copying /\ l \notin Building \cup RunSteps
  BY DEF CompileSteps, Copying, Building, RunSteps
<1>6. PreproductionTypeOK'
  BY <1>1, <1>4 DEF PreproductionInv, PreproductionTypeOK
<1>7. Knows(proc'[p])
  <2>1. HandoffKnows(proc'[p])
    BY <1>2, <1>4, <1>5 DEF Knows, HandoffKnows, RunSteps
  <2> QED
    BY <1>2, <1>4, <1>5, <2>1, HandoffPlaces DEF Knows
<1>8. \A q \in Procs \ {p} : ~Clash(proc'[p], proc[q])
  BY <1>2, <1>4, <1>5, HandoffPlaces, SameLock
<1> QED
  BY <1>1, <1>4, <1>6, <1>7, <1>8, CommandKeeps

\* The packet is published: it was not there, and from now on it is final.
LEMMA PublishCompiledKeeps ==
    ASSUME PreproductionInv, NEW p \in Procs, PublishCompiled(p)
    PROVE  PreproductionInv'
<1> DEFINE s == proc[p].s
           new == [receipt |-> proc[p].board, bytes |-> proc[p].raw]
<1>1. /\ UNCHANGED <<request, rev, stages, cinput, review, staging, runner, worker, left>>
      /\ proc[p].pc = "publish_compiled" /\ Compiled(p)
      /\ packet' = [packet EXCEPT !["compiled"][s] = new]
  BY DEF PublishCompiled, files, handoff, At
<1>2. proc[p].pc \in CompileSteps /\ proc[p].pc \in Copying /\ s \in Sources /\ Knows(proc[p]) /\ proc[p] \in Command
  BY <1>1, CommandIs DEF CompileSteps, Copying, At
<1>3. SourceMode[s] = "TEST" /\ packet.compiled[s] = Nothing /\ new \in MediaPacket /\ new # Nothing
  BY <1>2, NothingIsNoPacket DEF Knows, HandoffKnows, Command, MediaPacket
<1> HIDE DEF new
<1>4. /\ packet' \in [Packets -> [Sources -> MediaPacket \cup Candidates \cup QualificationBundle \cup {Nothing}]]
      /\ packet'["compiled"][s] = new
      /\ \A r \in Sources \ {s} : packet'["compiled"][r] = packet["compiled"][r]
      /\ \A k \in Packets \ {"compiled"} : packet'[k] = packet[k]
  BY <1>1, <1>2, <1>3 DEF PreproductionInv, PreproductionTypeOK, Packets
<1>5. PreproductionTypeOK'
  BY <1>1, <1>2, <1>4, CompiledIs DEF PreproductionInv, PreproductionTypeOK
<1>6. /\ packet'["director"] = packet["director"] /\ packet'["audio"] = packet["audio"]
      /\ packet'["qualification"] = packet["qualification"]
  BY <1>4 DEF Packets
<1>7. ASSUME NEW q \in Procs \ {p} PROVE Knows(proc[q])'
  <2>1. Knows(proc[q]) /\ proc'[q] = proc[q] /\ ~Clash(proc[p], proc[q])
    BY <1>1, <1>2, CompiledIs DEF PreproductionInv, Exclusive
  <2>2. HandoffKnows(proc[q])'
    <3>1. proc[q].pc \in Copying => proc[q].s # s
      BY <1>2, <2>1 DEF Clash
    <3>2. proc[q].pc \in Copying \cup RunSteps => proc[q].s \in Sources
      BY <2>1 DEF Knows, Copying, RunSteps
    <3> QED
      BY <1>1, <1>3, <1>4, <2>1, <3>1, <3>2 DEF Knows, HandoffKnows
  <2>3. AdvanceKnows(proc[q])' /\ ImportKnows(proc[q])'
    BY <1>1, <1>6, <2>1 DEF Knows, AdvanceKnows, ImportKnows, BindsStage
  <2> QED
    BY <2>1, <2>2, <2>3 DEF Knows
<1>8. Knows(proc[p])'
  <2>1. CASE proc'[p] = Idle
    BY <2>1, IdleFacts, IdleKnows
  <2>2. CASE proc'[p].pc = "run" /\ proc'[p].s = s
    <3>1. "run" \in RunSteps /\ "run" \notin CompileSteps \cup Copying
      BY DEF RunSteps, CompileSteps, Copying
    <3>2. HandoffKnows(proc[p])'
      BY <1>2, <1>3, <1>4, <2>2, <3>1 DEF HandoffKnows
    <3>3. AdvanceKnows(proc[p])' /\ ImportKnows(proc[p])'
      BY <2>2, <3>1, HandoffEntered
    <3> QED
      BY <1>2, <2>2, <3>2, <3>3 DEF Knows
  <2> QED
    BY <1>1, <1>2, <2>1, <2>2, CompiledIs
<1>9. StagesBind' /\ BundlesBind' /\ PacketsBindOneAdvance'
  BY <1>1, <1>6 DEF PreproductionInv, StagesBind, BundlesBind, PacketsBindOneAdvance
<1>10. RunnersBind'
  <2> SUFFICES ASSUME NEW r \in Sources
               PROVE  /\ packet'["compiled"][r] # Nothing => /\ packet'["compiled"][r] \in MediaPacket
                                                             /\ SourceMode[r] = "TEST"
                      /\ runner[r].stage \in {"copied", "harness", "started"} =>
                            /\ packet'["compiled"][r] # Nothing
                            /\ runner[r].inputs = packet'["compiled"][r].bytes
    BY <1>1 DEF PreproductionInv, RunnersBind
  <2>1. CASE r = s
    BY <1>3, <1>4, <2>1 DEF PreproductionInv, RunnersBind
  <2>2. CASE r # s
    BY <1>4, <2>2 DEF PreproductionInv, RunnersBind
  <2> QED
    BY <2>1, <2>2
<1> QED
  BY <1>1, <1>2, <1>5, <1>7, <1>8, <1>9, <1>10, CompiledIs, StepKeeps

\* start --compiled-input finds a packet and no namespace.
LEMMA StartCompiledKeeps ==
    ASSUME PreproductionInv, NEW p \in Procs, NEW s \in Sources, StartCompiled(p, s)
    PROVE  PreproductionInv'
<1> DEFINE c == [Idle EXCEPT !.pc = "mkdir", !.s = s]
<1>1. /\ UNCHANGED <<request, rev, stages, cinput, review, packet, staging, runner, worker, left>>
      /\ proc' = [proc EXCEPT ![p] = c] /\ packet.compiled[s] # Nothing
  BY DEF StartCompiled, files, handoff
<1>2. "mkdir" \in RunSteps /\ "mkdir" \notin CompileSteps \cup Copying \cup Building /\ "mkdir" \in Steps
  BY StepsAre DEF RunSteps, CompileSteps, Copying, Building
<1>3. c \in Command /\ c.pc = "mkdir" /\ c.s = s
  BY <1>2, IdleFacts DEF Command, Idle
<1> HIDE DEF c
<1>4. /\ proc' \in [Procs -> Command] /\ proc'[p] = c
      /\ \A q \in Procs \ {p} : proc'[q] = proc[q]
  BY <1>1, <1>3, CommandIs, BeginIs
<1>5. PreproductionTypeOK'
  BY <1>1, <1>4 DEF PreproductionInv, PreproductionTypeOK
<1>6. Knows(c)
  <2>1. HandoffKnows(c)
    BY <1>1, <1>2, <1>3 DEF HandoffKnows
  <2> QED
    BY <1>2, <1>3, <2>1, HandoffPlaces DEF Knows
<1>7. \A q \in Procs \ {p} : ~Clash(c, proc[q])
  BY <1>2, <1>3, HandoffPlaces DEF Clash
<1> QED
  BY <1>1, <1>4, <1>5, <1>6, <1>7, CommandKeeps

\* A command that has taken the run's lock.
LEMMA LockedIs ==
    ASSUME NEW c \in Command, NEW l \in Steps, NEW r \in Sources
    PROVE  [c EXCEPT !.at = r, !.pc = l] \in Command
BY DEF Command

\* A second handoff resumes a runner that loads, a first one makes its namespace.
LEMMA RunLockKeeps ==
    ASSUME PreproductionInv, NEW p \in Procs, RunLock(p)
    PROVE  PreproductionInv'
<1>1. /\ UNCHANGED <<request, rev, stages, cinput, review, packet, staging, runner, worker, left>>
      /\ proc[p].pc = "run" /\ request.src # Nothing
      /\ runner[proc[p].s].stage # "none" => runner[proc[p].s].stage = "started"
  BY DEF RunLock, Executes, Persisted, files, handoff, At
<1>2. proc[p].pc \in RunSteps /\ proc[p].s \in Sources /\ Knows(proc[p]) /\ proc[p] \in Command
  BY <1>1, CommandIs DEF RunSteps, At
<1>3. PICK l \in {"mkdir", "enqueue"} :
        /\ l = "enqueue" => runner[proc[p].s].stage = "started"
        /\ proc' = [proc EXCEPT ![p].at = request.src, ![p].pc = l]
  BY <1>1 DEF RunLock
<1>4. l \in RunSteps /\ l \notin CompileSteps \cup Copying \cup Building /\ l \in Steps
  BY StepsAre DEF RunSteps, CompileSteps, Copying, Building
<1>5. request.src \in Sources
  BY <1>1 DEF PreproductionInv, PreproductionTypeOK
<1>6. /\ proc' \in [Procs -> Command] /\ proc'[p].pc = l /\ proc'[p].s = proc[p].s
      /\ \A q \in Procs \ {p} : proc'[q] = proc[q]
  <2>1. proc \in [Procs -> Command] /\ [proc[p] EXCEPT !.at = request.src, !.pc = l] \in Command
    BY <1>2, <1>4, <1>5, CommandIs, LockedIs
  <2>2. proc'[p] = [proc[p] EXCEPT !.at = request.src, !.pc = l]
    BY <1>3, <2>1
  <2>3. \A q \in Procs \ {p} : proc'[q] = proc[q]
    BY <1>3, <2>1
  <2>4. proc' \in [Procs -> Command]
    BY <1>3, <2>1, <2>2, <2>3
  <2>5. proc'[p].pc = l /\ proc'[p].s = proc[p].s
    BY <1>2, <2>2 DEF Command
  <2> QED
    BY <2>3, <2>4, <2>5
<1>7. PreproductionTypeOK'
  BY <1>1, <1>6 DEF PreproductionInv, PreproductionTypeOK
<1>8. Knows(proc'[p])
  <2>1. HandoffKnows(proc'[p])
    BY <1>2, <1>3, <1>4, <1>6 DEF Knows, HandoffKnows
  <2> QED
    BY <1>2, <1>4, <1>6, <2>1, HandoffPlaces DEF Knows
<1>9. \A q \in Procs \ {p} : ~Clash(proc'[p], proc[q])
  BY <1>4, <1>6, HandoffPlaces DEF Clash
<1> QED
  BY <1>1, <1>6, <1>7, <1>8, <1>9, CommandKeeps

\* The row of the queue says nothing about the runners.
LEMMA EnqueueKeeps ==
    ASSUME PreproductionInv, NEW p \in Procs, Enqueue(p)
    PROVE  PreproductionInv'
<1>1. /\ UNCHANGED <<request, rev, stages, cinput, review, packet, staging, runner, left>>
      /\ Return(p) /\ worker' = [worker EXCEPT !.row = TRUE]
  BY DEF Enqueue, files
<1>2. /\ worker' \in [row : BOOLEAN, found : SUBSET Sources, resumed : SUBSET Sources]
      /\ worker'.found = worker.found /\ worker'.resumed = worker.resumed
  BY <1>1 DEF PreproductionInv, PreproductionTypeOK
<1>3. /\ proc' \in [Procs -> Command] /\ proc'[p] = Idle
      /\ \A q \in Procs \ {p} : proc'[q] = proc[q]
  BY <1>1, CommandIs, ReturnIs
<1>4. PreproductionTypeOK'
  BY <1>1, <1>2, <1>3 DEF PreproductionInv, PreproductionTypeOK
<1>5. \A q \in Procs : Knows(proc[q])'
  BY <1>1, <1>3, IdleFacts, KnowsFrame DEF PreproductionInv
<1>6. StagesBind' /\ RunnersBind' /\ BundlesBind' /\ PacketsBindOneAdvance'
  BY <1>1, <1>2 DEF PreproductionInv, StagesBind, RunnersBind, BundlesBind, PacketsBindOneAdvance
<1> QED
  BY <1>3, <1>4, <1>5, <1>6, IdleFacts, StepKeeps

\* The queue and the worker's handler: a runner that was found has the only harness there is, and
\* no harness goes away, so that nothing else is found after it.
LEMMA WorkerKeeps ==
    ASSUME PreproductionInv, NEW s \in Sources, EnqueueCompiled(s) \/ WorkerFinds(s) \/ WorkerResumes(s)
    PROVE  PreproductionInv'
<1>1. UNCHANGED <<request, rev, stages, cinput, review, packet, staging, runner, proc, left>>
  BY DEF EnqueueCompiled, WorkerFinds, WorkerResumes, files
<1>2. worker \in [row : BOOLEAN, found : SUBSET Sources, resumed : SUBSET Sources] /\ RunnersBind
  BY DEF PreproductionInv, PreproductionTypeOK
<1>3. /\ worker' \in [row : BOOLEAN, found : SUBSET Sources, resumed : SUBSET Sources]
      /\ RunnersBind'
  <2>1. CASE EnqueueCompiled(s)
    <3>1. worker' = [worker EXCEPT !.row = TRUE]
      BY <2>1 DEF EnqueueCompiled
    <3> QED
      BY <1>1, <1>2, <3>1 DEF RunnersBind
  <2>2. CASE WorkerFinds(s)
    <3>1. worker' = [worker EXCEPT !.found = @ \cup {s}] /\ {u \in Sources : Loadable(u)} = {s}
      BY <2>2 DEF WorkerFinds, OnlyMatch
    <3>2. \A u \in worker.found \cup {s} : u = s /\ runner[u].stage \in {"harness", "started"}
      BY <1>2, <3>1 DEF RunnersBind, Loadable
    <3>3. worker'.found = worker.found \cup {s} /\ worker'.resumed = worker.resumed
      BY <1>2, <3>1
    <3>4. worker' \in [row : BOOLEAN, found : SUBSET Sources, resumed : SUBSET Sources]
      BY <1>2, <3>1
    <3> QED
      BY <1>1, <1>2, <3>2, <3>3, <3>4 DEF RunnersBind
  <2>3. CASE WorkerResumes(s)
    <3>1. worker' = [worker EXCEPT !.resumed = @ \cup {s}] /\ s \in worker.found /\ runner[s].stage = "started"
      BY <2>3 DEF WorkerResumes, Persisted
    <3>2. worker'.found = worker.found /\ worker'.resumed = worker.resumed \cup {s}
      BY <1>2, <3>1
    <3>3. worker' \in [row : BOOLEAN, found : SUBSET Sources, resumed : SUBSET Sources]
      BY <1>2, <3>1
    <3> QED
      BY <1>1, <1>2, <3>1, <3>2, <3>3 DEF RunnersBind
  <2> QED
    BY <2>1, <2>2, <2>3
<1>4. PreproductionTypeOK' /\ StagesBind' /\ BundlesBind' /\ PacketsBindOneAdvance'
  BY <1>1, <1>3 DEF PreproductionInv, PreproductionTypeOK, StagesBind, BundlesBind, PacketsBindOneAdvance
<1>5. \A q \in Procs : Knows(proc[q])'
  BY <1>1, KnowsFrame DEF PreproductionInv
<1>6. Exclusive'
  BY <1>1 DEF PreproductionInv, Exclusive, Clash
<1> QED
  BY <1>3, <1>4, <1>5, <1>6 DEF PreproductionInv

\* Who builds in a runner's namespace is alone there, and the runner is not yet complete.
LEMMA BuilderIsAlone ==
    ASSUME PreproductionInv, NEW p \in Procs, proc[p].pc \in DOMAIN NextStart,
           At(p, "mkdir") => NamespaceFree(proc[p].s)
    PROVE  /\ proc[p].pc \in RunSteps /\ proc[p].s \in Sources /\ packet.compiled[proc[p].s] # Nothing
           /\ runner[proc[p].s].stage # "started"
           /\ runner[proc[p].s].stage = "harness" => At(p, "start")
           /\ At(p, "harness") \/ At(p, "start") =>
                 runner[proc[p].s].inputs = packet.compiled[proc[p].s].bytes
           /\ \A q \in Procs \ {p} : proc[q].s = proc[p].s => proc[q].pc \notin Building \cup {"enqueue"}
<1>1. proc[p].pc \in {"mkdir", "snapshot", "harness", "start"}
  BY DEF NextStart
<1>2. proc[p].pc \in RunSteps /\ proc[p].s \in Sources /\ Knows(proc[p]) /\ packet.compiled[proc[p].s] # Nothing
  BY <1>1, CommandIs DEF RunSteps, At, Knows, HandoffKnows
<1>3. /\ proc[p].pc = "mkdir" => runner[proc[p].s].stage = "none"
      /\ proc[p].pc = "snapshot" => runner[proc[p].s].stage = "made"
      /\ proc[p].pc = "harness" => runner[proc[p].s].stage = "copied"
      /\ proc[p].pc = "start" => runner[proc[p].s].stage = "harness"
  BY <1>2 DEF At, NamespaceFree, Knows, HandoffKnows
<1>4. At(p, "harness") \/ At(p, "start") => runner[proc[p].s].inputs = packet.compiled[proc[p].s].bytes
  BY <1>2, <1>3 DEF At, PreproductionInv, RunnersBind
<1>5. ASSUME NEW q \in Procs \ {p}, proc[q].s = proc[p].s PROVE proc[q].pc \notin Building \cup {"enqueue"}
  <2>1. Knows(proc[q]) /\ ~Clash(proc[p], proc[q])
    BY DEF PreproductionInv, Exclusive
  <2>2. proc[q].pc \in Building => runner[proc[p].s].stage \in {"made", "copied", "harness"}
    BY <1>5, <2>1 DEF Knows, HandoffKnows, Building
  <2>3. proc[q].pc = "enqueue" => runner[proc[p].s].stage = "started"
    BY <1>5, <2>1 DEF Knows, HandoffKnows
  <2>4. proc[p].pc \in Building => proc[q].pc \notin Building
    BY <1>5, <2>1 DEF Clash
  <2> QED
    BY <1>1, <1>3, <2>2, <2>3, <2>4 DEF Building
<1>6. runner[proc[p].s].stage = "harness" => At(p, "start")
  BY <1>1, <1>3 DEF At
<1> QED
  BY <1>1, <1>2, <1>3, <1>4, <1>5, <1>6

\* The namespace, its inputs, the harness and the runner's document.
LEMMA BuildRunnerKeeps ==
    ASSUME PreproductionInv, NEW p \in Procs, BuildRunner(p)
    PROVE  PreproductionInv'
<1> DEFINE s == proc[p].s
           row == [stage |-> StageAfter[proc[p].pc],
                   inputs |-> IF At(p, "snapshot") THEN packet.compiled[s].bytes ELSE runner[s].inputs]
           compiled == packet["compiled"][s]
<1>1. /\ UNCHANGED <<request, rev, stages, cinput, review, packet, staging, worker, left>>
      /\ proc[p].pc \in DOMAIN NextStart /\ (At(p, "mkdir") => NamespaceFree(s))
      /\ runner' = [runner EXCEPT ![s] = row]
  BY DEF BuildRunner, files
<1>2. /\ proc[p].pc \in RunSteps /\ s \in Sources /\ compiled # Nothing
      /\ runner[s].stage # "started" /\ (runner[s].stage = "harness" => proc[p].pc = "start")
      /\ At(p, "harness") \/ At(p, "start") => runner[s].inputs = compiled.bytes
      /\ \A q \in Procs \ {p} : proc[q].s = s => proc[q].pc \notin Building \cup {"enqueue"}
  BY <1>1, BuilderIsAlone DEF At
<1>3. proc[p].pc \in {"mkdir", "snapshot", "harness", "start"}
  BY <1>1 DEF NextStart
<1>4. compiled \in MediaPacket /\ compiled.bytes \in [Derived -> Content]
  BY <1>2 DEF PreproductionInv, RunnersBind, MediaPacket
<1>5. /\ row.stage \in {"made", "copied", "harness", "started"} /\ row.inputs \in [Derived -> Content]
      /\ row.stage # "made" => row.inputs = compiled.bytes
      /\ row \in [stage : {"none", "made", "copied", "harness", "started"}, inputs : [Derived -> Content]]
  <2>1. runner[s].inputs \in [Derived -> Content]
    BY <1>2 DEF PreproductionInv, PreproductionTypeOK
  <2>2. StageAfter[proc[p].pc] \in {"made", "copied", "harness", "started"}
    BY <1>3 DEF StageAfter
  <2>3. StageAfter[proc[p].pc] # "made" => At(p, "snapshot") \/ At(p, "harness") \/ At(p, "start")
    BY <1>3 DEF StageAfter, At
  <2> QED
    BY <1>2, <1>4, <2>1, <2>2, <2>3
<1>6. /\ proc[p].pc = "mkdir" => row.stage = "made"
      /\ proc[p].pc = "snapshot" => row.stage = "copied"
      /\ proc[p].pc = "harness" => row.stage = "harness"
      /\ proc[p].pc = "start" => row.stage = "started"
  BY DEF StageAfter
<1> HIDE DEF row
<1>7. /\ runner' \in [Sources -> [stage : {"none", "made", "copied", "harness", "started"}, inputs : [Derived -> Content]]]
      /\ runner'[s] = row /\ \A r \in Sources \ {s} : runner'[r] = runner[r]
  BY <1>1, <1>2, <1>5 DEF PreproductionInv, PreproductionTypeOK
<1>8. /\ proc' \in [Procs -> Command] /\ \A q \in Procs \ {p} : proc'[q] = proc[q]
      /\ \/ proc'[p] = Idle
         \/ /\ proc'[p].s = s /\ proc'[p].pc = NextStart[proc[p].pc]
            /\ proc'[p].pc \in Building \cup {"enqueue"}
  <2>1. CASE Return(p)
    BY <2>1, CommandIs, ReturnIs
  <2>2. CASE Goto(p, NextStart[proc[p].pc])
    <3>1. NextStart[proc[p].pc] \in Building \cup {"enqueue"} /\ NextStart[proc[p].pc] \in Steps
      BY <1>3, StepsAre DEF NextStart, Building, RunSteps
    <3> QED
      BY <2>2, <3>1, CommandIs, GotoIs
  <2> QED
    BY <2>1, <2>2 DEF BuildRunner
<1>9. PreproductionTypeOK'
  BY <1>1, <1>7, <1>8 DEF PreproductionInv, PreproductionTypeOK
<1>10. ASSUME NEW q \in Procs \ {p} PROVE Knows(proc[q])'
  <2>1. Knows(proc[q]) /\ proc'[q] = proc[q]
    BY <1>8 DEF PreproductionInv
  <2>2. HandoffKnows(proc[q])'
    <3>1. proc[q].pc \in Building \cup {"enqueue"} => proc[q].s # s /\ proc[q].s \in Sources
      BY <1>2, <2>1 DEF Knows, Building
    <3> QED
      BY <1>1, <1>7, <2>1, <3>1 DEF Knows, HandoffKnows, Building
  <2>3. AdvanceKnows(proc[q])' /\ ImportKnows(proc[q])'
    BY <1>1, <2>1 DEF Knows, AdvanceKnows, ImportKnows, BindsStage
  <2> QED
    BY <2>1, <2>2, <2>3 DEF Knows
<1>11. Knows(proc[p])'
  <2>1. CASE proc'[p] = Idle
    BY <2>1, IdleFacts, IdleKnows
  <2>2. CASE /\ proc'[p].s = s /\ proc'[p].pc = NextStart[proc[p].pc]
             /\ proc'[p].pc \in Building \cup {"enqueue"}
    <3>1. proc'[p].pc \in RunSteps /\ proc'[p].pc \notin CompileSteps \cup Copying \cup {"run"}
      BY <2>2 DEF RunSteps, CompileSteps, Copying, Building
    <3>2. /\ proc'[p].pc = "snapshot" => proc[p].pc = "mkdir"
          /\ proc'[p].pc = "harness" => proc[p].pc = "snapshot"
          /\ proc'[p].pc = "start" => proc[p].pc = "harness"
          /\ proc'[p].pc = "enqueue" => proc[p].pc = "start"
      BY <1>3, <2>2 DEF NextStart
    <3>3. HandoffKnows(proc[p])'
      BY <1>1, <1>2, <1>6, <1>7, <2>2, <3>1, <3>2 DEF HandoffKnows
    <3>4. AdvanceKnows(proc[p])' /\ ImportKnows(proc[p])'
      BY <3>1, HandoffEntered
    <3> QED
      BY <1>2, <2>2, <3>3, <3>4 DEF Knows
  <2> QED
    BY <1>8, <2>1, <2>2
<1>12. \A q \in Procs \ {p} : ~Clash(proc'[p], proc[q])
  <2>1. CASE proc'[p] = Idle
    BY <2>1, IdleFacts
  <2>2. CASE proc'[p].s = s /\ proc'[p].pc \in Building \cup {"enqueue"}
    <3>1. proc'[p].pc \in RunSteps /\ proc'[p].pc \notin Copying
      BY <2>2 DEF RunSteps, Copying, Building
    <3> QED
      BY <1>2, <2>2, <3>1, HandoffPlaces DEF Clash
  <2> QED
    BY <1>8, <2>1, <2>2
<1>13. StagesBind' /\ BundlesBind' /\ PacketsBindOneAdvance'
  BY <1>1 DEF PreproductionInv, StagesBind, BundlesBind, PacketsBindOneAdvance
<1>14. RunnersBind'
  <2> SUFFICES ASSUME NEW r \in Sources
               PROVE  /\ packet["compiled"][r] # Nothing => /\ packet["compiled"][r] \in MediaPacket
                                                            /\ SourceMode[r] = "TEST"
                      /\ runner'[r].stage \in {"copied", "harness", "started"} =>
                            /\ packet["compiled"][r] # Nothing
                            /\ runner'[r].inputs = packet["compiled"][r].bytes
                      /\ r \in worker.found => runner'[r].stage \in {"harness", "started"}
                      /\ r \in worker.resumed => runner'[r].stage = "started"
    BY <1>1 DEF PreproductionInv, RunnersBind
  <2>1. CASE r = s
    <3>1. s \in worker.found => runner'[s].stage = "started"
      BY <1>2, <1>6, <1>7 DEF PreproductionInv, RunnersBind
    <3>2. s \notin worker.resumed
      BY <1>2 DEF PreproductionInv, RunnersBind
    <3> QED
      BY <1>2, <1>5, <1>7, <2>1, <3>1, <3>2 DEF PreproductionInv, RunnersBind
  <2>2. CASE r # s
    BY <1>7, <2>2 DEF PreproductionInv, RunnersBind
  <2> QED
    BY <2>1, <2>2
<1> QED
  BY <1>8, <1>9, <1>10, <1>11, <1>12, <1>13, <1>14, StepKeeps

-----------------------------------------------------------------------------
(* import_real_preproduction_handoff() *)

Unlocked == ReadSteps \cup {"import_lock", "import_publish", "audio_lock"}

\* An importer moves on outside the locks that the packets need, knowing its new place.
LEMMA ImportMoves ==
    ASSUME PreproductionInv, NEW p \in Procs, proc' \in [Procs -> Command],
           \A q \in Procs \ {p} : proc'[q] = proc[q],
           UNCHANGED <<request, rev, stages, cinput, review, packet, staging, runner, worker, left>>,
           proc'[p].s \in Sources, proc'[p].pc \in Unlocked, ImportKnows(proc'[p])
    PROVE  PreproductionInv'
<1>1. PreproductionTypeOK'
  BY DEF PreproductionInv, PreproductionTypeOK
<1>2. proc'[p].pc \in ReadSteps \cup AudioSteps \cup QualificationSteps \cup {"import_lock", "import_publish"}
  BY DEF Unlocked, AudioSteps
<1>3. Knows(proc'[p])
  BY <1>2, ImportPlaces DEF Knows
<1>4. \A q \in Procs \ {p} : ~Clash(proc'[p], proc[q])
  <2>1. proc'[p].pc \notin AdvanceLocked \cup AudioLocked
    BY DEF Unlocked, ReadSteps, AdvanceLocked, AdvanceSteps, QualificationSteps, AudioLocked
  <2> QED
    BY <1>2, <2>1, ImportPlaces DEF Clash
<1> QED
  BY <1>1, <1>3, <1>4, CommandKeeps

\* What an importer must know at its places outside the locks.
LEMMA UnlockedKnows ==
    ASSUME NEW c, c.pc \in Unlocked,
           c.pc \in ReadSteps \ {"reread"} => c.suffix \in Suffixes,
           c.pc = "import_publish" => BindsStage(c.board, c.raw),
           c.pc = "audio_lock" => c.t \in Candidates
    PROVE  ImportKnows(c)
BY DEF Unlocked, ReadSteps, ImportKnows, AudioSteps, AudioLocked, QualificationSteps

\* The preflight of the active revision.
LEMMA ImportBeginKeeps ==
    ASSUME PreproductionInv, NEW p \in Procs, ImportBegin(p)
    PROVE  PreproductionInv'
<1> DEFINE c == [Idle EXCEPT !.pc = "reread", !.s = request.src]
<1>1. /\ UNCHANGED <<request, rev, stages, cinput, review, packet, staging, runner, worker, left>>
      /\ proc' = [proc EXCEPT ![p] = c] /\ request.src # Nothing
  BY DEF ImportBegin, Preflight, Executes, files, handoff
<1>2. request.src \in Sources /\ "reread" \in Steps /\ "reread" \in Unlocked
  BY <1>1, StepsAre DEF PreproductionInv, PreproductionTypeOK, ReadSteps, Unlocked
<1>3. c \in Command /\ c.pc = "reread" /\ c.s = request.src
  BY <1>2, IdleFacts DEF Command, Idle
<1> HIDE DEF c
<1>4. /\ proc' \in [Procs -> Command] /\ proc'[p] = c
      /\ \A q \in Procs \ {p} : proc'[q] = proc[q]
  BY <1>1, <1>3, CommandIs, BeginIs
<1>5. ImportKnows(c)
  BY <1>2, <1>3, UnlockedKnows
<1> QED
  BY <1>1, <1>2, <1>3, <1>4, <1>5, ImportMoves

\* A command that has noted another value is a command.
LEMMA NotedIs ==
    ASSUME NEW c \in Command, NEW l \in Steps
    PROVE  /\ \A x \in Suffixes, b \in Timelines \cup {Nothing} :
                [c EXCEPT !.pc = l, !.suffix = x, !.board = b] \in Command
           /\ \A r, a \in [Derived -> Content] : [c EXCEPT !.pc = l, !.raw = r, !.again = a] \in Command
           /\ \A a \in [Derived -> Content] : [c EXCEPT !.pc = l, !.again = a] \in Command
           /\ [c EXCEPT !.pc = l, !.pass = 2] \in Command
<1>1. ASSUME NEW x \in Suffixes, NEW b \in Timelines \cup {Nothing}
      PROVE  [c EXCEPT !.pc = l, !.suffix = x, !.board = b] \in Command
  BY DEF Command
<1>2. ASSUME NEW r \in [Derived -> Content], NEW a \in [Derived -> Content]
      PROVE  [c EXCEPT !.pc = l, !.raw = r, !.again = a] \in Command
  BY DEF Command
<1>3. ASSUME NEW a \in [Derived -> Content] PROVE [c EXCEPT !.pc = l, !.again = a] \in Command
  BY DEF Command
<1>4. [c EXCEPT !.pc = l, !.pass = 2] \in Command
  BY DEF Command
<1> QED
  BY <1>1, <1>2, <1>3, <1>4

\* The stages are read again, and the one recording is found.
LEMMA RereadKeeps ==
    ASSUME PreproductionInv, NEW p \in Procs, Reread(p)
    PROVE  PreproductionInv'
<1>1. /\ UNCHANGED <<request, rev, stages, cinput, review, packet, staging, runner, worker, left>>
      /\ proc[p].pc = "reread"
  BY DEF Reread, files, handoff, At
<1>2. PICK x \in Suffixes : proc' = [proc EXCEPT ![p].pc = "read_timeline", ![p].suffix = x,
                                                 ![p].board = stages[proc[p].s].board]
  BY DEF Reread
<1>3. proc \in [Procs -> Command] /\ proc[p] \in Command /\ proc[p].s \in Sources
  BY <1>1, CommandIs DEF At
<1>4. stages[proc[p].s].board \in Timelines \cup {Nothing}
  BY <1>3 DEF PreproductionInv, PreproductionTypeOK
<1>5. "read_timeline" \in Steps /\ "read_timeline" \in Unlocked
  BY StepsAre DEF ReadSteps, Unlocked
<1> DEFINE c == [proc[p] EXCEPT !.pc = "read_timeline", !.suffix = x, !.board = stages[proc[p].s].board]
<1>6. c \in Command /\ c.pc = "read_timeline" /\ c.s = proc[p].s /\ c.suffix = x
  BY <1>3, <1>4, <1>5, NotedIs DEF Command
<1>7. proc' = [proc EXCEPT ![p] = c]
  BY <1>2, <1>3
<1> HIDE DEF c
<1>8. /\ proc' \in [Procs -> Command] /\ proc'[p] = c
      /\ \A q \in Procs \ {p} : proc'[q] = proc[q]
  BY <1>3, <1>6, <1>7, BeginIs
<1>9. ImportKnows(c)
  BY <1>5, <1>6, UnlockedKnows
<1> QED
  BY <1>1, <1>3, <1>5, <1>6, <1>8, <1>9, ImportMoves

\* What one reading has gathered, with another file.
LEMMA ReadingIs ==
    ASSUME PreproductionInv, NEW p \in Procs, proc[p].s \in Sources, proc[p].suffix \in Suffixes, NEW f \in Derived
    PROVE  [Gathered(p) EXCEPT ![f] = FileNow(proc[p].s, f, proc[p].suffix)] \in [Derived -> Content]
<1>1. rev[proc[p].s] \in Revision /\ proc[p] \in Command
  BY DEF PreproductionInv, PreproductionTypeOK
<1>2. Gathered(p) \in [Derived -> Content]
  BY <1>1 DEF Gathered, Command
<1>3. FileNow(proc[p].s, f, proc[p].suffix) \in Content
  <2>1. CASE f = "audio"
    BY <1>1, <2>1 DEF FileNow, Revision
  <2>2. CASE f = "scenes"
    BY <1>1, <2>2 DEF FileNow, Revision
  <2>3. CASE f = "qa"
    BY <1>1, <2>3 DEF FileNow, Revision
  <2>4. CASE f = "timeline"
    BY <1>1, <2>4 DEF FileNow, Revision
  <2> QED
    BY <2>1, <2>2, <2>3, <2>4 DEF Derived
<1> QED
  BY <1>2, <1>3

\* One file of the evidence is read.
LEMMA ReadEvidenceKeeps ==
    ASSUME PreproductionInv, NEW p \in Procs, ReadEvidence(p)
    PROVE  PreproductionInv'
<1> DEFINE f == FileRead[proc[p].pc]
           now == [Gathered(p) EXCEPT ![f] = FileNow(proc[p].s, f, proc[p].suffix)]
           raw == IF proc[p].pass = 1 THEN now ELSE proc[p].raw
           again == IF proc[p].pass = 2 THEN now ELSE proc[p].again
           c == [proc[p] EXCEPT !.pc = NextRead[proc[p].pc], !.raw = raw, !.again = again]
<1>1. /\ UNCHANGED <<request, rev, stages, cinput, review, packet, staging, runner, worker, left>>
      /\ proc[p].pc \in {"read_timeline", "read_scenes", "read_qa"}
  BY DEF ReadEvidence, NextRead, files, handoff
<1>2. /\ NextRead[proc[p].pc] \in {"read_scenes", "read_qa", "read_audio"} /\ f \in Derived
      /\ proc[p].pc \in ReadSteps \ {"reread"}
  BY <1>1 DEF NextRead, FileRead, Derived, ReadSteps
<1>3. /\ proc \in [Procs -> Command] /\ proc[p] \in Command /\ proc[p].s \in Sources
      /\ proc[p].suffix \in Suffixes
  BY <1>1, <1>2, CommandIs DEF At, Knows, ImportKnows
<1>4. NextRead[proc[p].pc] \in Steps /\ NextRead[proc[p].pc] \in Unlocked
  BY <1>2, StepsAre DEF ReadSteps, Unlocked
<1>5. raw \in [Derived -> Content] /\ again \in [Derived -> Content]
  <2>1. now \in [Derived -> Content]
    BY <1>2, <1>3, ReadingIs
  <2> HIDE DEF now
  <2> QED
    BY <1>3, <2>1 DEF Command
<1>6. proc' = [proc EXCEPT ![p] = c]
  <2>1. proc' = [proc EXCEPT ![p].pc = NextRead[@], ![p].raw = IF proc[p].pass = 1 THEN now ELSE @,
                             ![p].again = IF proc[p].pass = 2 THEN now ELSE @]
    BY DEF ReadEvidence
  <2> HIDE DEF now
  <2> QED
    BY <1>3, <2>1
<1> HIDE DEF f, now, raw, again
<1>7. c \in Command
  BY <1>3, <1>4, <1>5, NotedIs
<1>8. c.pc = NextRead[proc[p].pc] /\ c.s = proc[p].s /\ c.suffix = proc[p].suffix
  BY <1>3 DEF Command
<1> HIDE DEF c
<1>9. /\ proc' \in [Procs -> Command] /\ proc'[p] = c
      /\ \A q \in Procs \ {p} : proc'[q] = proc[q]
  BY <1>3, <1>6, <1>7, BeginIs
<1>10. ImportKnows(c)
  BY <1>2, <1>3, <1>4, <1>8, UnlockedKnows
<1> QED
  BY <1>1, <1>3, <1>4, <1>8, <1>9, <1>10, ImportMoves

\* The last file is read; the evidence read twice binds the recorded storyboard.
LEMMA CheckEvidenceKeeps ==
    ASSUME PreproductionInv, NEW p \in Procs, CheckEvidence(p)
    PROVE  PreproductionInv'
<1> DEFINE now == [Gathered(p) EXCEPT !["audio"] = FileNow(proc[p].s, "audio", proc[p].suffix)]
<1>1. /\ UNCHANGED <<request, rev, stages, cinput, review, packet, staging, runner, worker, left>>
      /\ proc[p].pc = "read_audio" /\ BindsStage(proc[p].board, now)
      /\ \/ proc' = [proc EXCEPT ![p].pc = "import_lock", ![p].raw = now]
         \/ now = proc[p].raw /\ proc' = [proc EXCEPT ![p].pc = "import_publish", ![p].again = Blank]
  BY DEF CheckEvidence, files, handoff, At
<1>2. proc[p].pc \in ReadSteps \ {"reread"} /\ "audio" \in Derived
  BY <1>1 DEF ReadSteps, Derived
<1>3. /\ proc \in [Procs -> Command] /\ proc[p] \in Command /\ proc[p].s \in Sources
      /\ proc[p].suffix \in Suffixes
  BY <1>1, <1>2, CommandIs DEF At, Knows, ImportKnows
<1>4. now \in [Derived -> Content]
  BY <1>2, <1>3, ReadingIs
<1>5. {"import_lock", "import_publish"} \subseteq Steps /\ {"import_lock", "import_publish"} \subseteq Unlocked
      /\ Blank \in [Derived -> Content]
      /\ {"import_lock", "import_publish"} \cap ReadSteps = {}
  BY StepsAre DEF Unlocked, Blank, Content, ReadSteps
<1> HIDE DEF now
<1>6. PICK c \in Command :
        /\ proc' = [proc EXCEPT ![p] = c] /\ c.s = proc[p].s /\ c.pc \in {"import_lock", "import_publish"}
        /\ c.pc = "import_publish" => BindsStage(c.board, c.raw)
  <2>1. CASE proc' = [proc EXCEPT ![p].pc = "import_lock", ![p].raw = now]
    <3> DEFINE c == [proc[p] EXCEPT !.pc = "import_lock", !.raw = now]
    <3>1. c \in Command
      BY <1>3, <1>4, <1>5, GatheredIs
    <3>2. c.pc = "import_lock" /\ c.s = proc[p].s
      BY <1>3 DEF Command
    <3>3. proc' = [proc EXCEPT ![p] = c]
      BY <1>3, <2>1
    <3> QED
      BY <3>1, <3>2, <3>3
  <2>2. CASE now = proc[p].raw /\ proc' = [proc EXCEPT ![p].pc = "import_publish", ![p].again = Blank]
    <3> DEFINE c == [proc[p] EXCEPT !.pc = "import_publish", !.again = Blank]
    <3>1. c \in Command
      BY <1>3, <1>5, NotedIs
    <3>2. c.pc = "import_publish" /\ c.s = proc[p].s /\ c.board = proc[p].board /\ c.raw = proc[p].raw
      BY <1>3 DEF Command
    <3>3. proc' = [proc EXCEPT ![p] = c]
      BY <1>3, <2>2
    <3> QED
      BY <1>1, <2>2, <3>1, <3>2, <3>3
  <2> QED
    BY <1>1, <2>1, <2>2
<1>7. /\ proc' \in [Procs -> Command] /\ proc'[p] = c
      /\ \A q \in Procs \ {p} : proc'[q] = proc[q]
  BY <1>3, <1>6, BeginIs
<1>8. ImportKnows(c)
  BY <1>5, <1>6, UnlockedKnows
<1> QED
  BY <1>1, <1>3, <1>5, <1>6, <1>7, <1>8, ImportMoves

\* The second reading begins behind .director-import.lock.
LEMMA ImportLockKeeps ==
    ASSUME PreproductionInv, NEW p \in Procs, ImportLock(p)
    PROVE  PreproductionInv'
<1> DEFINE c == [proc[p] EXCEPT !.pc = "reread", !.pass = 2]
<1>1. /\ UNCHANGED <<request, rev, stages, cinput, review, packet, staging, runner, worker, left>>
      /\ proc[p].pc = "import_lock" /\ proc' = [proc EXCEPT ![p].pc = "reread", ![p].pass = 2]
  BY DEF ImportLock, files, handoff, At
<1>2. proc \in [Procs -> Command] /\ proc[p] \in Command /\ proc[p].s \in Sources
  BY <1>1, CommandIs DEF At
<1>3. "reread" \in Steps /\ "reread" \in Unlocked
  BY StepsAre DEF ReadSteps, Unlocked
<1>4. c \in Command /\ proc' = [proc EXCEPT ![p] = c]
  BY <1>1, <1>2, <1>3, NotedIs
<1>5. c.pc = "reread" /\ c.s = proc[p].s
  BY <1>2 DEF Command
<1> HIDE DEF c
<1>6. /\ proc' \in [Procs -> Command] /\ proc'[p] = c
      /\ \A q \in Procs \ {p} : proc'[q] = proc[q]
  BY <1>2, <1>4, BeginIs
<1>7. ImportKnows(c)
  BY <1>3, <1>5, UnlockedKnows
<1> QED
  BY <1>1, <1>2, <1>3, <1>5, <1>6, <1>7, ImportMoves

\* The Director packet holds the bytes that were read twice.
LEMMA ImportPublishKeeps ==
    ASSUME PreproductionInv, NEW p \in Procs, ImportPublish(p)
    PROVE  PreproductionInv'
<1> DEFINE s == proc[p].s
           new == [receipt |-> proc[p].board, bytes |-> proc[p].raw]
<1>1. /\ UNCHANGED <<request, rev, stages, cinput, review, staging, runner, worker, left>>
      /\ proc[p].pc = "import_publish" /\ Return(p)
      /\ packet' = [packet EXCEPT !["director"][s] = new]
  BY DEF ImportPublish, PacketBytes, files, handoff, At
<1>2. s \in Sources /\ Knows(proc[p]) /\ proc[p] \in Command
  BY <1>1, CommandIs DEF At
<1>3. BindsStage(proc[p].board, proc[p].raw)
  BY <1>1, <1>2 DEF Knows, ImportKnows
<1>4. new \in MediaPacket /\ \A f \in Derived : new.bytes[f] = new.receipt
  BY <1>2, <1>3 DEF BindsStage, Command, MediaPacket
<1> HIDE DEF new
<1>5. /\ packet' \in [Packets -> [Sources -> MediaPacket \cup Candidates \cup QualificationBundle \cup {Nothing}]]
      /\ packet'["director"][s] = new
      /\ \A r \in Sources \ {s} : packet'["director"][r] = packet["director"][r]
      /\ packet'["compiled"] = packet["compiled"] /\ packet'["audio"] = packet["audio"]
      /\ packet'["qualification"] = packet["qualification"]
  <2>1. "director" \in Packets /\ {"compiled", "audio", "qualification"} \subseteq Packets \ {"director"}
    BY DEF Packets
  <2>2. new \in MediaPacket \cup Candidates \cup QualificationBundle \cup {Nothing}
    BY <1>4
  <2>3. /\ packet' \in [Packets -> [Sources -> MediaPacket \cup Candidates \cup QualificationBundle \cup {Nothing}]]
        /\ packet'["director"][s] = new /\ \A r \in Sources \ {s} : packet'["director"][r] = packet["director"][r]
        /\ \A j \in Packets \ {"director"} : packet'[j] = packet[j]
    BY <1>1, <1>2, <2>1, <2>2 DEF PreproductionInv, PreproductionTypeOK
  <2> QED
    BY <2>1, <2>3
<1>6. /\ proc' \in [Procs -> Command] /\ proc'[p] = Idle
      /\ \A q \in Procs \ {p} : proc'[q] = proc[q]
  BY <1>1, CommandIs, ReturnIs
<1>7. PreproductionTypeOK'
  BY <1>1, <1>5, <1>6 DEF PreproductionInv, PreproductionTypeOK
<1>8. ASSUME NEW q \in Procs PROVE Knows(proc[q])'
  <2>1. Knows(proc'[q])
    BY <1>6, IdleFacts DEF PreproductionInv
  <2> QED
    BY <1>1, <1>5, <2>1 DEF Knows, AdvanceKnows, HandoffKnows, ImportKnows, BindsStage
<1>9. StagesBind' /\ RunnersBind' /\ BundlesBind'
  BY <1>1, <1>5 DEF PreproductionInv, StagesBind, RunnersBind, BundlesBind
<1>10. PacketsBindOneAdvance'
  <2> SUFFICES ASSUME NEW r \in Sources
               PROVE  /\ packet'["director"][r] # Nothing =>
                            \A f \in Derived : packet'["director"][r].bytes[f] = packet'["director"][r].receipt
                      /\ packet'["qualification"][r] # Nothing =>
                            packet'["qualification"][r].candidate = packet'["audio"][r]
    BY DEF PacketsBindOneAdvance
  <2>1. CASE r = s
    BY <1>4, <1>5, <2>1 DEF PreproductionInv, PacketsBindOneAdvance
  <2>2. CASE r # s
    BY <1>5, <2>2 DEF PreproductionInv, PacketsBindOneAdvance
  <2> QED
    BY <2>1, <2>2
<1> QED
  BY <1>6, <1>7, <1>8, <1>9, <1>10, IdleFacts, StepKeeps

-----------------------------------------------------------------------------
(* import_real_audio_candidate() and import_audio_qualification_evidence() *)

\* The active revision has a source of its own.
LEMMA SnapshotIs ==
    ASSUME PreproductionInv, NEW s, AudioSnapshot(s)
    PROVE  s = request.src /\ s \in Sources
BY DEF PreproductionInv, PreproductionTypeOK, AudioSnapshot, Executes

\* An audio candidate is offered.
LEMMA AudioImportKeeps ==
    ASSUME PreproductionInv, NEW p \in Procs, NEW a \in Candidates, AudioImport(p, a)
    PROVE  PreproductionInv'
<1> DEFINE c == [Idle EXCEPT !.pc = "audio_lock", !.s = request.src, !.t = a]
<1>1. /\ UNCHANGED <<request, rev, stages, cinput, review, packet, staging, runner, worker, left>>
      /\ proc' = [proc EXCEPT ![p] = c]
  BY DEF AudioImport, files, handoff
<1>2. request.src \in Sources /\ "audio_lock" \in Steps /\ "audio_lock" \in Unlocked /\ "audio_lock" \notin ReadSteps
  BY SnapshotIs, StepsAre DEF AudioImport, AudioSteps, Unlocked, ReadSteps
<1>3. c \in Command /\ c.pc = "audio_lock" /\ c.s = request.src /\ c.t = a
  BY <1>2, IdleFacts DEF Command, Idle
<1> HIDE DEF c
<1>4. /\ proc' \in [Procs -> Command] /\ proc'[p] = c
      /\ \A q \in Procs \ {p} : proc'[q] = proc[q]
  BY <1>1, <1>3, CommandIs, BeginIs
<1>5. ImportKnows(c)
  BY <1>2, <1>3, UnlockedKnows
<1> QED
  BY <1>1, <1>2, <1>3, <1>4, <1>5, ImportMoves

\* Behind the importer's lock there is no packet yet, or the replay of one.
LEMMA AudioLockKeeps ==
    ASSUME PreproductionInv, NEW p \in Procs, AudioLock(p)
    PROVE  PreproductionInv'
<1>1. /\ UNCHANGED <<request, rev, stages, cinput, review, packet, staging, runner, worker, left>>
      /\ proc[p].pc = "audio_lock" /\ ~HeldFor({"audio_stage", "audio_publish"}, proc[p].s)
  BY DEF AudioLock, files, handoff, At
<1>2. proc[p].pc \in AudioSteps /\ proc[p].s \in Sources /\ Knows(proc[p]) /\ proc[p].t \in Candidates
  BY <1>1, CommandIs DEF AudioSteps, At, Knows, ImportKnows
<1>3. CASE packet.audio[proc[p].s] = Nothing /\ Goto(p, "audio_stage")
  <2>1. "audio_stage" \in AudioSteps /\ "audio_stage" \in AudioLocked /\ "audio_stage" \in Steps
        /\ "audio_stage" \notin AdvanceLocked \cup ReadSteps \cup QualificationSteps
    BY StepsAre DEF AudioSteps, AudioLocked, AdvanceLocked, AdvanceSteps, QualificationSteps, ReadSteps
  <2>2. /\ proc' \in [Procs -> Command] /\ proc'[p].pc = "audio_stage"
        /\ \A q \in Procs \ {p} : proc'[q] = proc[q]
        /\ proc'[p].s = proc[p].s /\ proc'[p].t = proc[p].t
    BY <1>3, <2>1, CommandIs, GotoIs
  <2>3. PreproductionTypeOK'
    BY <1>1, <2>2 DEF PreproductionInv, PreproductionTypeOK
  <2>4. ImportKnows(proc'[p])
    BY <1>2, <1>3, <2>1, <2>2 DEF ImportKnows
  <2>5. Knows(proc'[p])
    BY <1>2, <2>1, <2>2, <2>4, ImportPlaces DEF Knows
  <2>6. \A q \in Procs \ {p} : ~Clash(proc'[p], proc[q])
    <3>1. \A q \in Procs : proc[q].s = proc[p].s => proc[q].pc \notin AudioLocked
      BY <1>1 DEF HeldFor, AudioLocked
    <3> QED
      BY <2>1, <2>2, <3>1, ImportPlaces DEF Clash
  <2> QED
    BY <1>1, <2>2, <2>3, <2>5, <2>6, CommandKeeps
<1>4. CASE Return(p)
  <2>1. PreproductionTypeOK'
    BY <1>1, <1>4, CommandIs, ReturnIs DEF PreproductionInv, PreproductionTypeOK
  <2> QED
    BY <1>1, <1>4, <2>1, ReturnKeeps
<1> QED
  BY <1>3, <1>4 DEF AudioLock

\* A staging directory is written; the command stays behind its lock.
LEMMA StageKeeps ==
    ASSUME PreproductionInv, NEW p \in Procs, AudioStage(p) \/ QualifyStage(p)
    PROVE  PreproductionInv'
<1>1. PICK k \in {"audio", "qualification"}, l \in {"audio_publish", "qualify_publish"} :
        /\ Stage(p, k, l)
        /\ \/ proc[p].pc = "audio_stage" /\ l = "audio_publish"
           \/ proc[p].pc = "qualify_stage" /\ l = "qualify_publish"
  BY DEF AudioStage, QualifyStage, At
<1>2. /\ UNCHANGED <<request, rev, stages, cinput, review, packet, runner, worker, left>>
      /\ staging' = staging \cup {<<k, proc[p].s>>} /\ Goto(p, l)
  BY <1>1 DEF Stage, files, handoff
<1>3. /\ proc[p].s \in Sources /\ Knows(proc[p]) /\ l \in Steps
      /\ l \in AudioSteps \cup QualificationSteps /\ l \notin ReadSteps \cup {"import_publish"}
      /\ proc[p].pc \in AudioSteps <=> l \in AudioSteps
      /\ proc[p].pc \in QualificationSteps <=> l \in QualificationSteps
      /\ proc[p].pc \in AudioLocked <=> l \in AudioLocked
      /\ proc[p].pc \in AdvanceLocked <=> l \in AdvanceLocked
  BY <1>1, CommandIs, StepsAre DEF At, AudioSteps, QualificationSteps, AudioLocked, AdvanceLocked, AdvanceSteps, ReadSteps
<1>4. /\ proc' \in [Procs -> Command] /\ proc'[p].pc = l
      /\ \A q \in Procs \ {p} : proc'[q] = proc[q]
      /\ proc'[p].s = proc[p].s /\ proc'[p].t = proc[p].t
  BY <1>2, <1>3, CommandIs, GotoIs
<1>5. PreproductionTypeOK'
  BY <1>2, <1>3, <1>4 DEF PreproductionInv, PreproductionTypeOK
<1>6. ImportKnows(proc'[p])
  BY <1>3, <1>4 DEF Knows, ImportKnows
<1>7. Knows(proc'[p])
  BY <1>3, <1>4, <1>6, ImportPlaces DEF Knows
<1>8. \A q \in Procs \ {p} : ~Clash(proc'[p], proc[q])
  BY <1>3, <1>4, ImportPlaces, SameLock
<1> QED
  BY <1>2, <1>4, <1>5, <1>7, <1>8, CommandKeeps

\* The audio packet is published: it was not there, nor anything that stands beside it.
LEMMA AudioPublishKeeps ==
    ASSUME PreproductionInv, NEW p \in Procs, AudioPublish(p)
    PROVE  PreproductionInv'
<1> DEFINE s == proc[p].s
           t == proc[p].t
<1>1. /\ UNCHANGED <<request, rev, stages, cinput, review, runner, worker, left>>
      /\ proc[p].pc = "audio_publish" /\ Return(p)
      /\ staging' = staging \ {<<"audio", s>>} /\ packet' = [packet EXCEPT !["audio"][s] = t]
  BY DEF AudioPublish, Publish, files, handoff, At
<1>2. /\ s \in Sources /\ Knows(proc[p]) /\ t \in Candidates
      /\ proc[p].pc \in AudioLocked /\ packet["audio"][s] = Nothing
  BY <1>1, CommandIs DEF At, AudioSteps, AudioLocked, Knows, ImportKnows
<1>3. packet["qualification"][s] = Nothing /\ t # Nothing
  BY <1>2, EvidenceAssumption DEF PreproductionInv, BundlesBind
<1>4. /\ packet' \in [Packets -> [Sources -> MediaPacket \cup Candidates \cup QualificationBundle \cup {Nothing}]]
      /\ packet'["audio"][s] = t
      /\ \A r \in Sources \ {s} : packet'["audio"][r] = packet["audio"][r]
      /\ packet'["compiled"] = packet["compiled"] /\ packet'["director"] = packet["director"]
      /\ packet'["qualification"] = packet["qualification"]
  <2>1. "audio" \in Packets /\ {"compiled", "director", "qualification"} \subseteq Packets \ {"audio"}
    BY DEF Packets
  <2>2. t \in MediaPacket \cup Candidates \cup QualificationBundle \cup {Nothing}
    BY <1>2
  <2>3. /\ packet' \in [Packets -> [Sources -> MediaPacket \cup Candidates \cup QualificationBundle \cup {Nothing}]]
        /\ packet'["audio"][s] = t /\ \A r \in Sources \ {s} : packet'["audio"][r] = packet["audio"][r]
        /\ \A j \in Packets \ {"audio"} : packet'[j] = packet[j]
    BY <1>1, <1>2, <2>1, <2>2 DEF PreproductionInv, PreproductionTypeOK
  <2> QED
    BY <2>1, <2>3
<1>5. /\ proc' \in [Procs -> Command] /\ proc'[p] = Idle
      /\ \A q \in Procs \ {p} : proc'[q] = proc[q]
  BY <1>1, CommandIs, ReturnIs
<1>6. PreproductionTypeOK'
  BY <1>1, <1>4, <1>5 DEF PreproductionInv, PreproductionTypeOK
<1>7. ASSUME NEW q \in Procs PROVE Knows(proc[q])'
  <2>1. CASE q = p
    BY <1>5, <2>1, IdleFacts, IdleKnows
  <2>2. CASE q # p
    <3>1. Knows(proc[q]) /\ proc'[q] = proc[q] /\ ~Clash(proc[p], proc[q])
      BY <1>5, <2>2 DEF PreproductionInv, Exclusive
    <3>2. proc[q].pc \in AudioLocked => proc[q].s # s /\ proc[q].s \in Sources
      BY <1>2, <3>1 DEF Clash, Knows, AudioLocked
    <3>3. proc[q].pc \in QualificationSteps => proc[q].s # s /\ proc[q].s \in Sources
      BY <1>2, <3>1, EvidenceAssumption DEF Knows, ImportKnows, QualificationSteps
    <3>4. ImportKnows(proc[q])'
      BY <1>4, <3>1, <3>2, <3>3 DEF Knows, ImportKnows, BindsStage
    <3>5. AdvanceKnows(proc[q])' /\ HandoffKnows(proc[q])'
      BY <1>1, <1>4, <3>1 DEF Knows, AdvanceKnows, HandoffKnows
    <3> QED
      BY <3>1, <3>4, <3>5 DEF Knows
  <2> QED
    BY <2>1, <2>2
<1>8. StagesBind' /\ RunnersBind'
  BY <1>1, <1>4 DEF PreproductionInv, StagesBind, RunnersBind
<1>9. BundlesBind' /\ PacketsBindOneAdvance'
  BY <1>3, <1>4 DEF PreproductionInv, BundlesBind, PacketsBindOneAdvance
<1> QED
  BY <1>5, <1>6, <1>7, <1>8, <1>9, IdleFacts, StepKeeps

\* Declarations for an imported candidate, or the replay of a bundle.
LEMMA QualifyKeeps ==
    ASSUME PreproductionInv, NEW p \in Procs, NEW d \in Declarations, Qualify(p, d)
    PROVE  PreproductionInv'
<1> DEFINE s == request.src
           c == [Idle EXCEPT !.pc = "qualify_stage", !.s = s, !.t = d]
<1>1. /\ UNCHANGED <<request, rev, stages, cinput, review, packet, staging, runner, worker, left>>
      /\ ~AdvanceLock /\ AudioSnapshot(s) /\ packet["audio"][s] \in Candidates
      /\ \/ UNCHANGED proc
         \/ packet["qualification"][s] = Nothing /\ proc' = [proc EXCEPT ![p] = c]
  BY DEF Qualify, AudioPacketVerifies, files, handoff
<1>2. s \in Sources
  BY <1>1, SnapshotIs
<1>3. CASE UNCHANGED proc
  <2>1. PreproductionTypeOK' /\ StagesBind' /\ RunnersBind' /\ BundlesBind' /\ PacketsBindOneAdvance'
    BY <1>1, <1>3 DEF PreproductionInv, PreproductionTypeOK, StagesBind, RunnersBind, BundlesBind, PacketsBindOneAdvance
  <2>2. \A q \in Procs : Knows(proc[q])'
    BY <1>1, <1>3, KnowsFrame DEF PreproductionInv
  <2>3. \A q \in Procs \ {p} : ~Clash(proc'[p], proc[q])
    BY <1>3 DEF PreproductionInv, Exclusive
  <2> QED
    BY <1>3, <2>1, <2>2, <2>3, StepKeeps
<1>4. CASE packet["qualification"][s] = Nothing /\ proc' = [proc EXCEPT ![p] = c]
  <2>1. "qualify_stage" \in QualificationSteps /\ "qualify_stage" \in Steps
        /\ "qualify_stage" \notin ReadSteps \cup AudioSteps \cup AudioLocked
    BY StepsAre DEF QualificationSteps, ReadSteps, AudioSteps, AudioLocked
  <2>2. c \in Command /\ c.pc = "qualify_stage" /\ c.s = s /\ c.t = d
    BY <1>2, <2>1, IdleFacts DEF Command, Idle
  <2> HIDE DEF c
  <2>3. /\ proc' \in [Procs -> Command] /\ proc'[p] = c
        /\ \A q \in Procs \ {p} : proc'[q] = proc[q]
    BY <1>4, <2>2, CommandIs, BeginIs
  <2>4. PreproductionTypeOK'
    BY <1>1, <2>3 DEF PreproductionInv, PreproductionTypeOK
  <2>5. ImportKnows(c)
    BY <1>1, <1>4, <2>1, <2>2 DEF ImportKnows
  <2>6. Knows(c)
    BY <1>2, <2>1, <2>2, <2>5, ImportPlaces DEF Knows
  <2>7. \A q \in Procs \ {p} : ~Clash(c, proc[q])
    <3>1. \A q \in Procs : proc[q].pc \notin AdvanceLocked
      BY <1>1 DEF AdvanceLock, Held, AdvanceLocked
    <3> QED
      BY <2>1, <2>2, <3>1, ImportPlaces DEF Clash
  <2> QED
    BY <1>1, <2>3, <2>4, <2>6, <2>7, CommandKeeps
<1> QED
  BY <1>1, <1>3, <1>4

\* The bundle is published beside the audio packet it names.
LEMMA QualifyPublishKeeps ==
    ASSUME PreproductionInv, NEW p \in Procs, QualifyPublish(p)
    PROVE  PreproductionInv'
<1> DEFINE s == proc[p].s
           new == [declares |-> proc[p].t, candidate |-> packet["audio"][s]]
<1>1. /\ UNCHANGED <<request, rev, stages, cinput, review, runner, worker, left>>
      /\ proc[p].pc = "qualify_publish" /\ Return(p)
      /\ staging' = staging \ {<<"qualification", s>>}
      /\ packet' = [packet EXCEPT !["qualification"][s] = new]
  BY DEF QualifyPublish, Publish, Bundle, files, handoff, At
<1>2. /\ s \in Sources /\ Knows(proc[p]) /\ proc[p].pc \in AdvanceLocked /\ proc[p].t \in Declarations
      /\ packet["audio"][s] \in Candidates
  BY <1>1, CommandIs DEF At, QualificationSteps, AdvanceLocked, Knows, ImportKnows
<1>3. new \in QualificationBundle /\ new.candidate = packet["audio"][s] /\ packet["audio"][s] # Nothing
  BY <1>2, EvidenceAssumption DEF QualificationBundle
<1> HIDE DEF new
<1>4. /\ packet' \in [Packets -> [Sources -> MediaPacket \cup Candidates \cup QualificationBundle \cup {Nothing}]]
      /\ packet'["qualification"][s] = new
      /\ \A r \in Sources \ {s} : packet'["qualification"][r] = packet["qualification"][r]
      /\ packet'["compiled"] = packet["compiled"] /\ packet'["director"] = packet["director"]
      /\ packet'["audio"] = packet["audio"]
  <2>1. "qualification" \in Packets /\ {"compiled", "director", "audio"} \subseteq Packets \ {"qualification"}
    BY DEF Packets
  <2>2. new \in MediaPacket \cup Candidates \cup QualificationBundle \cup {Nothing}
    BY <1>3
  <2>3. /\ packet' \in [Packets -> [Sources -> MediaPacket \cup Candidates \cup QualificationBundle \cup {Nothing}]]
        /\ packet'["qualification"][s] = new
        /\ \A r \in Sources \ {s} : packet'["qualification"][r] = packet["qualification"][r]
        /\ \A j \in Packets \ {"qualification"} : packet'[j] = packet[j]
    BY <1>1, <1>2, <2>1, <2>2 DEF PreproductionInv, PreproductionTypeOK
  <2> QED
    BY <2>1, <2>3
<1>5. /\ proc' \in [Procs -> Command] /\ proc'[p] = Idle
      /\ \A q \in Procs \ {p} : proc'[q] = proc[q]
  BY <1>1, CommandIs, ReturnIs
<1>6. PreproductionTypeOK'
  BY <1>1, <1>4, <1>5 DEF PreproductionInv, PreproductionTypeOK
<1>7. ASSUME NEW q \in Procs PROVE Knows(proc[q])'
  <2>1. CASE q = p
    BY <1>5, <2>1, IdleFacts, IdleKnows
  <2>2. CASE q # p
    <3>1. Knows(proc[q]) /\ proc'[q] = proc[q] /\ ~Clash(proc[p], proc[q])
      BY <1>5, <2>2 DEF PreproductionInv, Exclusive
    <3>2. proc[q].pc \notin QualificationSteps
      BY <1>2, <3>1 DEF Clash, AdvanceLocked
    <3>3. ImportKnows(proc[q])'
      BY <1>4, <3>1, <3>2 DEF Knows, ImportKnows, BindsStage
    <3>4. AdvanceKnows(proc[q])' /\ HandoffKnows(proc[q])'
      BY <1>1, <1>4, <3>1 DEF Knows, AdvanceKnows, HandoffKnows
    <3> QED
      BY <3>1, <3>3, <3>4 DEF Knows
  <2> QED
    BY <2>1, <2>2
<1>8. StagesBind' /\ RunnersBind'
  BY <1>1, <1>4 DEF PreproductionInv, StagesBind, RunnersBind
<1>9. BundlesBind' /\ PacketsBindOneAdvance'
  BY <1>2, <1>3, <1>4 DEF PreproductionInv, BundlesBind, PacketsBindOneAdvance
<1> QED
  BY <1>5, <1>6, <1>7, <1>8, <1>9, IdleFacts, StepKeeps

-----------------------------------------------------------------------------
(* A review, a command that stops, and every step *)

\* Only the review of a revision is added, or nothing happens.
LEMMA ReviewKeeps ==
    ASSUME PreproductionInv, review' \subseteq Sources,
           UNCHANGED <<request, rev, stages, cinput, packet, staging, runner, worker, proc, left>>
    PROVE  PreproductionInv'
<1>1. PreproductionTypeOK' /\ StagesBind' /\ RunnersBind' /\ BundlesBind' /\ PacketsBindOneAdvance'
  BY DEF PreproductionInv, PreproductionTypeOK, StagesBind, RunnersBind, BundlesBind, PacketsBindOneAdvance
<1>2. \A q \in Procs : Knows(proc[q])'
  BY KnowsFrame DEF PreproductionInv
<1>3. Exclusive'
  BY DEF PreproductionInv, Exclusive, Clash
<1> QED
  BY <1>1, <1>2, <1>3 DEF PreproductionInv

\* A command raises or dies where it is, and may tear the file it was writing.
LEMMA StopKeeps ==
    ASSUME PreproductionInv, NEW p \in Procs, Stop(p)
    PROVE  PreproductionInv'
<1>1. /\ UNCHANGED <<request, stages, cinput, review, packet, staging, runner, worker>>
      /\ Return(p) /\ ~At(p, "idle") /\ rev' \in {rev, TornBy(p)}
  BY DEF Stop, handoff
<1>2. left' \in [{"advances", "faults"} -> Nat]
  BY DEF PreproductionInv, PreproductionTypeOK, Stop, Spend
<1>3. rev \in [Sources -> Revision] /\ Knows(proc[p])
  BY DEF PreproductionInv, PreproductionTypeOK
<1>4. TornBy(p) \in [Sources -> Revision]
  <2>1. CASE At(p, "source")
    <3>1. proc[p].s \in Sources /\ rev[proc[p].s] \in Revision
      BY <1>3, <2>1, CommandIs DEF At
    <3>2. TornBy(p) = [rev EXCEPT ![proc[p].s] = [rev[proc[p].s] EXCEPT !.source = "torn"]]
      BY <2>1 DEF TornBy, At
    <3>3. [rev[proc[p].s] EXCEPT !.source = "torn"] \in Revision
      BY <3>1 DEF Revision
    <3> QED
      BY <1>3, <3>1, <3>2, <3>3
  <2>2. CASE proc[p].pc \in {"scenes", "timeline", "audio"}
    <3>1. proc[p].pc \in Derived /\ proc[p].pc \in AdvanceSteps
      BY <2>2 DEF Derived, AdvanceSteps
    <3>2. proc[p].s \in Sources /\ proc[p].t \in Timelines
      BY <1>3, <3>1, AdvancePlaces DEF Knows, AdvanceKnows
    <3>3. TornBy(p) = WithFile(proc[p].s, proc[p].pc, proc[p].t, Torn)
      BY <2>2 DEF TornBy, At
    <3> QED
      BY <1>3, <3>1, <3>2, <3>3, WithFileIs DEF Content
  <2>3. CASE ~At(p, "source") /\ proc[p].pc \notin {"scenes", "timeline", "audio"}
    BY <1>3, <2>3 DEF TornBy
  <2> QED
    BY <2>1, <2>2, <2>3
<1>5. proc' \in [Procs -> Command]
  BY <1>1, CommandIs, ReturnIs
<1>6. PreproductionTypeOK'
  BY <1>1, <1>2, <1>3, <1>4, <1>5 DEF PreproductionInv, PreproductionTypeOK
<1> QED
  BY <1>1, <1>6, ReturnKeeps

\* Every step of every command keeps the invariant.
LEMMA PreproductionNextKeeps ==
    ASSUME PreproductionInv, [PreproductionNext]_vars
    PROVE  PreproductionInv'
<1>1. ASSUME NEW p \in Procs, StartPreproduction(p) \/ OpenRequest(p) \/ Stop(p) PROVE PreproductionInv'
  BY <1>1, StartPreproductionKeeps, OpenRequestKeeps, StopKeeps
<1>2. ASSUME NEW p \in Procs, Advance(p) PROVE PreproductionInv'
  BY <1>2, AdvanceBeginKeeps, WriteSourceKeeps, WriteScriptKeeps, WriteDerivedKeeps, SaveStagesKeeps,
     SaveCompilationInputKeeps, SaveRequestKeeps DEF Advance
<1>3. ASSUME NEW p \in Procs, TestHandoff(p) PROVE PreproductionInv'
  BY <1>3, CompileBeginKeeps, CompileLockKeeps, CopyKeeps, PublishCompiledKeeps, StartCompiledKeeps,
     RunLockKeeps, BuildRunnerKeeps, EnqueueKeeps DEF TestHandoff
<1>4. ASSUME NEW p \in Procs, RealImports(p) PROVE PreproductionInv'
  BY <1>4, ImportBeginKeeps, RereadKeeps, ReadEvidenceKeeps, CheckEvidenceKeeps, ImportLockKeeps,
     ImportPublishKeeps, AudioImportKeeps, AudioLockKeeps, StageKeeps, AudioPublishKeeps, QualifyKeeps,
     QualifyPublishKeeps DEF RealImports
<1>5. ASSUME NEW s \in Sources, PlaceReview(s) PROVE PreproductionInv'
  <2>1. /\ UNCHANGED <<request, rev, stages, cinput, packet, staging, runner, worker, proc, left>>
        /\ review' \subseteq Sources
    BY <1>5 DEF PlaceReview, files, handoff, PreproductionInv, PreproductionTypeOK
  <2> QED
    BY <2>1, ReviewKeeps
<1>6. ASSUME NEW s \in Sources, EnqueueCompiled(s) \/ WorkerFinds(s) \/ WorkerResumes(s) PROVE PreproductionInv'
  BY <1>6, WorkerKeeps
<1>7. ASSUME UNCHANGED vars PROVE PreproductionInv'
  <2>1. /\ UNCHANGED <<request, rev, stages, cinput, packet, staging, runner, worker, proc, left>>
        /\ review' \subseteq Sources
    BY <1>7 DEF vars, files, handoff, PreproductionInv, PreproductionTypeOK
  <2> QED
    BY <2>1, ReviewKeeps
<1> QED
  BY <1>1, <1>2, <1>3, <1>4, <1>5, <1>6, <1>7 DEF PreproductionNext

\* Before the first request there is nothing to know.
LEMMA PreproductionInitHolds ==
    ASSUME PreproductionInit
    PROVE  PreproductionInv
<1>1. Blank \in [Derived -> Content] /\ Idle \in Command
  BY IdleFacts DEF Blank, Content
<1>2. rev \in [Sources -> Revision]
  BY DEF PreproductionInit, Revision, Content
<1>3. packet \in [Packets -> [Sources -> MediaPacket \cup Candidates \cup QualificationBundle \cup {Nothing}]]
      /\ \A k \in Packets, s \in Sources : packet[k][s] = Nothing
  BY DEF PreproductionInit
<1>4. PreproductionTypeOK
  <2>1. /\ runner \in [Sources -> [stage : {"none", "made", "copied", "harness", "started"}, inputs : [Derived -> Content]]]
        /\ proc \in [Procs -> Command]
    BY <1>1 DEF PreproductionInit
  <2>2. /\ left \in [{"advances", "faults"} -> Nat]
        /\ request \in [kind : {"none", "opened", "ready"}, src : Sources \cup {Nothing},
                        status : {"BLOCKED", "TTS_REQUIRED", "PREPRODUCTION_VALIDATED"}]
    BY EvidenceAssumption DEF PreproductionInit
  <2>3. /\ stages \in [Sources -> [script : BOOLEAN, board : Timelines \cup {Nothing}]]
        /\ cinput \in [Sources -> Timelines \cup {Nothing}]
        /\ review = {} /\ staging = {}
        /\ worker = [row |-> FALSE, found |-> {}, resumed |-> {}]
    BY DEF PreproductionInit
  <2> QED
    BY <1>2, <1>3, <2>1, <2>2, <2>3 DEF PreproductionTypeOK
<1>5. \A s \in Sources : /\ packet["director"][s] = Nothing /\ packet["compiled"][s] = Nothing
                         /\ packet["qualification"][s] = Nothing
  BY <1>3 DEF Packets
<1>6. (\A p \in Procs : Knows(proc[p])) /\ Exclusive
  BY IdleFacts DEF PreproductionInit, Exclusive
<1>7. StagesBind /\ RunnersBind /\ BundlesBind /\ PacketsBindOneAdvance
  BY <1>5 DEF PreproductionInit, StagesBind, RunnersBind, BundlesBind, PacketsBindOneAdvance
<1> QED
  BY <1>4, <1>6, <1>7 DEF PreproductionInv

\* The inductive invariant holds of every behaviour.
THEOREM PreproductionInvariant == PreproductionSpec => []PreproductionInv
BY PreproductionInitHolds, PreproductionNextKeeps, PTL DEF PreproductionSpec

\* A Director packet holds the files of the one advance its receipt names, although advance may
\* rewrite them while they are read, and a bundle names the audio candidate beside it
\* (import_real_preproduction_handoff, import_audio_qualification_evidence).
THEOREM PreproductionPacketsBind == PreproductionSpec => []PacketsBindOneAdvance
<1>1. PreproductionInv => PacketsBindOneAdvance
  BY DEF PreproductionInv
<1> QED
  BY <1>1, PreproductionInvariant, PTL

\* The worker resumes at most one runner of a request, and one whose document was persisted over
\* the published packet of a TEST revision, whoever raced to start or enqueue it and wherever a
\* start died (start_compiled, run_preproduction_test, enqueue, _fixture_worker_handler).
THEOREM PreproductionHandsOverPackets == PreproductionSpec => []WorkerRunsOnePacket
<1>1. PreproductionInv => WorkerRunsOnePacket
  BY DEF PreproductionInv, PreproductionTypeOK, RunnersBind, WorkerRunsOnePacket
<1> QED
  BY <1>1, PreproductionInvariant, PTL

\* What PublishedIsFinal says of one step.
StaysPublished ==
    /\ \A k \in Packets, s \in Sources : packet[k][s] # Nothing => packet'[k][s] = packet[k][s]
    /\ \A s \in Sources : runner[s].stage = "started" => runner'[s] = runner[s]

\* A packet is published where there is none, or is the one that is there.
LEMMA PublishesOnce ==
    ASSUME PreproductionInv, NEW k \in Packets, NEW s \in Sources, NEW v,
           packet' = [packet EXCEPT ![k][s] = v], packet[k][s] # Nothing => packet[k][s] = v, UNCHANGED runner
    PROVE  StaysPublished
BY DEF PreproductionInv, PreproductionTypeOK, StaysPublished

\* The steps that publish a packet or a runner.
LEMMA PublishersStay ==
    ASSUME PreproductionInv, NEW p \in Procs,
           PublishCompiled(p) \/ BuildRunner(p) \/ ImportPublish(p) \/ AudioPublish(p) \/ QualifyPublish(p)
    PROVE  StaysPublished
<1>0. Knows(proc[p]) /\ Packets = {"director", "compiled", "audio", "qualification"}
  BY DEF PreproductionInv, Packets
<1>1. CASE PublishCompiled(p)
  <2>1. /\ proc[p].pc = "publish_compiled" /\ UNCHANGED runner
        /\ packet' = [packet EXCEPT !["compiled"][proc[p].s] = [receipt |-> proc[p].board, bytes |-> proc[p].raw]]
    BY <1>1 DEF PublishCompiled, handoff, At
  <2>2. proc[p].s \in Sources /\ packet["compiled"][proc[p].s] = Nothing
    BY <1>0, <2>1 DEF Knows, HandoffKnows, Copying
  <2> QED
    BY <1>0, <2>1, <2>2, PublishesOnce
<1>2. CASE BuildRunner(p)
  <2>1. /\ UNCHANGED packet /\ \E row : runner' = [runner EXCEPT ![proc[p].s] = row]
        /\ proc[p].pc \in DOMAIN NextStart /\ (At(p, "mkdir") => NamespaceFree(proc[p].s))
    BY <1>2 DEF BuildRunner
  <2>2. proc[p].s \in Sources /\ runner[proc[p].s].stage # "started"
    BY <2>1, BuilderIsAlone
  <2> QED
    BY <2>1, <2>2 DEF PreproductionInv, PreproductionTypeOK, StaysPublished
<1>3. CASE ImportPublish(p)
  <2> DEFINE new == [receipt |-> proc[p].board, bytes |-> PacketBytes(p)]
  <2>1. /\ proc[p].pc = "import_publish" /\ UNCHANGED runner
        /\ packet["director"][proc[p].s] # Nothing => packet["director"][proc[p].s] = new
        /\ packet' = [packet EXCEPT !["director"][proc[p].s] = new]
    BY <1>3 DEF ImportPublish, handoff, At
  <2>2. proc[p].s \in Sources
    BY <1>0, <2>1 DEF Knows
  <2> QED
    BY <1>0, <2>1, <2>2, PublishesOnce
<1>4. CASE AudioPublish(p)
  <2>1. /\ proc[p].pc = "audio_publish" /\ UNCHANGED runner
        /\ packet' = [packet EXCEPT !["audio"][proc[p].s] = proc[p].t]
    BY <1>4 DEF AudioPublish, Publish, handoff, At
  <2>2. proc[p].s \in Sources /\ packet["audio"][proc[p].s] = Nothing
    BY <1>0, <2>1 DEF Knows, ImportKnows, AudioLocked
  <2> QED
    BY <1>0, <2>1, <2>2, PublishesOnce
<1>5. CASE QualifyPublish(p)
  <2>1. /\ proc[p].pc = "qualify_publish" /\ UNCHANGED runner
        /\ packet' = [packet EXCEPT !["qualification"][proc[p].s] = Bundle(p)]
    BY <1>5 DEF QualifyPublish, Publish, handoff, At
  <2>2. proc[p].s \in Sources /\ packet["qualification"][proc[p].s] = Nothing
    BY <1>0, <2>1 DEF Knows, ImportKnows, QualificationSteps
  <2> QED
    BY <1>0, <2>1, <2>2, PublishesOnce
<1> QED
  BY <1>1, <1>2, <1>3, <1>4, <1>5

\* No importer or compiler replaces a published packet, and no start the inputs of a persisted
\* runner (existing_packet, existing, the starts' mkdir).
THEOREM PreproductionPublishedIsFinal == PreproductionSpec => PublishedIsFinal
<1>1. PreproductionInv /\ [PreproductionNext]_vars => [StaysPublished]_vars
  <2> SUFFICES ASSUME PreproductionInv, PreproductionNext PROVE StaysPublished
    OBVIOUS
  <2>1. ASSUME NEW p \in Procs,
               PublishCompiled(p) \/ BuildRunner(p) \/ ImportPublish(p) \/ AudioPublish(p) \/ QualifyPublish(p)
        PROVE  StaysPublished
    BY <2>1, PublishersStay
  <2>2. ASSUME UNCHANGED <<packet, runner>> PROVE StaysPublished
    BY <2>2 DEF StaysPublished
  <2>3. ASSUME NEW p \in Procs, StartPreproduction(p) \/ OpenRequest(p) \/ Stop(p) \/ Advance(p)
        PROVE  UNCHANGED <<packet, runner>>
    BY <2>3 DEF StartPreproduction, OpenRequest, Stop, Advance, AdvanceBegin, WriteSource, WriteScript, WriteDerived,
       SaveStages, SaveCompilationInput, SaveRequest, handoff
  <2>4. ASSUME NEW p \in Procs, TestHandoff(p) PROVE UNCHANGED <<packet, runner>> \/ PublishCompiled(p) \/ BuildRunner(p)
    BY <2>4 DEF TestHandoff, CompileBegin, CompileLock, CopyAudio, CopyScenes, StartCompiled, RunLock, Enqueue, handoff
  <2>5. ASSUME NEW p \in Procs, RealImports(p)
        PROVE  UNCHANGED <<packet, runner>> \/ ImportPublish(p) \/ AudioPublish(p) \/ QualifyPublish(p)
    BY <2>5 DEF RealImports, ImportBegin, Reread, ReadEvidence, CheckEvidence, ImportLock, AudioImport, AudioLock,
       AudioStage, QualifyStage, Stage, Qualify, handoff
  <2>6. ASSUME NEW s \in Sources, PlaceReview(s) \/ EnqueueCompiled(s) \/ WorkerFinds(s) \/ WorkerResumes(s)
        PROVE  UNCHANGED <<packet, runner>>
    BY <2>6 DEF PlaceReview, EnqueueCompiled, WorkerFinds, WorkerResumes, handoff
  <2> QED
    BY <2>1, <2>2, <2>3, <2>4, <2>5, <2>6 DEF PreproductionNext
<1> QED
  BY <1>1, PreproductionInvariant, PTL DEF PreproductionSpec, PublishedIsFinal, StaysPublished
=============================================================================
