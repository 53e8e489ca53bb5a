------------------------- MODULE EpisodeWorkerProofs -------------------------
(***************************************************************************)
(* The durable queue, for any number of hosts, turns and episodes.         *)
(*                                                                         *)
(* Row and lease live in two databases, so a claim may commit under a      *)
(* token that was replaced after its check.  What makes this harmless is   *)
(* the writer lock: a claim that is checked is newer than every turn that  *)
(* handles the episode, and none can start to handle it before the claim   *)
(* has committed.                                                          *)
(***************************************************************************)
EXTENDS EpisodeWorker, TLAPS

\* The lock and the approval command, as WorkerTypeOK has them.
Locks == [who : Turns \cup {Nobody, Approver}, at : {"free", "marked", "checked", "committed"}]
Calls == [pc : {"off", "leased", "recorded", "waking", "woken"}, e : Episodes, tok : Nat, gate : Gates]

\* The turns that act on the claimed row.
Working == {"handling", "draining", "outcome"}

\* Tokens are fresh: the current one is the newest, no two turns share one, and
\* no row is ahead of them.
TokensFresh ==
    /\ \A e \in Episodes : token[e] \in {0, last[e]} /\ task[e].epoch <= last[e]
    /\ \A t \in Turns : turn[t].tok <= last[turn[t].e]
    /\ \A t, u \in Turns :
          t # u /\ turn[t].e = turn[u].e /\ turn[t].tok = turn[u].tok => turn[t].tok = 0
    /\ \A t \in Turns : turn[t].pc \in Working \cup {"claim"} => turn[t].tok # 0

\* A claim that passed its check is newer than every turn at work on its row.
NewestClaim(w) ==
    /\ task[turn[w].e].epoch <= turn[w].tok
    /\ \A u \in Turns \ {w} :
          turn[u].e = turn[w].e /\ turn[u].pc \in Working => turn[u].tok < turn[w].tok

\* The writer lock: its holder, a turn or the approval command, stays in its
\* mutation, behind the marker.
TurnWrites ==
    /\ writer.who \in Turns /\ writer.at \in {"marked", "checked", "committed"}
    /\ turn[writer.who].pc \in WriterPCs /\ snapshot.status = "WRITER_IN_PROGRESS"
    /\ turn[writer.who].pc = "claim" =>
          /\ writer.at = "checked" => NewestClaim(writer.who)
          /\ writer.at = "committed" => RowOfEpoch(turn[writer.who].e, turn[writer.who].tok)

ApproverWrites ==
    /\ writer.who = Approver /\ approval.pc = "waking"
    /\ snapshot.status = "WRITER_IN_PROGRESS"

WriterLocked == writer = Unlocked \/ TurnWrites \/ ApproverWrites

\* A turn at work under the current token, live or not, owns the row.
WorkersOwn ==
    \A t \in Turns : turn[t].pc \in Working /\ token[turn[t].e] = turn[t].tok
                        => RowOfEpoch(turn[t].e, turn[t].tok)

\* An approval that is about to wake the task has been recorded.
RecordedIsApproved == approval.pc \in {"recorded", "waking"} => Approved(approval.e, approval.gate)

WorkerInv ==
    /\ WorkerTypeOK
    /\ TokensFresh /\ WriterLocked /\ WorkersOwn
    /\ SnapshotNeverLies /\ RecordedIsApproved

-----------------------------------------------------------------------------
(* Lemmas about the operators *)

\* Moving a row to the end keeps the order a sequence of episodes.
LEMMA TouchedType ==
    ASSUME order \in Seq(Episodes), NEW e \in Episodes
    PROVE  Touched(e) \in Seq(Episodes)
<1> DEFINE at == CHOOSE i \in DOMAIN order : order[i] = e
           others == IF \E i \in DOMAIN order : order[i] = e
                     THEN SubSeq(order, 1, at - 1) \o SubSeq(order, at + 1, Len(order)) ELSE order
<1>1. CASE \E i \in DOMAIN order : order[i] = e
  <2>1. at \in DOMAIN order
    BY <1>1
  <2>2. at \in 1..Len(order)
    BY <2>1
  <2>3. SubSeq(order, 1, at - 1) \in Seq(Episodes) /\ SubSeq(order, at + 1, Len(order)) \in Seq(Episodes)
    <3>1. ASSUME NEW i \in 1..Len(order)
          PROVE  SubSeq(order, 1, i - 1) \in Seq(Episodes)
      OBVIOUS
    <3>2. ASSUME NEW i \in 1..Len(order)
          PROVE  SubSeq(order, i + 1, Len(order)) \in Seq(Episodes)
      OBVIOUS
    <3> HIDE DEF at
    <3> QED
      BY <2>2, <3>1, <3>2
  <2>4. others = SubSeq(order, 1, at - 1) \o SubSeq(order, at + 1, Len(order))
    BY <1>1
  <2>5. others \in Seq(Episodes)
    BY <2>3, <2>4
  <2> HIDE DEF others
  <2> QED
    BY <2>5 DEF Touched, others
<1>2. CASE ~ \E i \in DOMAIN order : order[i] = e
  <2>1. others \in Seq(Episodes)
    BY <1>2
  <2> HIDE DEF others
  <2> QED
    BY <2>1 DEF Touched, others
<1> QED
  BY <1>1, <1>2

\* The names of a lock, a row and a turn that are not in use.
LEMMA IdleFacts ==
    /\ Unlocked \in Locks
    /\ NoTask \in Row /\ NoTask.status = "NONE"
    /\ \A e \in Episodes : Idle(e) \in Turn /\ Idle(e).pc = "idle" /\ Idle(e).tok = 0 /\ Idle(e).e = e
    /\ \A e \in Episodes : [Idle(e) EXCEPT !.pc = "picked"] \in Turn
    /\ \A e \in Episodes : /\ [Idle(e) EXCEPT !.pc = "picked"].pc = "picked"
                           /\ [Idle(e) EXCEPT !.pc = "picked"].tok = 0
<1>1. Unlocked \in Locks
  BY DEF Unlocked, Locks
<1>2. NoTask \in Row /\ NoTask.status = "NONE"
  BY DEF NoTask, Row, Statuses, Actions
<1>3. ASSUME NEW e \in Episodes
      PROVE  /\ Idle(e) \in Turn /\ Idle(e).pc = "idle" /\ Idle(e).tok = 0 /\ Idle(e).e = e
             /\ [Idle(e) EXCEPT !.pc = "picked"] \in Turn
             /\ [Idle(e) EXCEPT !.pc = "picked"].pc = "picked"
             /\ [Idle(e) EXCEPT !.pc = "picked"].tok = 0
  BY DEF Idle, Turn, AwaitPCs, BlockingPCs, Actions
<1> QED
  BY <1>1, <1>2, <1>3

\* What a turn record may become when it keeps its episode and its token.
LEMMA TurnFacts ==
    ASSUME NEW r \in Turn, NEW l \in AwaitPCs \cup BlockingPCs
    PROVE  /\ [r EXCEPT !.pc = l] \in Turn
           /\ [r EXCEPT !.pc = l].pc = l /\ [r EXCEPT !.pc = l].e = r.e /\ [r EXCEPT !.pc = l].tok = r.tok
           /\ [r EXCEPT !.pc = l, !.exit = "raised"] \in Turn
           /\ [r EXCEPT !.pc = l, !.exit = "raised"].pc = l
           /\ [r EXCEPT !.pc = l, !.exit = "raised"].e = r.e
           /\ [r EXCEPT !.pc = l, !.exit = "raised"].tok = r.tok
BY DEF Turn

-----------------------------------------------------------------------------
(* The writer lock *)

\* The lock of a turn.
LEMMA HolderFacts ==
    ASSUME WorkerInv, NEW t \in Turns, writer.who = t
    PROVE  /\ turn[t].pc \in WriterPCs /\ snapshot.status = "WRITER_IN_PROGRESS"
           /\ turn[t].pc = "claim" => /\ writer.at = "checked" => NewestClaim(t)
                                      /\ writer.at = "committed" => RowOfEpoch(turn[t].e, turn[t].tok)
<1>1. writer # Unlocked /\ writer.who # Approver
  BY WorkerConstants DEF Unlocked
<1> QED
  BY <1>1 DEF WorkerInv, WriterLocked, TurnWrites, ApproverWrites

\* The lock of the approval command.
LEMMA ApproverFacts ==
    ASSUME WorkerInv, writer.who = Approver
    PROVE  approval.pc = "waking" /\ snapshot.status = "WRITER_IN_PROGRESS"
<1>1. writer # Unlocked /\ writer.who \notin Turns
  BY WorkerConstants DEF Unlocked
<1> QED
  BY <1>1 DEF WorkerInv, WriterLocked, TurnWrites, ApproverWrites

\* A lock that is held, by a turn or by the approval command, is not free.
LEMMA LockFacts ==
    ASSUME NEW who \in Turns \cup {Approver}, NEW at \in {"marked", "checked", "committed"}
    PROVE  /\ [who |-> who, at |-> at] # Unlocked
           /\ [who |-> who, at |-> at].who = who /\ [who |-> who, at |-> at].at = at
           /\ [who |-> who, at |-> at] \in Locks
<1>1. [who |-> who, at |-> at].who = who /\ Unlocked.who = Nobody
  BY DEF Unlocked
<1> QED
  BY <1>1, WorkerConstants DEF Locks

-----------------------------------------------------------------------------
(* Steps that write no row *)

\* A turn that gains nothing: it keeps its episode and its token and starts
\* neither a claim nor the work, or it has no token.
Calm(u) ==
    \/ /\ turn'[u].e = turn[u].e /\ turn'[u].tok = turn[u].tok
       /\ turn'[u].pc \in Working => turn[u].pc \in Working
       /\ turn'[u].pc = "claim" => turn[u].pc = "claim"
    \/ turn'[u].tok = 0 /\ turn'[u].pc \notin Working \cup {"claim"}

\* The lock is freed, or its holder stays where it is.
LockCalm ==
    \/ writer' = Unlocked
    \/ /\ writer' = writer
       /\ writer.who \in Turns => turn'[writer.who] = turn[writer.who]
       /\ writer.who = Approver => approval' = approval

\* Steps that write no row and grant no token keep the invariant.
LEMMA QuietKeeps ==
    ASSUME WorkerInv, UNCHANGED <<task, order, snapshot, last>>,
           token' \in [Episodes -> Nat], \A e \in Episodes : token'[e] \in {token[e], 0},
           live' \subseteq Episodes,
           turn' \in [Turns -> Turn], \A u \in Turns : Calm(u), LockCalm,
           host' \in [Hosts -> {"serving", "ended", "closing", "down"}],
           phase' \in [Episodes -> Phases],
           approval' \in Calls,
           RecordedIsApproved', restarts' \in 0..MaxRestarts
    PROVE  WorkerInv'
<1>0. /\ \A t \in Turns : turn[t] \in Turn /\ turn[t].e \in Episodes /\ turn[t].tok \in Nat
      /\ \A t \in Turns : turn'[t] \in Turn /\ turn'[t].e \in Episodes /\ turn'[t].tok \in Nat
      /\ \A e \in Episodes : last[e] \in Nat /\ token[e] \in Nat /\ task[e].epoch \in Nat
  BY DEF WorkerInv, WorkerTypeOK, FencedTypeOK, Turn, Row
<1>1. TokensFresh'
  <2>1. \A e \in Episodes : token'[e] \in {0, last'[e]} /\ task'[e].epoch <= last'[e]
    BY DEF WorkerInv, TokensFresh
  <2>2. \A t \in Turns : turn'[t].tok <= last'[turn'[t].e]
    BY <1>0 DEF WorkerInv, TokensFresh, Calm
  <2>3. \A t, u \in Turns :
           t # u /\ turn'[t].e = turn'[u].e /\ turn'[t].tok = turn'[u].tok => turn'[t].tok = 0
    BY DEF WorkerInv, TokensFresh, Calm
  <2>4. \A t \in Turns : turn'[t].pc \in Working \cup {"claim"} => turn'[t].tok # 0
    BY DEF WorkerInv, TokensFresh, Calm
  <2> QED
    BY <2>1, <2>2, <2>3, <2>4 DEF TokensFresh
<1>2. WriterLocked'
  <2>1. CASE writer' = Unlocked
    BY <2>1 DEF WriterLocked
  <2>2. CASE writer' = writer /\ TurnWrites /\ turn'[writer.who] = turn[writer.who]
    <3>1. NewestClaim(writer.who) /\ writer.who \in Turns => NewestClaim(writer.who)'
      BY <1>0, <2>2 DEF NewestClaim, Calm
    <3> QED
      BY <2>2, <3>1 DEF WriterLocked, TurnWrites, RowOfEpoch
  <2>3. CASE writer' = writer /\ writer = Unlocked
    BY <2>3 DEF WriterLocked
  <2>4. CASE writer' = writer /\ ApproverWrites /\ approval' = approval
    BY <2>4 DEF WriterLocked, ApproverWrites
  <2> QED
    BY <2>1, <2>2, <2>3, <2>4 DEF WorkerInv, WriterLocked, LockCalm, TurnWrites, ApproverWrites
<1>3. WorkersOwn'
  <2> SUFFICES ASSUME NEW t \in Turns, turn'[t].pc \in Working, token'[turn'[t].e] = turn'[t].tok
               PROVE  RowOfEpoch(turn[t].e, turn[t].tok)'
    BY DEF WorkersOwn
  <2>1. turn'[t].e = turn[t].e /\ turn'[t].tok = turn[t].tok /\ turn[t].pc \in Working
    BY DEF Calm
  <2>2. turn[t].tok # 0
    BY <2>1 DEF WorkerInv, TokensFresh
  <2>3. token[turn[t].e] = turn[t].tok
    BY <1>0, <2>1, <2>2
  <2> QED
    BY <2>1, <2>3 DEF WorkerInv, WorkersOwn, RowOfEpoch
<1>4. SnapshotNeverLies'
  BY DEF WorkerInv, SnapshotNeverLies, Readable
<1>5. WorkerTypeOK'
  BY IdleFacts DEF WorkerInv, WorkerTypeOK, FencedTypeOK, LockCalm, Locks, Calls
<1> QED
  BY <1>1, <1>2, <1>3, <1>4, <1>5 DEF WorkerInv

\* A turn that moves outside a queue mutation, or whose mutation raised.
LEMMA TurnMoves ==
    ASSUME WorkerInv, NEW t \in Turns, NEW r \in Turn, turn' = [turn EXCEPT ![t] = r],
           \/ /\ r.e = turn[t].e /\ r.tok = turn[t].tok
              /\ r.pc \in Working => turn[t].pc \in Working
              /\ r.pc # "claim"
           \/ r.tok = 0 /\ r.pc \notin Working \cup {"claim"},
           \/ writer' = Unlocked
           \/ UNCHANGED writer /\ turn[t].pc \notin WriterPCs,
           UNCHANGED <<task, order, snapshot, approval, host, last>>,
           token' \in [Episodes -> Nat], \A e \in Episodes : token'[e] \in {token[e], 0},
           live' \subseteq Episodes, phase' \in [Episodes -> Phases],
           \A e \in Episodes : phase'[e] = phase[e] \/ phase[e] = "PRODUCING",
           restarts' \in 0..MaxRestarts
    PROVE  WorkerInv'
<1>1. turn' \in [Turns -> Turn] /\ turn'[t] = r /\ \A u \in Turns \ {t} : turn'[u] = turn[u]
  BY DEF WorkerInv, WorkerTypeOK
<1>2. \A u \in Turns : Calm(u)
  BY <1>1 DEF Calm
<1>3. LockCalm
  BY <1>1, HolderFacts DEF LockCalm
<1>4. RecordedIsApproved'
  BY DEF WorkerInv, WorkerTypeOK, RecordedIsApproved, Approved
<1> QED
  BY <1>1, <1>2, <1>3, <1>4, QuietKeeps DEF WorkerInv, WorkerTypeOK, Calls

\* The variables that a step leaves alone, in the form TurnMoves wants them.
LEMMA StillTypes ==
    ASSUME WorkerInv
    PROVE  /\ token \in [Episodes -> Nat] /\ live \subseteq Episodes /\ last \in [Episodes -> Nat]
           /\ phase \in [Episodes -> Phases] /\ restarts \in 0..MaxRestarts
           /\ writer \in Locks /\ approval \in Calls
           /\ \A t \in Turns : /\ turn[t] \in Turn /\ turn[t].e \in Episodes /\ turn[t].tok \in Nat
                               /\ turn[t].pc \in AwaitPCs \cup BlockingPCs
                               /\ turn[t].act \in Actions /\ turn[t].exit \in {"idle", "raised"}
BY DEF WorkerInv, WorkerTypeOK, FencedTypeOK, Turn, Locks, Calls

\* A turn that goes elsewhere, and perhaps raises, changing nothing else.
LEMMA GoesKeeps ==
    ASSUME WorkerInv, NEW t \in Turns, NEW l \in AwaitPCs \cup BlockingPCs,
           l \in Working => turn[t].pc \in Working, l # "claim",
           \/ turn' = [turn EXCEPT ![t].pc = l]
           \/ turn' = [turn EXCEPT ![t].pc = l, ![t].exit = "raised"],
           \/ writer' = Unlocked
           \/ UNCHANGED writer /\ turn[t].pc \notin WriterPCs,
           UNCHANGED <<task, order, snapshot, approval, host, last, phase>>,
           token' \in [Episodes -> Nat], \A e \in Episodes : token'[e] \in {token[e], 0},
           live' \subseteq Episodes, restarts' \in 0..MaxRestarts
    PROVE  WorkerInv'
<1>1. turn[t] \in Turn /\ phase' \in [Episodes -> Phases]
  BY StillTypes
<1>2. CASE turn' = [turn EXCEPT ![t].pc = l]
  <2> DEFINE r == [turn[t] EXCEPT !.pc = l]
  <2>1. turn' = [turn EXCEPT ![t] = r]
    BY <1>1, <1>2 DEF WorkerInv, WorkerTypeOK
  <2>2. r \in Turn /\ r.pc = l /\ r.e = turn[t].e /\ r.tok = turn[t].tok
    BY <1>1, TurnFacts
  <2> HIDE DEF r
  <2> QED
    BY <1>1, <2>1, <2>2, TurnMoves
<1>3. CASE turn' = [turn EXCEPT ![t].pc = l, ![t].exit = "raised"]
  <2> DEFINE r == [turn[t] EXCEPT !.pc = l, !.exit = "raised"]
  <2>1. turn' = [turn EXCEPT ![t] = r]
    BY <1>1, <1>3 DEF WorkerInv, WorkerTypeOK
  <2>2. r \in Turn /\ r.pc = l /\ r.e = turn[t].e /\ r.tok = turn[t].tok
    BY <1>1, TurnFacts
  <2> HIDE DEF r
  <2> QED
    BY <1>1, <2>1, <2>2, TurnMoves
<1> QED
  BY <1>2, <1>3

\* next_pending() names an episode of the queue.
LEMMA PickKeeps ==
    ASSUME WorkerInv, NEW t \in Turns, Pick(t)
    PROVE  WorkerInv'
<1>1. PICK i \in Eligible : turn' = [turn EXCEPT ![t] = [Idle(order[i]) EXCEPT !.pc = "picked"]]
  BY DEF Pick
<1>2. order[i] \in Episodes
  <2>1. i \in DOMAIN order
    BY DEF Eligible
  <2> QED
    BY <2>1 DEF WorkerInv, WorkerTypeOK
<1>3. /\ UNCHANGED <<task, order, snapshot, writer, host, phase, approval, restarts, token, live, last>>
      /\ turn[t].pc \notin WriterPCs
  BY DEF Pick, leaseVars, WriterPCs
<1> QED
  BY <1>1, <1>2, <1>3, IdleFacts, StillTypes, TurnMoves DEF Working

\* The handler and the end of a turn.
LEMMA TurnEndKeeps ==
    ASSUME WorkerInv, NEW t \in Turns,
           \/ HandlerRaises(t) \/ DrainTimesOut(t) \/ AssertOutcome(t) \/ HandleException(t)
           \/ ReleaseAssert(t) \/ ReleaseDelete(t)
    PROVE  WorkerInv'
<1>0. /\ UNCHANGED <<task, order, snapshot, writer, host, phase, approval, last>>
      /\ restarts' \in 0..MaxRestarts /\ turn[t].pc \notin WriterPCs
  BY StillTypes DEF HandlerRaises, DrainTimesOut, AssertOutcome, HandleException, ReleaseAssert, ReleaseDelete,
                    Drop, leaseVars, WriterPCs
<1>1. /\ token' \in [Episodes -> Nat] /\ live' \subseteq Episodes
      /\ \A e \in Episodes : token'[e] \in {token[e], 0}
  BY StillTypes DEF HandlerRaises, DrainTimesOut, AssertOutcome, HandleException, ReleaseAssert, ReleaseDelete,
                    Drop, leaseVars
<1>2. \E l \in (AwaitPCs \cup BlockingPCs) \ ({"claim"} \cup Working) :
         \/ turn' = [turn EXCEPT ![t].pc = l]
         \/ turn' = [turn EXCEPT ![t].pc = l, ![t].exit = "raised"]
  BY StillTypes DEF HandlerRaises, DrainTimesOut, AssertOutcome, HandleException, ReleaseAssert, ReleaseDelete,
                    Goto, AwaitPCs, BlockingPCs, WriterPCs, Working
<1> QED
  BY <1>0, <1>1, <1>2, GoesKeeps

\* The handler of a producing runner stages the media; otherwise nothing changes.
LEMMA HandlerKeeps ==
    ASSUME WorkerInv, NEW t \in Turns, HandlerReturns(t)
    PROVE  WorkerInv'
<1> DEFINE e == turn[t].e
           next == IF phase[e] = "PRODUCING" THEN "HUMAN_THUMBNAIL" ELSE phase[e]
           r == [turn[t] EXCEPT !.pc = "outcome", !.act = IF next = "READY" THEN "TERMINAL" ELSE next]
<1>0. /\ UNCHANGED <<task, order, snapshot, writer, host, approval, restarts, token, live, last>>
      /\ turn[t].pc \in Working /\ turn[t].pc \notin WriterPCs
  BY DEF HandlerReturns, leaseVars, WriterPCs, Working
<1>1. CASE /\ turn' = [turn EXCEPT ![t].pc = "excepted", ![t].exit = "raised"]
           /\ UNCHANGED phase
  BY <1>0, <1>1, StillTypes, GoesKeeps DEF AwaitPCs, BlockingPCs, Working
<1>2. CASE /\ phase' = [phase EXCEPT ![e] = next]
           /\ turn' = [turn EXCEPT ![t].pc = "outcome", ![t].act = IF next = "READY" THEN "TERMINAL" ELSE next]
  <2>1. e \in Episodes /\ next \in Phases \ {"PRODUCING"}
    BY StillTypes DEF Phases, Gates
  <2>2. (IF next = "READY" THEN "TERMINAL" ELSE next) \in Actions
    BY <2>1 DEF Phases, Actions
  <2>3. r \in Turn /\ r.pc = "outcome" /\ r.e = turn[t].e /\ r.tok = turn[t].tok
    BY <2>2, StillTypes DEF Turn, AwaitPCs, BlockingPCs
  <2>4. turn' = [turn EXCEPT ![t] = r]
    BY <1>2 DEF WorkerInv, WorkerTypeOK
  <2>5. /\ phase' \in [Episodes -> Phases]
        /\ \A f \in Episodes : phase'[f] = phase[f] \/ phase[f] = "PRODUCING"
    BY <1>2, <2>1, StillTypes
  <2> HIDE DEF r
  <2> QED
    BY <1>0, <2>3, <2>4, <2>5, StillTypes, TurnMoves DEF Working
<1> QED
  BY <1>1, <1>2, Zenon DEF HandlerReturns

\* The lease alone: a late renewal, an expiry.
LEMMA LeaseKeeps ==
    ASSUME WorkerInv, (\E t \in Turns : RenewLate(t)) \/ (\E e \in Episodes : LeaseExpires(e))
    PROVE  WorkerInv'
<1>1. /\ UNCHANGED <<task, order, snapshot, writer, turn, host, phase, approval, token, last>>
      /\ live' \subseteq Episodes /\ restarts' \in 0..MaxRestarts
  BY StillTypes DEF RenewLate, Refresh, LeaseExpires, workerVars
<1>2. \A u \in Turns : Calm(u)
  BY <1>1 DEF Calm
<1>3. RecordedIsApproved' /\ LockCalm
  BY <1>1 DEF WorkerInv, RecordedIsApproved, Approved, LockCalm
<1> QED
  BY <1>1, <1>2, <1>3, QuietKeeps DEF WorkerInv, WorkerTypeOK, FencedTypeOK, Calls

-----------------------------------------------------------------------------
(* The hosts *)

\* Cancelling the turns of a host starts no work and no claim, and leaves a
\* mutation under way.
LEMMA CancelledFacts ==
    ASSUME WorkerInv, NEW h \in Hosts, turn' = Cancelled(h)
    PROVE  /\ turn' \in [Turns -> Turn] /\ \A u \in Turns : Calm(u)
           /\ \A u \in Turns : turn[u].pc \in WriterPCs => turn'[u] = turn[u]
<1>1. ASSUME NEW u \in Turns
      PROVE  turn'[u] \in Turn /\ Calm(u) /\ (turn[u].pc \in WriterPCs => turn'[u] = turn[u])
  <2>0. turn[u] \in Turn /\ turn[u].e \in Episodes
    BY StillTypes
  <2>1. CASE HostOf[u] # h
    BY <2>0, <2>1 DEF Cancelled, Calm
  <2>2. CASE HostOf[u] = h /\ turn[u].pc = "handling"
    <3>1. turn'[u] = [turn[u] EXCEPT !.pc = "draining"]
      BY <2>2 DEF Cancelled
    <3>2. turn'[u] \in Turn /\ turn'[u].pc = "draining" /\ turn'[u].e = turn[u].e /\ turn'[u].tok = turn[u].tok
      BY <2>0, <3>1 DEF Turn, AwaitPCs
    <3> QED
      BY <2>2, <3>2 DEF Calm, Working, WriterPCs
  <2>3. CASE HostOf[u] = h /\ turn[u].pc = "draining"
    <3>1. turn'[u] = [turn[u] EXCEPT !.pc = "release", !.exit = "raised"]
      BY <2>3 DEF Cancelled
    <3>2. turn'[u] \in Turn /\ turn'[u].pc = "release" /\ turn'[u].e = turn[u].e /\ turn'[u].tok = turn[u].tok
      BY <2>0, <3>1 DEF Turn, AwaitPCs
    <3> QED
      BY <2>3, <3>2 DEF Calm, Working, WriterPCs
  <2>4. CASE HostOf[u] = h /\ turn[u].pc \in {"release", "raised"}
    <3>1. turn'[u] = Idle(turn[u].e)
      BY <2>4 DEF Cancelled
    <3> QED
      BY <2>0, <2>4, <3>1, IdleFacts DEF Calm, Working, WriterPCs
  <2>5. CASE HostOf[u] = h /\ turn[u].pc \notin {"handling", "draining", "release", "raised"}
    <3>1. turn'[u] = turn[u]
      BY <2>5, Zenon DEF Cancelled
    <3> QED
      BY <2>0, <3>1 DEF Calm
  <2> QED
    BY <2>1, <2>2, <2>3, <2>4, <2>5
<1>2. turn' \in [Turns -> Turn]
  BY <1>1 DEF Cancelled
<1> QED
  BY <1>1, <1>2

\* A raised turn ends serve(), a signal closes the host, a host exits.
LEMMA HostStopsKeeps ==
    ASSUME WorkerInv,
           (\E t \in Turns : TurnRaised(t)) \/ (\E h \in Hosts : Signal(h) \/ HostExit(h))
    PROVE  WorkerInv'
<1>0. /\ UNCHANGED <<task, order, snapshot, writer, phase, approval, token, live, last>>
      /\ restarts' \in 0..MaxRestarts
  BY StillTypes DEF TurnRaised, Signal, HostExit, leaseVars
<1>1. host' \in [Hosts -> {"serving", "ended", "closing", "down"}]
  BY DEF TurnRaised, Signal, HostExit, WorkerInv, WorkerTypeOK
<1>2. RecordedIsApproved'
  BY <1>0 DEF WorkerInv, RecordedIsApproved, Approved
<1>3. /\ turn' \in [Turns -> Turn] /\ \A u \in Turns : Calm(u)
      /\ \A u \in Turns : turn[u].pc \in WriterPCs => turn'[u] = turn[u]
  <2>1. CASE \E h \in Hosts : turn' = Cancelled(h)
    BY <2>1, CancelledFacts
  <2>2. CASE UNCHANGED turn
    BY <2>2, StillTypes DEF Calm, WorkerInv, WorkerTypeOK
  <2>3. ASSUME NEW t \in Turns, turn[t].pc = "raised", turn' = [turn EXCEPT ![t] = Idle(@.e)]
        PROVE  /\ turn' \in [Turns -> Turn] /\ \A u \in Turns : Calm(u)
               /\ \A u \in Turns : turn[u].pc \in WriterPCs => turn'[u] = turn[u]
    <3>1. turn' \in [Turns -> Turn] /\ turn'[t] = Idle(turn[t].e) /\ \A u \in Turns \ {t} : turn'[u] = turn[u]
      BY <2>3, StillTypes, IdleFacts DEF WorkerInv, WorkerTypeOK
    <3>2. Calm(t)
      BY <3>1, StillTypes, IdleFacts DEF Calm, Working
    <3> QED
      BY <2>3, <3>1, <3>2 DEF Calm, WriterPCs
  <2> QED
    BY <2>1, <2>2, <2>3, WorkerConstants DEF TurnRaised, Signal, HostExit
<1>4. LockCalm
  BY <1>0, <1>3, HolderFacts DEF LockCalm
<1> QED
  BY <1>0, <1>1, <1>2, <1>3, <1>4, StillTypes, QuietKeeps

\* The process dies and the system frees its lock.
LEMMA HostCrashKeeps ==
    ASSUME WorkerInv, NEW h \in Hosts, HostCrash(h)
    PROVE  WorkerInv'
<1>0. /\ UNCHANGED <<task, order, snapshot, phase, approval, token, live, last>>
      /\ restarts' \in 0..MaxRestarts
  BY StillTypes DEF HostCrash, leaseVars
<1>1. host' \in [Hosts -> {"serving", "ended", "closing", "down"}]
  BY DEF HostCrash, WorkerInv, WorkerTypeOK
<1>2. RecordedIsApproved'
  BY <1>0 DEF WorkerInv, RecordedIsApproved, Approved
<1>3. ASSUME NEW u \in Turns
      PROVE  turn'[u] \in Turn /\ Calm(u) /\ (HostOf[u] # h => turn'[u] = turn[u])
  <2>1. turn'[u] = IF HostOf[u] = h THEN Idle(turn[u].e) ELSE turn[u]
    BY DEF HostCrash
  <2> QED
    BY <2>1, StillTypes, IdleFacts DEF Calm, Working
<1>4. turn' \in [Turns -> Turn]
  BY <1>3 DEF HostCrash
<1>5. LockCalm
  <2>1. CASE writer.who \in {t \in Turns : HostOf[t] = h}
    BY <2>1 DEF HostCrash, LockCalm
  <2>2. CASE writer.who \notin {t \in Turns : HostOf[t] = h}
    BY <1>0, <1>3, <2>2 DEF HostCrash, LockCalm
  <2> QED
    BY <2>1, <2>2
<1> QED
  BY <1>0, <1>1, <1>2, <1>3, <1>4, <1>5, StillTypes, QuietKeeps

-----------------------------------------------------------------------------
(* The approval command *)

\* The steps of an approval that write neither the row nor a new token.
LEMMA ApprovalKeeps ==
    ASSUME WorkerInv,
           \/ RecordGate \/ AssertWake \/ ApproveEnd \/ ApproveCrash
           \/ \E e \in Episodes : RecordFixtureGate(e)
    PROVE  WorkerInv'
<1>0. /\ UNCHANGED <<task, order, snapshot, turn, host, last>> /\ LockCalm
      /\ restarts' \in 0..MaxRestarts
  <2>1. UNCHANGED <<task, order, snapshot, turn, host, last>> /\ restarts' \in 0..MaxRestarts
    BY StillTypes DEF RecordGate, AssertWake, ApproveEnd, ApproveCrash, RecordFixtureGate, Drop, leaseVars
  <2>2. approval.pc # "waking" => writer.who # Approver
    BY ApproverFacts
  <2>3. CASE ApproveCrash
    BY <2>1, <2>3 DEF ApproveCrash, LockCalm
  <2>4. CASE ~ApproveCrash
    <3>1. approval.pc # "waking" /\ UNCHANGED writer
      BY <2>4 DEF RecordGate, AssertWake, ApproveEnd, RecordFixtureGate
    <3> QED
      BY <2>1, <2>2, <3>1 DEF LockCalm
  <2> QED
    BY <2>1, <2>3, <2>4
<1>1. /\ token' \in [Episodes -> Nat] /\ live' \subseteq Episodes
      /\ \A e \in Episodes : token'[e] \in {token[e], 0}
  BY StillTypes DEF RecordGate, AssertWake, ApproveEnd, ApproveCrash, RecordFixtureGate, Drop, leaseVars
<1>2. \A u \in Turns : Calm(u)
  BY <1>0 DEF Calm
<1>3. approval \in Calls /\ approval.e \in Episodes /\ approval.gate \in Gates /\ approval.tok \in Nat
  BY StillTypes DEF Calls
<1>4. CASE RecordGate
  <2>1. CASE /\ phase' = [phase EXCEPT ![approval.e] = AfterGate(approval.gate)]
             /\ approval' = [approval EXCEPT !.pc = "recorded"]
    <3>1. phase' \in [Episodes -> Phases] /\ phase'[approval.e] = AfterGate(approval.gate)
      BY <1>3, <2>1, StillTypes DEF AfterGate, Phases, Gates
    <3>2. approval' \in Calls /\ approval'.e = approval.e /\ approval'.gate = approval.gate
      BY <1>3, <2>1 DEF Calls
    <3>3. RecordedIsApproved'
      BY <1>3, <3>1, <3>2 DEF RecordedIsApproved, Approved, AfterGate, Gates
    <3> QED
      BY <1>0, <1>1, <1>2, <3>1, <3>2, <3>3, StillTypes, QuietKeeps DEF WorkerInv, WorkerTypeOK
  <2>2. CASE approval' = [approval EXCEPT !.pc = "woken"] /\ UNCHANGED phase
    <3>1. approval' \in Calls /\ approval'.pc = "woken"
      BY <1>3, <2>2 DEF Calls
    <3> QED
      BY <1>0, <1>1, <1>2, <2>2, <3>1, StillTypes, QuietKeeps DEF WorkerInv, WorkerTypeOK, RecordedIsApproved
  <2> QED
    BY <1>4, <2>1, <2>2, Zenon DEF RecordGate
<1>5. CASE ApproveEnd \/ ApproveCrash
  <2>1. approval' = ApprovalOff(approval.e) /\ UNCHANGED phase
    BY <1>5 DEF ApproveEnd, ApproveCrash
  <2>2. approval' \in Calls /\ approval'.pc = "off"
    BY <1>3, <2>1 DEF ApprovalOff, Gates, Calls
  <2> QED
    BY <1>0, <1>1, <1>2, <2>1, <2>2, StillTypes, QuietKeeps DEF WorkerInv, WorkerTypeOK, RecordedIsApproved
<1>6. ASSUME NEW e \in Episodes, RecordFixtureGate(e)
      PROVE  WorkerInv'
  <2>1. /\ phase[e] \in Gates /\ phase' = [phase EXCEPT ![e] = AfterGate(phase[e])]
        /\ approval' = [pc |-> "recorded", e |-> e, tok |-> 0, gate |-> phase[e]]
    BY <1>6 DEF RecordFixtureGate
  <2>2. phase' \in [Episodes -> Phases] /\ phase'[e] = AfterGate(phase[e])
    BY <2>1, StillTypes DEF AfterGate, Phases, Gates
  <2>3. approval' \in Calls /\ approval'.e = e /\ approval'.gate = phase[e]
    BY <2>1 DEF Calls
  <2>4. RecordedIsApproved'
    BY <2>1, <2>2, <2>3 DEF RecordedIsApproved, Approved, AfterGate, Gates
  <2> QED
    BY <1>0, <1>1, <1>2, <2>2, <2>3, <2>4, StillTypes, QuietKeeps DEF WorkerInv, WorkerTypeOK
<1>7. CASE AssertWake
  <2>1. /\ approval.pc = "recorded" /\ UNCHANGED phase
        /\ \E l \in {"waking", "woken"} : approval' = [approval EXCEPT !.pc = l]
    BY <1>7 DEF AssertWake
  <2>2. approval' \in Calls /\ approval'.e = approval.e /\ approval'.gate = approval.gate
    BY <1>3, <2>1 DEF Calls
  <2>3. RecordedIsApproved'
    BY <2>1, <2>2 DEF WorkerInv, RecordedIsApproved, Approved
  <2> QED
    BY <1>0, <1>1, <1>2, <2>1, <2>2, <2>3, StillTypes, QuietKeeps DEF WorkerInv, WorkerTypeOK
<1> QED
  BY <1>4, <1>5, <1>6, <1>7

-----------------------------------------------------------------------------
(* New tokens *)

\* A fresh token, for a turn or for an approval: nobody held it before.
LEMMA GrantKeeps ==
    ASSUME WorkerInv, NEW e \in Episodes, Grant(e), turn' \in [Turns -> Turn],
           \/ UNCHANGED turn
           \/ \E t \in Turns :
                 /\ turn[t].pc \notin WriterPCs
                 /\ turn'[t].e = e /\ turn'[t].tok = last[e] + 1 /\ turn'[t].pc \notin Working
                 /\ \A u \in Turns \ {t} : turn'[u] = turn[u],
           approval' \in Calls,
           writer.who = Approver => approval' = approval,
           RecordedIsApproved', UNCHANGED <<task, order, snapshot, writer, host, phase, restarts>>
    PROVE  WorkerInv'
<1>0. /\ \A t \in Turns : /\ turn[t].e \in Episodes /\ turn[t].tok \in Nat
                          /\ turn'[t].e \in Episodes /\ turn'[t].tok \in Nat
      /\ \A f \in Episodes : last[f] \in Nat /\ token[f] \in Nat /\ task[f].epoch \in Nat
  BY DEF WorkerInv, WorkerTypeOK, FencedTypeOK, Turn, Row
<1>1. /\ last' \in [Episodes -> Nat] /\ token' \in [Episodes -> Nat] /\ live' \subseteq Episodes
      /\ last'[e] = last[e] + 1 /\ token'[e] = last[e] + 1
      /\ \A f \in Episodes \ {e} : last'[f] = last[f] /\ token'[f] = token[f]
      /\ \A f \in Episodes : last[f] <= last'[f]
  BY <1>0, StillTypes DEF Grant
<1>2. \A u \in Turns : \/ turn'[u] = turn[u]
                       \/ /\ turn[u].pc \notin WriterPCs
                          /\ turn'[u].e = e /\ turn'[u].tok = last[e] + 1 /\ turn'[u].pc \notin Working
  OBVIOUS
<1>3. \A t \in Turns : turn[t].tok <= last[turn[t].e]
  BY DEF WorkerInv, TokensFresh
<1>4. TokensFresh'
  <2>1. \A f \in Episodes : token'[f] \in {0, last'[f]} /\ task'[f].epoch <= last'[f]
    BY <1>0, <1>1 DEF WorkerInv, TokensFresh
  <2>2. \A t \in Turns : turn'[t].tok <= last'[turn'[t].e]
    BY <1>0, <1>1, <1>2, <1>3
  <2>3. ASSUME NEW t \in Turns, NEW u \in Turns, t # u, turn'[t].e = turn'[u].e, turn'[t].tok = turn'[u].tok
        PROVE  turn'[t].tok = 0
    <3>1. CASE turn'[t] = turn[t] /\ turn'[u] = turn[u]
      BY <2>3, <3>1 DEF WorkerInv, TokensFresh
    <3>2. CASE turn'[t] # turn[t] /\ turn'[u] = turn[u]
      BY <1>0, <1>2, <1>3, <2>3, <3>2
    <3>3. CASE turn'[t] = turn[t] /\ turn'[u] # turn[u]
      BY <1>0, <1>2, <1>3, <2>3, <3>3
    <3>4. turn'[t] = turn[t] \/ turn'[u] = turn[u]
      BY <2>3
    <3> QED
      BY <3>1, <3>2, <3>3, <3>4
  <2>4. \A t \in Turns : turn'[t].pc \in Working \cup {"claim"} => turn'[t].tok # 0
    BY <1>0, <1>2 DEF WorkerInv, TokensFresh
  <2> QED
    BY <2>1, <2>2, <2>3, <2>4 DEF TokensFresh
<1>5. WriterLocked'
  <2>1. CASE writer = Unlocked
    BY <2>1 DEF WriterLocked
  <2>2. CASE TurnWrites
    <3>1. writer.who \in Turns /\ turn'[writer.who] = turn[writer.who]
      BY <1>2, <2>2 DEF TurnWrites
    <3>2. NewestClaim(writer.who) => NewestClaim(writer.who)'
      BY <1>0, <1>2, <3>1 DEF NewestClaim
    <3> QED
      BY <2>2, <3>1, <3>2 DEF TurnWrites, WriterLocked, RowOfEpoch
  <2>3. CASE ApproverWrites
    BY <2>3 DEF ApproverWrites, WriterLocked
  <2> QED
    BY <2>1, <2>2, <2>3 DEF WorkerInv, WriterLocked
<1>6. WorkersOwn'
  <2> SUFFICES ASSUME NEW t \in Turns, turn'[t].pc \in Working, token'[turn'[t].e] = turn'[t].tok
               PROVE  RowOfEpoch(turn[t].e, turn[t].tok)'
    BY DEF WorkersOwn
  <2>1. turn'[t] = turn[t] /\ turn[t].tok <= last[turn[t].e]
    BY <1>2, <1>3
  <2>2. turn[t].e # e /\ token[turn[t].e] = turn[t].tok
    BY <1>0, <1>1, <2>1
  <2> QED
    BY <2>1, <2>2 DEF WorkerInv, WorkersOwn, RowOfEpoch
<1>7. SnapshotNeverLies'
  BY DEF WorkerInv, SnapshotNeverLies, Readable
<1>8. WorkerTypeOK'
  BY <1>1 DEF WorkerInv, WorkerTypeOK, FencedTypeOK, Calls
<1> QED
  BY <1>4, <1>5, <1>6, <1>7, <1>8 DEF WorkerInv

\* acquire(), by a turn and by the approval command.
LEMMA AcquireKeeps ==
    ASSUME WorkerInv,
           \/ \E t \in Turns : Acquire(t)
           \/ \E e \in Episodes, gate \in Gates : ApproveAcquire(e, gate)
    PROVE  WorkerInv'
<1>1. ASSUME NEW t \in Turns, Acquire(t)
      PROVE  WorkerInv'
  <2>0. /\ UNCHANGED <<task, order, snapshot, writer, host, phase, approval, restarts>>
        /\ turn[t].pc = "picked" /\ turn[t].pc \notin WriterPCs
    BY <1>1 DEF Acquire, WriterPCs
  <2>1. CASE Goto(t, "idle") /\ UNCHANGED leaseVars
    BY <2>0, <2>1, StillTypes, GoesKeeps DEF Goto, leaseVars, AwaitPCs, Working
  <2>2. CASE /\ Grant(turn[t].e)
             /\ turn' = [turn EXCEPT ![t].pc = "claim", ![t].tok = last[turn[t].e] + 1]
    <3>1. turn[t] \in Turn /\ turn[t].e \in Episodes /\ last[turn[t].e] \in Nat
      BY StillTypes
    <3>2. /\ turn' \in [Turns -> Turn] /\ turn'[t].e = turn[t].e
          /\ turn'[t].tok = last[turn[t].e] + 1 /\ turn'[t].pc = "claim"
          /\ \A u \in Turns \ {t} : turn'[u] = turn[u]
      <4> DEFINE r == [turn[t] EXCEPT !.pc = "claim", !.tok = last[turn[t].e] + 1]
      <4>1. r \in Turn /\ r.e = turn[t].e /\ r.tok = last[turn[t].e] + 1 /\ r.pc = "claim"
        <5>1. ASSUME NEW x \in Turn, NEW n \in Nat
              PROVE  LET y == [x EXCEPT !.pc = "claim", !.tok = n]
                     IN  y \in Turn /\ y.e = x.e /\ y.tok = n /\ y.pc = "claim"
          BY DEF Turn, BlockingPCs, WriterPCs
        <5>2. last[turn[t].e] + 1 \in Nat
          BY <3>1
        <5> QED
          BY <3>1, <5>1, <5>2
      <4>2. turn' = [turn EXCEPT ![t] = r]
        BY <2>2 DEF WorkerInv, WorkerTypeOK
      <4> HIDE DEF r
      <4> QED
        BY <4>1, <4>2 DEF WorkerInv, WorkerTypeOK
    <3>3. RecordedIsApproved'
      BY <2>0 DEF WorkerInv, RecordedIsApproved, Approved
    <3> QED
      BY <2>0, <2>2, <3>1, <3>2, <3>3, GrantKeeps, StillTypes DEF Working
  <2> QED
    BY <1>1, <2>1, <2>2, Zenon DEF Acquire
<1>2. ASSUME NEW e \in Episodes, NEW gate \in Gates, ApproveAcquire(e, gate)
      PROVE  WorkerInv'
  <2>1. /\ Grant(e) /\ UNCHANGED <<task, order, snapshot, writer, turn, host, phase, restarts>>
        /\ approval' = [pc |-> "leased", e |-> e, tok |-> last[e] + 1, gate |-> gate]
    BY <1>2 DEF ApproveAcquire
  <2>2. writer.who # Approver
    BY <1>2, ApproverFacts DEF ApproveAcquire
  <2>3. /\ approval' \in Calls
        /\ approval'.pc = "leased"
    BY <2>1, StillTypes DEF Calls
  <2> QED
    BY <2>1, <2>2, <2>3, GrantKeeps DEF RecordedIsApproved, WorkerInv, WorkerTypeOK
<1> QED
  BY <1>1, <1>2

-----------------------------------------------------------------------------
(* The mutations of the queue *)

\* A mutation that goes on without writing a row: the marker, the check, and the
\* commit of a retry that matched nothing.
LEMMA WriterGoesOn ==
    ASSUME WorkerInv, NEW t \in Turns, turn[t].pc \in WriterPCs,
           NEW at \in {"marked", "checked", "committed"}, writer' = [who |-> t, at |-> at],
           turn[t].pc = "claim" => /\ at = "checked" => NewestClaim(t)
                                   /\ at # "committed",
           snapshot' \in [status : {"WRITER_IN_PROGRESS"}, tasks : [Episodes -> Row]],
           UNCHANGED <<task, order, turn, host, phase, approval, restarts, leaseVars>>
    PROVE  WorkerInv'
<1>0. UNCHANGED <<token, live, last>>
  BY DEF leaseVars
<1>1. TokensFresh'
  BY <1>0 DEF WorkerInv, TokensFresh
<1>2. WriterLocked'
  <2>1. NewestClaim(t) => NewestClaim(t)'
    BY DEF NewestClaim
  <2>2. snapshot'.status = "WRITER_IN_PROGRESS"
    OBVIOUS
  <2> QED
    BY <2>1, <2>2, LockFacts DEF WriterLocked, TurnWrites
<1>3. WorkersOwn'
  BY <1>0 DEF WorkerInv, WorkersOwn, RowOfEpoch
<1>4. SnapshotNeverLies'
  BY DEF SnapshotNeverLies, Readable
<1>5. RecordedIsApproved'
  BY DEF WorkerInv, RecordedIsApproved, Approved
<1>6. WorkerTypeOK'
  BY <1>0, LockFacts DEF WorkerInv, WorkerTypeOK, FencedTypeOK, Locks
<1> QED
  BY <1>1, <1>2, <1>3, <1>4, <1>5, <1>6 DEF WorkerInv

\* A mutation that raises frees the lock and leaves the marker.
LEMMA AbortKeeps ==
    ASSUME WorkerInv, NEW t \in Turns, turn[t].pc \in WriterPCs, Abort(t),
           UNCHANGED <<task, order, snapshot, host, phase, approval, restarts, leaseVars>>
    PROVE  WorkerInv'
<1>1. /\ RaisesTo(turn[t].pc) \in AwaitPCs \cup BlockingPCs
      /\ RaisesTo(turn[t].pc) \notin Working \cup {"claim"}
  BY DEF RaisesTo, AwaitPCs, BlockingPCs, Working
<1>2. writer' = Unlocked /\ turn' = [turn EXCEPT ![t].pc = RaisesTo(turn[t].pc), ![t].exit = "raised"]
  BY DEF Abort
<1> QED
  BY <1>1, <1>2, StillTypes, GoesKeeps DEF leaseVars

\* The marker and _active(): at its check a claim has the newest token.
LEMMA WriterChecksKeep ==
    ASSUME WorkerInv, NEW t \in Turns, WriterEnter(t) \/ WriterCheck(t)
    PROVE  WorkerInv'
<1>1. CASE WriterEnter(t)
  <2>1. /\ turn[t].pc \in WriterPCs /\ writer' = [who |-> t, at |-> "marked"]
        /\ UNCHANGED <<task, order, turn, host, phase, approval, restarts, leaseVars>>
    BY <1>1 DEF WriterEnter
  <2>2. snapshot' \in [status : {"WRITER_IN_PROGRESS"}, tasks : [Episodes -> Row]]
    BY <1>1 DEF WriterEnter, WorkerInv, WorkerTypeOK
  <2> QED
    BY <2>1, <2>2, WriterGoesOn
<1>2. CASE WriterCheck(t)
  <2>0. /\ writer = [who |-> t, at |-> "marked"]
        /\ UNCHANGED <<task, order, snapshot, host, phase, approval, restarts, leaseVars>>
    BY <1>2 DEF WriterCheck
  <2>1. /\ turn[t].pc \in WriterPCs /\ snapshot.status = "WRITER_IN_PROGRESS"
    BY <2>0, LockFacts, HolderFacts
  <2>2. CASE Abort(t)
    BY <2>0, <2>1, <2>2, AbortKeeps
  <2>3. CASE LeaseCheck(t) /\ writer' = [writer EXCEPT !.at = "checked"] /\ UNCHANGED turn
    <3>1. writer' = [who |-> t, at |-> "checked"]
      BY <2>0, <2>3
    <3>2. snapshot' \in [status : {"WRITER_IN_PROGRESS"}, tasks : [Episodes -> Row]]
      BY <2>0, <2>1 DEF WorkerInv, WorkerTypeOK
    <3>3. ASSUME turn[t].pc = "claim" PROVE NewestClaim(t)
      <4>1. /\ token[turn[t].e] = turn[t].tok /\ turn[t].tok # 0 /\ turn[t].e \in Episodes
        BY <2>3, <3>3, StillTypes DEF LeaseCheck, WorkerInv, TokensFresh
      <4>2. /\ turn[t].tok = last[turn[t].e] /\ last[turn[t].e] \in Nat
            /\ task[turn[t].e].epoch <= last[turn[t].e]
        BY <4>1, StillTypes DEF WorkerInv, TokensFresh
      <4>3. ASSUME NEW u \in Turns \ {t}, turn[u].e = turn[t].e
            PROVE  turn[u].tok < turn[t].tok
        <5>1. turn[u].tok <= last[turn[t].e] /\ turn[u].tok # turn[t].tok /\ turn[u].tok \in Nat
          BY <4>1, <4>3, StillTypes DEF WorkerInv, TokensFresh
        <5> QED
          BY <4>2, <5>1
      <4> QED
        BY <4>2, <4>3 DEF NewestClaim
    <3> QED
      BY <2>0, <2>1, <2>3, <3>1, <3>2, <3>3, WriterGoesOn
  <2> QED
    BY <1>2, <2>2, <2>3 DEF WriterCheck
<1> QED
  BY <1>1, <1>2

\* The row a successful UPDATE writes.
LEMMA NewRowFacts ==
    ASSUME WorkerInv, NEW t \in Turns, turn[t].pc \in WriterPCs
    PROVE  /\ NewRow(t) \in Row
           /\ turn[t].pc = "claim" => NewRow(t).status = "RUNNING" /\ NewRow(t).epoch = turn[t].tok
           /\ turn[t].pc # "claim" => NewRow(t).epoch = task[turn[t].e].epoch
<1>0. task[turn[t].e] \in Row /\ turn[t].tok \in Nat /\ turn[t].act \in Actions
  BY StillTypes DEF WorkerInv, WorkerTypeOK
<1>1. CASE turn[t].pc = "claim"
  BY <1>0, <1>1 DEF NewRow, Row, Statuses, Actions
<1>2. CASE turn[t].pc = "complete"
  <2>1. OutcomeStatus(turn[t].act) \in Statuses
    BY DEF OutcomeStatus, Statuses
  <2>2. NewRow(t) = [task[turn[t].e] EXCEPT !.status = OutcomeStatus(turn[t].act), !.action = turn[t].act]
    BY <1>2 DEF NewRow
  <2> QED
    BY <1>0, <1>2, <2>1, <2>2 DEF Row
<1>3. CASE turn[t].pc = "retry"
  <2>1. NewRow(t) = [task[turn[t].e] EXCEPT !.status = "PENDING", !.action = "RESUME"]
    BY <1>3 DEF NewRow
  <2> QED
    BY <1>0, <1>3, <2>1 DEF Row, Statuses, Actions
<1>4. CASE turn[t].pc = "unknown"
  <2>1. NewRow(t) = [task[turn[t].e] EXCEPT !.status = "UNKNOWN", !.action = "RECONCILE_REQUIRED"]
    BY <1>4 DEF NewRow
  <2> QED
    BY <1>0, <1>4, <2>1 DEF Row, Statuses, Actions
<1> QED
  BY <1>1, <1>2, <1>3, <1>4 DEF WriterPCs

\* The UPDATE and its commit: a claim takes the row from older turns only, and
\* any other mutation finds a row of its own token.
LEMMA UpdateKeeps ==
    ASSUME WorkerInv, NEW t \in Turns, writer = [who |-> t, at |-> "checked"],
           IF turn[t].pc = "claim" THEN Claimable(turn[t].e) ELSE RowOfEpoch(turn[t].e, turn[t].tok),
           task' = [task EXCEPT ![turn[t].e] = NewRow(t)], order' = Touched(turn[t].e),
           writer' = [who |-> t, at |-> "committed"],
           UNCHANGED <<snapshot, turn, host, phase, approval, restarts, leaseVars>>
    PROVE  /\ WorkerInv'
           /\ \A f \in Episodes : task'[f].epoch >= task[f].epoch /\ task'[f].epoch <= last[f]
<1>0. /\ UNCHANGED <<token, live, last>> /\ turn[t].e \in Episodes /\ turn[t].tok \in Nat
      /\ turn[t].tok <= last[turn[t].e] /\ last[turn[t].e] \in Nat
      /\ task \in [Episodes -> Row] /\ task[turn[t].e].epoch \in Nat
  BY StillTypes DEF leaseVars, WorkerInv, WorkerTypeOK, TokensFresh, Row
<1>1. /\ turn[t].pc \in WriterPCs /\ snapshot.status = "WRITER_IN_PROGRESS"
      /\ turn[t].pc = "claim" => NewestClaim(t)
  BY LockFacts, HolderFacts
<1>2. /\ task' \in [Episodes -> Row] /\ task'[turn[t].e] = NewRow(t)
      /\ \A f \in Episodes \ {turn[t].e} : task'[f] = task[f]
  BY <1>0, <1>1, NewRowFacts
<1>3. /\ task'[turn[t].e].epoch >= task[turn[t].e].epoch
      /\ task'[turn[t].e].epoch <= last[turn[t].e]
  <2>1. CASE turn[t].pc = "claim"
    BY <1>0, <1>1, <1>2, <2>1, NewRowFacts DEF NewestClaim
  <2>2. CASE turn[t].pc # "claim"
    <3>1. task'[turn[t].e].epoch = task[turn[t].e].epoch /\ task[turn[t].e].epoch <= last[turn[t].e]
      BY <1>0, <1>1, <1>2, <2>2, NewRowFacts DEF WorkerInv, TokensFresh
    <3> QED
      BY <1>0, <3>1
  <2> QED
    BY <2>1, <2>2
<1>4. \A f \in Episodes : task'[f].epoch >= task[f].epoch /\ task'[f].epoch <= last[f]
  BY <1>2, <1>3, StillTypes DEF WorkerInv, WorkerTypeOK, TokensFresh, Row
<1>5. TokensFresh'
  BY <1>0, <1>4 DEF WorkerInv, TokensFresh
<1>6. WriterLocked'
  <2>1. turn[t].pc = "claim" => RowOfEpoch(turn[t].e, turn[t].tok)'
    BY <1>1, <1>2, NewRowFacts DEF RowOfEpoch
  <2> QED
    BY <1>1, <2>1, LockFacts DEF WriterLocked, TurnWrites
<1>7. WorkersOwn'
  <2> SUFFICES ASSUME NEW u \in Turns, turn[u].pc \in Working, token[turn[u].e] = turn[u].tok
               PROVE  RowOfEpoch(turn[u].e, turn[u].tok)'
    BY <1>0 DEF WorkersOwn
  <2>1. RowOfEpoch(turn[u].e, turn[u].tok) /\ u # t /\ turn[u].tok # 0
    BY <1>1 DEF WorkerInv, WorkersOwn, TokensFresh, Working, WriterPCs
  <2>2. turn[u].e # turn[t].e
    <3> SUFFICES ASSUME turn[u].e = turn[t].e PROVE FALSE
      OBVIOUS
    <3>1. turn[u].tok = last[turn[t].e] /\ turn[u].tok # turn[t].tok
      BY <1>0, <2>1 DEF WorkerInv, TokensFresh
    <3>2. CASE turn[t].pc = "claim"
      BY <1>0, <1>1, <2>1, <3>1, <3>2 DEF NewestClaim
    <3>3. CASE turn[t].pc # "claim"
      BY <2>1, <3>1, <3>3 DEF RowOfEpoch
    <3> QED
      BY <3>2, <3>3
  <2> QED
    BY <1>2, <2>1, <2>2, StillTypes DEF RowOfEpoch
<1>8. SnapshotNeverLies'
  BY <1>1 DEF SnapshotNeverLies, Readable
<1>9. RecordedIsApproved'
  BY DEF WorkerInv, RecordedIsApproved, Approved
<1>10. WorkerTypeOK'
  BY <1>0, <1>2, LockFacts, TouchedType DEF WorkerInv, WorkerTypeOK, FencedTypeOK, Locks
<1> QED
  BY <1>4, <1>5, <1>6, <1>7, <1>8, <1>9, <1>10 DEF WorkerInv

\* The three outcomes of the UPDATE.
LEMMA CommitKeeps ==
    ASSUME WorkerInv, NEW t \in Turns, WriterCommit(t)
    PROVE  /\ WorkerInv'
           /\ \/ UNCHANGED task
              \/ \A f \in Episodes : task'[f].epoch >= task[f].epoch /\ task'[f].epoch <= last[f]
<1> DEFINE matches == IF turn[t].pc = "claim" THEN Claimable(turn[t].e) ELSE RowOfEpoch(turn[t].e, turn[t].tok)
<1>0. /\ writer = [who |-> t, at |-> "checked"]
      /\ UNCHANGED <<snapshot, host, phase, approval, restarts, leaseVars>>
  BY DEF WriterCommit
<1>1. /\ turn[t].pc \in WriterPCs /\ snapshot.status = "WRITER_IN_PROGRESS"
      /\ [writer EXCEPT !.at = "committed"] = [who |-> t, at |-> "committed"]
  BY <1>0, LockFacts, HolderFacts
<1>2. CASE /\ matches /\ task' = [task EXCEPT ![turn[t].e] = NewRow(t)] /\ order' = Touched(turn[t].e)
           /\ writer' = [writer EXCEPT !.at = "committed"] /\ UNCHANGED turn
  BY <1>0, <1>1, <1>2, UpdateKeeps
<1>3. CASE /\ turn[t].pc = "retry" /\ writer' = [writer EXCEPT !.at = "committed"]
           /\ UNCHANGED <<task, order, turn>>
  <2>1. snapshot' \in [status : {"WRITER_IN_PROGRESS"}, tasks : [Episodes -> Row]]
    BY <1>0, <1>1 DEF WorkerInv, WorkerTypeOK
  <2> QED
    BY <1>0, <1>1, <1>3, <2>1, WriterGoesOn
<1>4. CASE Abort(t) /\ UNCHANGED <<task, order>>
  BY <1>0, <1>1, <1>4, AbortKeeps
<1> QED
  BY <1>2, <1>3, <1>4, Zenon DEF WriterCommit

\* The end of a mutation: what the snapshot shows is what the rows are, and a
\* turn that starts to work has just claimed its row.
LEMMA PublishKeeps ==
    ASSUME WorkerInv, NEW t \in Turns, WriterPublish(t)
    PROVE  WorkerInv'
<1> DEFINE l == CASE turn[t].pc = "claim" -> "handling"
                  [] turn[t].pc = "unknown" -> "idle"
                  [] OTHER -> "release"
           r == [turn[t] EXCEPT !.pc = l]
<1>0. /\ writer = [who |-> t, at |-> "committed"] /\ writer' = Unlocked
      /\ snapshot' = [status |-> "CURRENT", tasks |-> task] /\ turn' = [turn EXCEPT ![t].pc = l]
      /\ UNCHANGED <<task, order, host, phase, approval, restarts, token, live, last>>
  BY DEF WriterPublish, Goto, leaseVars
<1>1. turn[t].pc = "claim" => RowOfEpoch(turn[t].e, turn[t].tok)
  BY <1>0, LockFacts, HolderFacts
<1>2. /\ l \in AwaitPCs \cup BlockingPCs /\ l # "claim"
      /\ l \in Working => turn[t].pc = "claim"
  <2>1. turn[t].pc = "claim" => l = "handling"
    OBVIOUS
  <2>2. turn[t].pc # "claim" => l \in {"idle", "release"}
    OBVIOUS
  <2> HIDE DEF l
  <2> QED
    BY <2>1, <2>2 DEF AwaitPCs, Working
<1> HIDE DEF l
<1>3. r \in Turn /\ r.pc = l /\ r.e = turn[t].e /\ r.tok = turn[t].tok
  <2>1. turn[t] \in Turn
    BY StillTypes
  <2> QED
    BY <1>2, <2>1, TurnFacts
<1>4. turn' = [turn EXCEPT ![t] = r]
  BY <1>0, StillTypes DEF WorkerInv, WorkerTypeOK
<1> HIDE DEF r
<1>5. turn' \in [Turns -> Turn] /\ turn'[t] = r /\ \A u \in Turns \ {t} : turn'[u] = turn[u]
  BY <1>3, <1>4 DEF WorkerInv, WorkerTypeOK
<1>6. TokensFresh'
  <2>1. \A e \in Episodes : token'[e] \in {0, last'[e]} /\ task'[e].epoch <= last'[e]
    BY <1>0 DEF WorkerInv, TokensFresh
  <2>2. \A u \in Turns : turn'[u].tok = turn[u].tok /\ turn'[u].e = turn[u].e
    BY <1>3, <1>5
  <2>3. \A u \in Turns : turn'[u].pc \in Working \cup {"claim"} => turn'[u].tok # 0
    BY <1>2, <1>3, <1>5 DEF WorkerInv, TokensFresh
  <2> QED
    BY <1>0, <2>1, <2>2, <2>3 DEF WorkerInv, TokensFresh
<1>7. WorkersOwn'
  BY <1>0, <1>1, <1>2, <1>3, <1>5 DEF WorkerInv, WorkersOwn, RowOfEpoch
<1>8. WriterLocked' /\ SnapshotNeverLies'
  BY <1>0 DEF WriterLocked, SnapshotNeverLies
<1>9. RecordedIsApproved'
  BY <1>0 DEF WorkerInv, RecordedIsApproved, Approved
<1>10. WorkerTypeOK'
  BY <1>0, <1>5, IdleFacts DEF WorkerInv, WorkerTypeOK, FencedTypeOK, Locks
<1> QED
  BY <1>6, <1>7, <1>8, <1>9, <1>10 DEF WorkerInv

-----------------------------------------------------------------------------
(* The clients of the queue *)

\* A client that has the lock, keeps epochs and RUNNING rows and shows no other
\* rows than it committed.
LEMMA ClientKeeps ==
    ASSUME WorkerInv, WriterLocked', writer' \in Locks, task' \in [Episodes -> Row], order' \in Seq(Episodes),
           \A e \in Episodes : task'[e].epoch = task[e].epoch
                               /\ (task[e].status = "RUNNING" => task'[e] = task[e]),
           snapshot' \in [status : {"CURRENT", "WRITER_IN_PROGRESS"}, tasks : [Episodes -> Row]],
           snapshot'.status = "CURRENT" => snapshot'.tasks = task',
           host' \in [Hosts -> {"serving", "ended", "closing", "down"}],
           approval' \in Calls,
           RecordedIsApproved', restarts' \in 0..MaxRestarts,
           UNCHANGED <<turn, phase, token, live, last>>
    PROVE  WorkerInv'
<1>1. TokensFresh'
  BY DEF WorkerInv, TokensFresh
<1>2. WorkersOwn'
  BY StillTypes DEF WorkerInv, WorkersOwn, RowOfEpoch
<1>3. SnapshotNeverLies'
  BY DEF SnapshotNeverLies, Readable
<1>4. WorkerTypeOK'
  BY DEF WorkerInv, WorkerTypeOK, FencedTypeOK, Locks, Calls
<1> QED
  BY <1>1, <1>2, <1>3, <1>4 DEF WorkerInv

\* A row that changes its status, and perhaps its action.
LEMMA RowChanges ==
    ASSUME task \in [Episodes -> Row], NEW e \in Episodes, NEW s \in Statuses, NEW a \in Actions,
           task' = [task EXCEPT ![e].status = s] \/ task' = [task EXCEPT ![e].status = s, ![e].action = a]
    PROVE  /\ task' \in [Episodes -> Row] /\ task'[e].epoch = task[e].epoch
           /\ \A f \in Episodes \ {e} : task'[f] = task[f]
BY DEF Row

\* enqueue() and a new host.
LEMMA EnqueueKeeps ==
    ASSUME WorkerInv, NEW e \in Episodes, Enqueue(e) \/ EnqueueConflict(e)
    PROVE  /\ WorkerInv'
           /\ \A f \in Episodes : task'[f].epoch = task[f].epoch
              /\ (task[f].status # "NONE" => task'[f] = task[f])
<1>0. /\ writer = Unlocked /\ UNCHANGED <<writer, turn, host, phase, approval, token, live, last>>
      /\ restarts' \in 0..MaxRestarts
  BY StillTypes DEF Enqueue, EnqueueConflict, leaseVars
<1>1. RecordedIsApproved'
  BY <1>0 DEF WorkerInv, RecordedIsApproved, Approved
<1>2. /\ task' \in [Episodes -> Row] /\ order' \in Seq(Episodes)
      /\ \A f \in Episodes : task'[f].epoch = task[f].epoch /\ (task[f].status # "NONE" => task'[f] = task[f])
  <2>0. task \in [Episodes -> Row] /\ order \in Seq(Episodes)
    BY DEF WorkerInv, WorkerTypeOK
  <2>1. CASE UNCHANGED <<task, order>>
    BY <2>0, <2>1
  <2>2. CASE task[e] = NoTask /\ task' = [task EXCEPT ![e].status = "PENDING"] /\ order' = Touched(e)
    <3>1. "PENDING" \in Statuses /\ "RESUME" \in Actions
      BY DEF Statuses, Actions
    <3>2. /\ task' \in [Episodes -> Row] /\ task'[e].epoch = task[e].epoch
          /\ \A f \in Episodes \ {e} : task'[f] = task[f]
      BY <2>0, <2>2, <3>1, RowChanges
    <3> QED
      BY <2>0, <2>2, <3>2, IdleFacts, TouchedType
  <2> QED
    BY <2>1, <2>2 DEF Enqueue, EnqueueConflict
<1>3. /\ snapshot' \in [status : {"CURRENT", "WRITER_IN_PROGRESS"}, tasks : [Episodes -> Row]]
      /\ snapshot'.status = "CURRENT" => snapshot'.tasks = task'
  <2>1. CASE Enqueue(e)
    BY <1>2, <2>1 DEF Enqueue, Publish
  <2>2. CASE EnqueueConflict(e)
    BY <2>2 DEF EnqueueConflict, WorkerInv, WorkerTypeOK
  <2> QED
    BY <2>1, <2>2
<1>4. \A f \in Episodes : task[f].status = "RUNNING" => task[f].status # "NONE"
  OBVIOUS
<1>5. WorkerInv'
  <2>1. WriterLocked' /\ writer' \in Locks
    BY <1>0, StillTypes DEF WriterLocked
  <2> QED
    BY <1>0, <1>1, <1>2, <1>3, <1>4, <2>1, StillTypes, ClientKeeps DEF WorkerInv, WorkerTypeOK
<1> QED
  BY <1>2, <1>5

\* A new host shows the rows it found (EpisodeTaskQueue.__init__).
LEMMA HostStartKeeps ==
    ASSUME WorkerInv, NEW h \in Hosts, HostStart(h)
    PROVE  WorkerInv'
<1>0. /\ writer = Unlocked /\ UNCHANGED <<task, order, writer, turn, phase, approval, token, live, last>>
      /\ snapshot' = [status |-> "CURRENT", tasks |-> task]
  BY DEF HostStart, leaseVars
<1>1. RecordedIsApproved' /\ WriterLocked'
  BY <1>0 DEF WorkerInv, RecordedIsApproved, Approved, WriterLocked
<1>2. host' \in [Hosts -> {"serving", "ended", "closing", "down"}]
  BY DEF HostStart, WorkerInv, WorkerTypeOK
<1>3. restarts' \in 0..MaxRestarts
  BY WorkerConstants, StillTypes DEF HostStart
<1> QED
  BY <1>0, <1>1, <1>2, <1>3, StillTypes, ClientKeeps DEF WorkerInv, WorkerTypeOK

\* wake_gate() behind its lock changes the waiting row of the recorded gate, or none.
LEMMA WakeKeeps ==
    ASSUME WorkerInv, WakeEnter \/ WakeCommit \/ WakePublish
    PROVE  /\ WorkerInv'
           /\ \A f \in Episodes :
                 /\ task'[f].epoch = task[f].epoch
                 /\ task'[f] # task[f] => /\ task[f].status = "WAITING" /\ f = approval.e
                                          /\ task[f].action = approval.gate /\ approval.pc = "waking"
<1> DEFINE e == approval.e
<1>0. /\ UNCHANGED <<turn, host, phase, restarts, token, live, last>>
      /\ task \in [Episodes -> Row] /\ order \in Seq(Episodes) /\ e \in Episodes /\ approval \in Calls
      /\ snapshot \in [status : {"CURRENT", "WRITER_IN_PROGRESS"}, tasks : [Episodes -> Row]]
  BY StillTypes DEF WakeEnter, WakeCommit, WakePublish, leaseVars, WorkerInv, WorkerTypeOK, Calls
<1>1. approval.pc = "waking"
  BY LockFacts, ApproverFacts DEF WakeEnter, WakeCommit, WakePublish
<1>2. CASE WakeEnter
  <2>1. /\ UNCHANGED <<task, order, approval>> /\ writer' = [who |-> Approver, at |-> "marked"]
        /\ snapshot' = [snapshot EXCEPT !.status = "WRITER_IN_PROGRESS"]
    BY <1>2 DEF WakeEnter
  <2>2. /\ snapshot' \in [status : {"CURRENT", "WRITER_IN_PROGRESS"}, tasks : [Episodes -> Row]]
        /\ snapshot'.status = "WRITER_IN_PROGRESS"
    BY <1>0, <2>1
  <2>3. WriterLocked' /\ writer' \in Locks
    BY <1>1, <2>1, <2>2, LockFacts DEF WriterLocked, ApproverWrites
  <2>4. RecordedIsApproved'
    BY <1>0, <2>1 DEF WorkerInv, RecordedIsApproved, Approved
  <2>5. WorkerInv'
    BY <1>0, <2>1, <2>2, <2>3, <2>4, StillTypes, ClientKeeps DEF WorkerInv, WorkerTypeOK
  <2> QED
    BY <2>1, <2>5
<1>3. CASE WakeCommit
  <2>0. /\ UNCHANGED <<snapshot, approval>> /\ writer = [who |-> Approver, at |-> "marked"]
        /\ writer' = [who |-> Approver, at |-> "committed"]
    BY <1>3 DEF WakeCommit
  <2>1. /\ task' \in [Episodes -> Row] /\ order' \in Seq(Episodes)
        /\ \A f \in Episodes :
              /\ task'[f].epoch = task[f].epoch
              /\ task'[f] # task[f] => /\ task[f].status = "WAITING" /\ f = approval.e
                                       /\ task[f].action = approval.gate
    <3>1. CASE UNCHANGED <<task, order>>
      BY <1>0, <3>1
    <3>2. CASE /\ Wakes(e, approval.gate) /\ order' = Touched(e)
               /\ task' = [task EXCEPT ![e].status = "PENDING", ![e].action = "RESUME"]
      <4>1. "PENDING" \in Statuses /\ "RESUME" \in Actions
        BY DEF Statuses, Actions
      <4>2. /\ task' \in [Episodes -> Row] /\ task'[e].epoch = task[e].epoch
            /\ \A f \in Episodes \ {e} : task'[f] = task[f]
        BY <1>0, <3>2, <4>1, RowChanges
      <4>3. order' \in Seq(Episodes)
        BY <1>0, <3>2, TouchedType
      <4>4. task[e].status = "WAITING" /\ task[e].action = approval.gate
        BY <3>2 DEF Wakes
      <4> QED
        BY <4>2, <4>3, <4>4
    <3> QED
      BY <1>3, <3>1, <3>2 DEF WakeCommit
  <2>2. snapshot.status = "WRITER_IN_PROGRESS"
    BY <2>0, LockFacts, ApproverFacts
  <2>3. WriterLocked' /\ writer' \in Locks
    BY <1>1, <2>0, <2>2, LockFacts DEF WriterLocked, ApproverWrites
  <2>4. RecordedIsApproved'
    BY <1>0, <2>0 DEF WorkerInv, RecordedIsApproved, Approved
  <2>5. \A f \in Episodes : task[f].status = "RUNNING" => task'[f] = task[f]
    BY <2>1
  <2>6. WorkerInv'
    BY <1>0, <2>0, <2>1, <2>2, <2>3, <2>4, <2>5, StillTypes, ClientKeeps DEF WorkerInv, WorkerTypeOK
  <2> QED
    BY <1>1, <2>1, <2>6
<1>4. CASE WakePublish
  <2>1. /\ UNCHANGED <<task, order>> /\ writer' = Unlocked
        /\ snapshot' = [status |-> "CURRENT", tasks |-> task]
        /\ approval' = [approval EXCEPT !.pc = "woken"]
    BY <1>4 DEF WakePublish
  <2>2. approval' \in Calls /\ approval'.pc = "woken"
    BY <1>0, <2>1 DEF Calls
  <2>3. WriterLocked' /\ writer' \in Locks /\ RecordedIsApproved'
    BY <2>1, <2>2, IdleFacts DEF WriterLocked, RecordedIsApproved
  <2>4. WorkerInv'
    BY <1>0, <2>1, <2>2, <2>3, StillTypes, ClientKeeps DEF WorkerInv, WorkerTypeOK
  <2> QED
    BY <2>1, <2>4
<1> QED
  BY <1>2, <1>3, <1>4

-----------------------------------------------------------------------------
(* The invariant *)

\* An empty queue with idle hosts.
LEMMA WorkerInvInit == WorkerInit => WorkerInv
<1> SUFFICES ASSUME WorkerInit PROVE WorkerInv
  OBVIOUS
<1>0. PICK e \in Episodes : e = CHOOSE f \in Episodes : TRUE
  BY WorkerConstants
<1>1. /\ token = [f \in Episodes |-> 0] /\ live = {} /\ last = [f \in Episodes |-> 0]
      /\ task = [f \in Episodes |-> NoTask] /\ order = <<>>
      /\ snapshot = [status |-> "CURRENT", tasks |-> task] /\ writer = Unlocked
      /\ turn = [t \in Turns |-> Idle(e)] /\ host = [h \in Hosts |-> "serving"]
      /\ phase = [f \in Episodes |-> "PRODUCING"] /\ approval = ApprovalOff(e) /\ restarts = MaxRestarts
  BY <1>0 DEF WorkerInit, FencedInit
<1>2. WorkerTypeOK
  <2>1. FencedTypeOK
    BY <1>1 DEF FencedTypeOK
  <2>2. task \in [Episodes -> Row] /\ turn \in [Turns -> Turn]
    BY <1>1, IdleFacts
  <2>3. snapshot \in [status : {"CURRENT", "WRITER_IN_PROGRESS"}, tasks : [Episodes -> Row]]
    BY <1>1, <2>2
  <2>4. approval \in Calls
    BY <1>1 DEF ApprovalOff, Gates, Calls
  <2>5. order \in Seq(Episodes) /\ restarts \in 0..MaxRestarts
    BY <1>1, WorkerConstants
  <2>6. /\ phase \in [Episodes -> Phases] /\ host \in [Hosts -> {"serving", "ended", "closing", "down"}]
    BY <1>1 DEF Phases
  <2> QED
    BY <1>1, <2>1, <2>2, <2>3, <2>4, <2>5, <2>6, IdleFacts DEF WorkerTypeOK, Locks, Calls
<1>3. TokensFresh /\ WorkersOwn
  <2>1. \A t \in Turns : turn[t].pc = "idle" /\ turn[t].tok = 0 /\ turn[t].e = e
    BY <1>1, IdleFacts
  <2>2. \A f \in Episodes : token[f] = 0 /\ last[f] = 0 /\ task[f].epoch = 0
    BY <1>1 DEF NoTask
  <2> QED
    BY <2>1, <2>2 DEF TokensFresh, WorkersOwn, Working
<1>4. WriterLocked /\ SnapshotNeverLies
  BY <1>1 DEF WriterLocked, SnapshotNeverLies
<1>5. RecordedIsApproved
  BY <1>1 DEF RecordedIsApproved, ApprovalOff
<1> QED
  BY <1>2, <1>3, <1>4, <1>5 DEF WorkerInv

\* Every action keeps the invariant.
LEMMA WorkerInvStep == WorkerInv /\ [WorkerNext]_vars => WorkerInv'
<1> SUFFICES ASSUME WorkerInv, [WorkerNext]_vars PROVE WorkerInv'
  OBVIOUS
<1>1. ASSUME NEW t \in Turns, TurnStep(t) PROVE WorkerInv'
  BY <1>1, PickKeeps, AcquireKeeps, WriterChecksKeep, CommitKeeps, PublishKeeps, HandlerKeeps,
     TurnEndKeeps, HostStopsKeeps DEF TurnStep
<1>2. ASSUME NEW t \in Turns, RenewLate(t) PROVE WorkerInv'
  BY <1>2, LeaseKeeps
<1>3. ASSUME NEW h \in Hosts, Signal(h) \/ HostExit(h) \/ HostStart(h) \/ HostCrash(h) PROVE WorkerInv'
  BY <1>3, HostStopsKeeps, HostStartKeeps, HostCrashKeeps
<1>4. ASSUME NEW e \in Episodes, Enqueue(e) \/ EnqueueConflict(e) \/ LeaseExpires(e) PROVE WorkerInv'
  BY <1>4, EnqueueKeeps, LeaseKeeps
<1>5. ASSUME NEW e \in Episodes, NEW gate \in Gates, ApproveAcquire(e, gate) PROVE WorkerInv'
  BY <1>5, AcquireKeeps
<1>6. ASSUME \/ \E e \in Episodes : RecordFixtureGate(e)
             \/ ApprovalStep \/ ApproveCrash
      PROVE  WorkerInv'
  BY <1>6, ApprovalKeeps, WakeKeeps DEF ApprovalStep
<1>7. CASE UNCHANGED vars
  <2>1. UNCHANGED <<task, order, snapshot, writer, turn, host, phase, approval, restarts, token, live, last>>
    BY <1>7 DEF vars, workerVars, leaseVars
  <2>2. \A u \in Turns : Calm(u)
    BY <2>1 DEF Calm
  <2>3. RecordedIsApproved' /\ LockCalm
    BY <2>1 DEF WorkerInv, RecordedIsApproved, Approved, LockCalm
  <2> QED
    BY <2>1, <2>2, <2>3, StillTypes, QuietKeeps DEF WorkerInv, WorkerTypeOK
<1> QED
  BY <1>1, <1>2, <1>3, <1>4, <1>5, <1>6, <1>7 DEF WorkerNext

\* The invariant holds in every reachable state.
LEMMA WorkerInvariance == WorkerSpec => []WorkerInv
BY WorkerInvInit, WorkerInvStep, PTL DEF WorkerSpec

-----------------------------------------------------------------------------
(* What may happen to a row *)

\* The epoch grows and stays below the granted tokens, a settled row stays, and
\* a waiting row waits for its approval.
RowMoves(f) ==
    /\ task'[f].epoch >= task[f].epoch /\ task'[f].epoch <= last[f]
    /\ task[f].status \in {"DONE", "UNKNOWN"} => task'[f] = task[f]
    /\ task[f].status = "WAITING" /\ task'[f] # task[f] => Approved(f, task[f].action)

\* A row that no mutation matches stays.
LEMMA CommitRows ==
    ASSUME WorkerInv, NEW t \in Turns, WriterCommit(t), NEW f \in Episodes
    PROVE  RowMoves(f)
<1>0. task \in [Episodes -> Row] /\ task[f].epoch \in Nat /\ task[f].epoch <= last[f]
  BY DEF WorkerInv, WorkerTypeOK, TokensFresh, Row
<1>1. task'[f].epoch >= task[f].epoch /\ task'[f].epoch <= last[f]
  BY <1>0, CommitKeeps
<1>2. task[f].status \notin {"PENDING", "RUNNING"} => task'[f] = task[f]
  BY <1>0 DEF WriterCommit, Claimable, RowOfEpoch
<1> QED
  BY <1>1, <1>2 DEF RowMoves

\* Only three actions write rows: the commit, enqueue() and wake_gate().
LEMMA RowsMove ==
    ASSUME WorkerInv, [WorkerNext]_vars, NEW f \in Episodes
    PROVE  RowMoves(f)
<1>0. task \in [Episodes -> Row] /\ task[f].epoch \in Nat /\ task[f].epoch <= last[f]
  BY DEF WorkerInv, WorkerTypeOK, TokensFresh, Row
<1>1. CASE UNCHANGED task
  BY <1>0, <1>1 DEF RowMoves
<1>2. ASSUME NEW t \in Turns, WriterCommit(t) PROVE RowMoves(f)
  BY <1>2, CommitRows
<1>3. ASSUME NEW e \in Episodes, Enqueue(e) PROVE RowMoves(f)
  BY <1>0, <1>3, EnqueueKeeps DEF RowMoves
<1>4. CASE WakeCommit
  <2>1. task'[f].epoch >= task[f].epoch /\ task'[f].epoch <= last[f]
    BY <1>0, <1>4, WakeKeeps
  <2>2. task[f].status \in {"DONE", "UNKNOWN"} => task'[f] = task[f]
    BY <1>4, WakeKeeps
  <2>3. task'[f] # task[f] => Approved(f, task[f].action)
    BY <1>4, WakeKeeps DEF WorkerInv, RecordedIsApproved
  <2> QED
    BY <2>1, <2>2, <2>3 DEF RowMoves
<1>5. \/ UNCHANGED task \/ WakeCommit
      \/ \E t \in Turns : WriterCommit(t)
      \/ \E e \in Episodes : Enqueue(e)
  <2>1. ASSUME NEW t \in Turns, TurnStep(t) PROVE UNCHANGED task \/ WriterCommit(t)
    BY <2>1 DEF TurnStep, Pick, Acquire, WriterEnter, WriterCheck, WriterPublish, HandlerReturns, DrainTimesOut,
                HandlerRaises, AssertOutcome, HandleException, ReleaseAssert, ReleaseDelete, TurnRaised
  <2>2. ASSUME NEW t \in Turns, RenewLate(t) PROVE UNCHANGED task
    BY <2>2 DEF RenewLate, workerVars
  <2>3. ASSUME NEW h \in Hosts, Signal(h) \/ HostExit(h) \/ HostStart(h) \/ HostCrash(h) PROVE UNCHANGED task
    BY <2>3 DEF Signal, HostExit, HostStart, HostCrash
  <2>4. ASSUME NEW e \in Episodes, EnqueueConflict(e) \/ LeaseExpires(e) \/ RecordFixtureGate(e)
        PROVE  UNCHANGED task
    BY <2>4 DEF EnqueueConflict, LeaseExpires, RecordFixtureGate, workerVars
  <2>5. ASSUME NEW e \in Episodes, NEW gate \in Gates, ApproveAcquire(e, gate) PROVE UNCHANGED task
    BY <2>5 DEF ApproveAcquire
  <2>6. RecordGate \/ AssertWake \/ WakeEnter \/ WakePublish \/ ApproveEnd \/ ApproveCrash => UNCHANGED task
    BY DEF RecordGate, AssertWake, WakeEnter, WakePublish, ApproveEnd, ApproveCrash
  <2>7. UNCHANGED vars => UNCHANGED task
    BY DEF vars, workerVars
  <2> QED
    BY <2>1, <2>2, <2>3, <2>4, <2>5, <2>6, <2>7, Zenon DEF WorkerNext, ApprovalStep
<1> QED
  BY <1>1, <1>2, <1>3, <1>4, <1>5

-----------------------------------------------------------------------------
(* The theorems *)

\* read_status(): a CURRENT snapshot shows exactly the committed rows, whatever
\* crashed or raised between the marker, the commit and the publication.
THEOREM SnapshotsTellTheTruth == WorkerSpec => []SnapshotNeverLies
BY WorkerInvariance, PTL DEF WorkerInv

\* A turn whose handler runs under a live lease owns the row at its own token,
\* although claim() checks the lease against an old clock reading.
THEOREM OwnersOwn == WorkerSpec => []ActiveOwnerOwnsRow
<1>1. WorkerInv => ActiveOwnerOwnsRow
  BY DEF WorkerInv, WorkersOwn, ActiveOwnerOwnsRow, Owns, Working
<1> QED
  BY <1>1, WorkerInvariance, PTL

\* The commits of claim() follow the order of the tokens: a late claim never
\* overwrites the row of a newer one.
THEOREM ClaimsInOrder == WorkerSpec => ClaimsFollowTokens
<1>1. WorkerInv /\ [WorkerNext]_vars
         => [\A e \in Episodes : task'[e].epoch >= task[e].epoch /\ task'[e].epoch <= last[e]]_vars
  BY RowsMove DEF RowMoves
<1> QED
  BY <1>1, WorkerInvariance, PTL DEF WorkerSpec, ClaimsFollowTokens

\* No expiry, restart or late turn schedules a settled episode again.
THEOREM SettledForGood == WorkerSpec => TerminalIsFinal
<1>1. WorkerInv /\ [WorkerNext]_vars
         => [\A e \in Episodes : task[e].status \in {"DONE", "UNKNOWN"} => task'[e] = task[e]]_vars
  BY RowsMove DEF RowMoves
<1> QED
  BY <1>1, WorkerInvariance, PTL DEF WorkerSpec, TerminalIsFinal

\* A task leaves a human gate only after its approval is in runner.json.
THEOREM GatesNeedApproval == WorkerSpec => GateNeedsApproval
<1>1. WorkerInv /\ [WorkerNext]_vars
         => [\A e \in Episodes :
                task[e].status = "WAITING" /\ task'[e] # task[e] => Approved(e, task[e].action)]_vars
  BY RowsMove DEF RowMoves
<1> QED
  BY <1>1, WorkerInvariance, PTL DEF WorkerSpec, GateNeedsApproval

=============================================================================
