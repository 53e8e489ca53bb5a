--------------------------- MODULE LedgerViewsProofs ---------------------------
(***************************************************************************)
(* The two views that are kept beside the standing ledger: the metrics of  *)
(* its claims and the billing snapshot of its calls.                       *)
(*                                                                         *)
(* Metrics, for any number of requests and writers.  A writer carries a    *)
(* payload across a lock it has to wait for, while the claim it was read   *)
(* from may be settled.  The payload stays true because the ledger never   *)
(* takes back a cap or an actual (the lemmas of StandingBudgetProofs): it  *)
(* may be overtaken, which is what a conflict records, but never wrong.    *)
(*                                                                         *)
(* Snapshot: one POST per request, funded, and no torn snapshot, for every *)
(* number of processes and requests.  None of the three is inductive:      *)
(* BillingInv adds which locks a call holds at each place (HoldsItsLocks), *)
(* what it therefore knows of its row (KnowsItsRow, OnePreparer), and what *)
(* the rows and the provider agree on between calls (RowsAgree).  A step   *)
(* moves one call and writes at most one of: a job row, the ledger, the    *)
(* snapshot, the provider.  Each kind has a lemma that reduces BillingInv' *)
(* to what the moving call must know (ControlStep, JobStep, LedgerStep,    *)
(* SnapshotStep); each action then has a lemma of its own.                 *)
(***************************************************************************)
EXTENDS OperationalMetrics, BillingSnapshot, StandingBudgetProofs

Rows == Payload \cup {NoPayload}

MetricsTypeOK ==
    /\ LedgerInv
    /\ seen \in [Requests -> Rows]
    /\ conflicts \subseteq Requests \X Rows \X Rows
    /\ snap.status \in {"MISSING", "WRITER_IN_PROGRESS", "CURRENT"}
    /\ writer \in [Writers -> [pc : MetricsPCs, req : Requests, payload : Rows]]

\* A payload is what the claim of r says, or said before it was settled.
Follows(r, p) ==
    /\ p \in Payload /\ claims[r].state # "NONE"
    /\ p.billing = "AUTHENTICATED" => claims[r].actual # Null /\ p.usd = claims[r].actual
    /\ p.billing = "UNKNOWN" => p.usd = claims[r].cap

\* A writer at its transaction or its publication holds the lock, behind the mark.
LockedBehindMark ==
    \A w \in Writers : writer[w].pc \in {"commit", "publish"}
                          => mlock = w /\ snap.status = "WRITER_IN_PROGRESS"

\* A writer reads the claim of a job that has one, and carries what it read.
WritersFollow ==
    \A w \in Writers :
        /\ writer[w].pc = "project" => claims[writer[w].req].state # "NONE"
        /\ writer[w].pc \in {"wait", "commit"} => Follows(writer[w].req, writer[w].payload)

RowsFollow == \A r \in Requests : seen[r] # NoPayload => Follows(r, seen[r])

ClashesAreSettled == \A k \in conflicts : claims[k[1]].actual # Null

MetricsInv ==
    /\ MetricsTypeOK
    /\ LockedBehindMark /\ ShownIsCommitted
    /\ WritersFollow /\ RowsFollow /\ ClashesAreSettled

-----------------------------------------------------------------------------
(* Lemmas about the operators *)

\* No payload is not a payload.
LEMMA NoPayloadFacts == NoPayload \in Rows /\ NoPayload \notin Payload
BY DEF NoPayload, Rows, Payload

\* A writer that starts again.
LEMMA NoWriterFacts ==
    NoWriter \in [pc : MetricsPCs, req : Requests, payload : Rows] /\ NoWriter.pc = "idle"
BY MetricsConstants, NoPayloadFacts DEF NoWriter, MetricsPCs

\* What a writer reads from a claim follows it (reconcile_durable_receipt).
LEMMA ProjectionFollows ==
    ASSUME LedgerInv, NEW r \in Requests, claims[r].state # "NONE"
    PROVE  Follows(r, Projection(claims[r]))
<1>1. claims[r] \in Claim
  BY DEF LedgerInv, LedgerTypeOK
<1>2. /\ claims[r].cap \in Nat /\ claims[r].actual \in Nat \cup {Null}
      /\ claims[r].actual # Null => claims[r].actual \in Nat /\ claims[r].state = "SETTLED"
  BY <1>1 DEF Claim, LedgerInv, ActualIsSettled
<1>3. CASE claims[r].state = "SETTLED" /\ claims[r].actual # Null
  <2>1. Projection(claims[r]) = [billing |-> "AUTHENTICATED", usd |-> claims[r].actual]
    BY <1>3 DEF Projection
  <2> QED
    BY <1>2, <1>3, <2>1 DEF Follows, Payload
<1>4. CASE ~(claims[r].state = "SETTLED" /\ claims[r].actual # Null)
  <2>1. Projection(claims[r]) = [billing |-> "UNKNOWN", usd |-> claims[r].cap]
    BY <1>4, Zenon DEF Projection
  <2> QED
    BY <1>2, <2>1 DEF Follows, Payload
<1> QED
  BY <1>3, <1>4

\* Whatever the ledger does, a payload stays true of its claim.
LEMMA FollowsStays ==
    ASSUME LedgerInv, LegalStep, NEW r \in Requests, NEW p, Follows(r, p)
    PROVE  Follows(r, p)'
<1>1. r \in Claimed
  BY DEF Follows, Claimed
<1>2. ClaimStays(r)
  BY <1>1, LegalStepKeepsLiabilities
<1> QED
  BY <1>2 DEF Follows, ClaimStays

\* Two payloads of one claim differ only where a settlement overtook an exposure.
LEMMA ClashNeedsSettlement ==
    ASSUME NEW r \in Requests, NEW p, NEW q, Follows(r, p), Follows(r, q), p # q
    PROVE  claims[r].actual # Null
<1>1. p \in Payload /\ q \in Payload
  BY DEF Follows
<1>2. SUFFICES ASSUME claims[r].actual = Null PROVE FALSE
  OBVIOUS
<1>3. p.billing = "UNKNOWN" /\ q.billing = "UNKNOWN"
  BY <1>1, <1>2 DEF Follows, Payload
<1>4. p.usd = q.usd
  BY <1>3 DEF Follows
<1> QED
  BY <1>1, <1>3, <1>4 DEF Payload

-----------------------------------------------------------------------------
(* The steps *)

\* A step of the ledger keeps what is on record true.
LEMMA LedgerKeeps ==
    ASSUME MetricsInv, LegalStep, month' \in 0..MaxMonth, UNCHANGED <<seen, conflicts>>
    PROVE  /\ LedgerInv' /\ RowsFollow' /\ ClashesAreSettled'
           /\ seen' \in [Requests -> Rows] /\ conflicts' \subseteq Requests \X Rows \X Rows
<1>0. LedgerInv
  BY DEF MetricsInv, MetricsTypeOK
<1>1. LedgerInv'
  BY <1>0, LegalStepKeepsRows DEF LedgerInv, LedgerTypeOK
<1>2. RowsFollow'
  <2>1. ASSUME NEW r \in Requests, seen[r] # NoPayload PROVE Follows(r, seen[r])'
    <3>1. PICK p : p = seen[r]
      OBVIOUS
    <3>2. Follows(r, p)
      BY <2>1, <3>1 DEF MetricsInv, RowsFollow
    <3>3. Follows(r, p)'
      BY <1>0, <3>2, FollowsStays
    <3> QED
      BY <3>1, <3>3 DEF Follows
  <2> QED
    BY <2>1 DEF RowsFollow, Follows
<1>3. ClashesAreSettled'
  <2>1. ASSUME NEW k \in conflicts PROVE claims'[k[1]].actual # Null
    <3>1. k[1] \in Requests /\ claims[k[1]].actual # Null
      BY <2>1 DEF MetricsInv, MetricsTypeOK, ClashesAreSettled
    <3>2. k[1] \in Claimed
      BY <1>0, <3>1 DEF LedgerInv, ActualIsSettled, Claimed
    <3>3. ClaimStays(k[1])
      BY <1>0, <3>2, LegalStepKeepsLiabilities
    <3> QED
      BY <3>1, <3>3 DEF ClaimStays
  <2> QED
    BY <2>1 DEF ClashesAreSettled
<1> QED
  BY <1>1, <1>2, <1>3 DEF MetricsInv, MetricsTypeOK

\* A writer that stays where it is carries on under any step of the ledger.
LEMMA OthersFollow ==
    ASSUME MetricsInv, LegalStep, NEW w \in Writers, writer'[w] = writer[w]
    PROVE  /\ writer'[w].pc = "project" => claims'[writer'[w].req].state # "NONE"
           /\ writer'[w].pc \in {"wait", "commit"} => Follows(writer[w].req, writer[w].payload)'
<1>0. LedgerInv /\ writer[w].req \in Requests
  BY DEF MetricsInv, MetricsTypeOK
<1>1. PICK r \in Requests : r = writer[w].req
  BY <1>0
<1>2. PICK p : p = writer[w].payload
  OBVIOUS
<1>3. ASSUME writer[w].pc = "project" PROVE claims'[r].state # "NONE"
  <2>1. r \in Claimed
    BY <1>1, <1>3 DEF MetricsInv, WritersFollow, Claimed
  <2> QED
    BY <1>0, <2>1, LegalStepKeepsLiabilities DEF ClaimStays
<1>4. ASSUME writer[w].pc \in {"wait", "commit"} PROVE Follows(r, p)'
  <2>1. Follows(r, p)
    BY <1>1, <1>2, <1>4 DEF MetricsInv, WritersFollow
  <2> QED
    BY <1>0, <2>1, FollowsStays
<1> QED
  BY <1>1, <1>2, <1>3, <1>4 DEF Follows

\* A writer that moves, to a place where it needs no more than it knows.
LEMMA WriterMoves ==
    ASSUME MetricsInv, LegalStep, month' \in 0..MaxMonth, UNCHANGED <<seen, conflicts>>,
           NEW w \in Writers, NEW v \in [pc : MetricsPCs, req : Requests, payload : Rows],
           writer' = [writer EXCEPT ![w] = v],
           snap' = snap \/ (snap' = InProgress /\ mlock' = w) \/ (snap' = Current /\ mlock = w),
           v.pc = "project" => claims'[v.req].state # "NONE",
           v.pc \in {"wait", "commit"} => Follows(v.req, v.payload)',
           v.pc \in {"commit", "publish"} => mlock' = w /\ snap' = InProgress,
           mlock' = mlock \/ mlock \in {w, Unlocked}
    PROVE  MetricsInv'
<1>1. /\ writer' \in [Writers -> [pc : MetricsPCs, req : Requests, payload : Rows]]
      /\ writer'[w] = v /\ \A u \in Writers \ {w} : writer'[u] = writer[u]
  BY DEF MetricsInv, MetricsTypeOK
<1>2. WritersFollow'
  <2>1. ASSUME NEW u \in Writers
        PROVE  /\ writer'[u].pc = "project" => claims'[writer'[u].req].state # "NONE"
               /\ writer'[u].pc \in {"wait", "commit"} => Follows(writer[u].req, writer[u].payload)'
    <3>1. CASE u = w
      BY <1>1, <3>1 DEF Follows
    <3>2. CASE u # w
      BY <1>1, <3>2, OthersFollow
    <3> QED
      BY <3>1, <3>2
  <2> QED
    BY <2>1 DEF WritersFollow
<1>3. LockedBehindMark'
  <2>0. InProgress.status = "WRITER_IN_PROGRESS" /\ Unlocked \notin Writers
    BY MetricsConstants DEF InProgress
  <2>1. ASSUME NEW u \in Writers, writer'[u].pc \in {"commit", "publish"}
        PROVE  mlock' = u /\ snap'.status = "WRITER_IN_PROGRESS"
    <3>1. CASE u = w
      BY <1>1, <2>0, <2>1, <3>1
    <3>2. CASE u # w
      <4>1. mlock = u /\ snap.status = "WRITER_IN_PROGRESS"
        BY <1>1, <2>1, <3>2 DEF MetricsInv, LockedBehindMark
      <4>2. mlock' = u
        BY <2>0, <3>2, <4>1
      <4> QED
        BY <3>2, <4>1, <4>2
    <3> QED
      BY <3>1, <3>2
  <2> QED
    BY <2>1 DEF LockedBehindMark
<1>4. /\ LedgerInv' /\ RowsFollow' /\ ClashesAreSettled'
      /\ seen' \in [Requests -> Rows] /\ conflicts' \subseteq Requests \X Rows \X Rows
  BY LedgerKeeps
<1>5. ShownIsCommitted' /\ snap'.status \in {"MISSING", "WRITER_IN_PROGRESS", "CURRENT"}
  <2>1. CASE snap' = snap
    BY <2>1 DEF MetricsInv, MetricsTypeOK, ShownIsCommitted, Readable
  <2>2. CASE snap' = InProgress
    BY <2>2 DEF InProgress, ShownIsCommitted, Readable
  <2>3. CASE snap' = Current
    BY <2>3 DEF Current, ShownIsCommitted, Readable
  <2> QED
    BY <2>1, <2>2, <2>3
<1> QED
  BY <1>1, <1>2, <1>3, <1>4, <1>5 DEF MetricsInv, MetricsTypeOK

\* The steps of a writer outside its transaction.
LEMMA WriterStepKeeps ==
    ASSUME MetricsInv, NEW w \in Writers,
           \/ OpenLedger(w) \/ Project(w) \/ Enter(w) \/ PublishMetrics(w) \/ WriterDies(w)
           \/ \E r \in Requests : Complete(w, r)
    PROVE  MetricsInv'
<1>0. /\ LedgerInv /\ month \in 0..MaxMonth
      /\ writer[w] \in [pc : MetricsPCs, req : Requests, payload : Rows] /\ writer[w].req \in Requests
      /\ writer[w].payload \in Rows
      /\ \A v : [writer EXCEPT ![w] = v] = [u \in Writers |-> IF u = w THEN v ELSE writer[u]]
  BY DEF MetricsInv, MetricsTypeOK, LedgerInv, LedgerTypeOK
<1>1. UNCHANGED ledgerVars => LegalStep /\ month' \in 0..MaxMonth /\ claims' = claims
  BY <1>0 DEF ledgerVars, LegalStep
<1>3. CASE OpenLedger(w)
  <2> DEFINE v == [writer[w] EXCEPT !.pc = "open"]
  <2>1. v \in [pc : MetricsPCs, req : Requests, payload : Rows] /\ v.pc = "open"
    BY <1>0 DEF MetricsPCs
  <2>2. writer' = [writer EXCEPT ![w] = v]
    BY <1>3 DEF OpenLedger, Reach
  <2> HIDE DEF v
  <2> QED
    BY <1>1, <1>3, <2>1, <2>2, WriterMoves DEF OpenLedger
<1>4. CASE Project(w)
  <2> DEFINE v == [writer[w] EXCEPT !.pc = "wait", !.payload = Projection(claims[writer[w].req])]
  <2>0. Follows(writer[w].req, Projection(claims[writer[w].req]))
    BY <1>0, <1>4, ProjectionFollows DEF Project, MetricsInv, WritersFollow
  <2>1. Projection(claims[writer[w].req]) \in Rows
    BY <2>0 DEF Follows, Rows
  <2>2. /\ v \in [pc : MetricsPCs, req : Requests, payload : Rows] /\ v.pc = "wait"
        /\ v.req = writer[w].req /\ v.payload = Projection(claims[writer[w].req])
    BY <1>0, <2>1 DEF MetricsPCs
  <2>3. writer' = [writer EXCEPT ![w] = v]
    BY <1>4 DEF Project
  <2>4. Follows(v.req, v.payload)
    BY <2>0, <2>2
  <2> HIDE DEF v
  <2>5. PICK k \in [pc : MetricsPCs, req : Requests, payload : Rows] : k = v
    BY <2>2
  <2>6. UNCHANGED <<ledgerVars, seen, conflicts, snap, mlock>>
    BY <1>4 DEF Project
  <2>7. Follows(k.req, k.payload)'
    BY <1>1, <2>4, <2>5, <2>6 DEF Follows
  <2>8. k.pc = "wait" /\ writer' = [writer EXCEPT ![w] = k]
    BY <2>2, <2>3, <2>5
  <2> QED
    BY <1>1, <2>6, <2>7, <2>8, WriterMoves
<1>5. CASE Enter(w)
  <2>0. /\ writer[w].pc \in {"wait", "open"} /\ mlock = Unlocked /\ mlock' = w /\ snap' = InProgress
        /\ UNCHANGED <<ledgerVars, seen, conflicts>>
    BY <1>5 DEF Enter, MarkInProgress
  <2>1. PICK l \in {"commit", "publish"} :
            writer' = [writer EXCEPT ![w].pc = l] /\ (l = "commit" => writer[w].pc = "wait")
    BY <1>5, <2>0 DEF Enter, Reach
  <2>2. PICK k \in [pc : MetricsPCs, req : Requests, payload : Rows] :
            /\ k = [writer[w] EXCEPT !.pc = l] /\ k.pc = l
            /\ k.req = writer[w].req /\ k.payload = writer[w].payload
    <3> DEFINE v == [writer[w] EXCEPT !.pc = l]
    <3>1. v \in [pc : MetricsPCs, req : Requests, payload : Rows] /\ v.pc = l /\ v.req = writer[w].req
          /\ v.payload = writer[w].payload
      BY <1>0 DEF MetricsPCs
    <3> QED
      BY <3>1, Zenon
  <2>3. writer' = [writer EXCEPT ![w] = k]
    BY <2>1, <2>2
  <2>4. l = "commit" => Follows(k.req, k.payload)
    BY <2>1, <2>2 DEF MetricsInv, WritersFollow
  <2>5. k.pc \in {"wait", "commit"} => Follows(k.req, k.payload)'
    BY <1>1, <2>0, <2>2, <2>4 DEF Follows
  <2> QED
    BY <1>1, <2>0, <2>2, <2>3, <2>5, WriterMoves
<1>6. CASE PublishMetrics(w)
  <2>1. mlock = w
    BY <1>6 DEF PublishMetrics, MetricsInv, LockedBehindMark
  <2> QED
    BY <1>1, <1>6, <2>1, NoWriterFacts, WriterMoves DEF PublishMetrics
<1>7. CASE WriterDies(w)
  BY <1>1, <1>7, NoWriterFacts, WriterMoves DEF WriterDies
<1>8. ASSUME NEW r \in Requests, Complete(w, r)
      PROVE  MetricsInv'
  <2>0. /\ MayForget(r, 0) /\ Forgotten(r, 0) /\ UNCHANGED <<month, seen, conflicts, snap, mlock>>
        /\ writer' = [writer EXCEPT ![w] = [writer[w] EXCEPT !.pc = "project", !.req = r]]
    BY <1>8 DEF Complete
  <2>1. LegalStep
    BY <1>0, <2>0, 0 \in Nat, ForgottenIsLegal, Zenon
  <2>2. PICK k \in [pc : MetricsPCs, req : Requests, payload : Rows] :
            k = [writer[w] EXCEPT !.pc = "project", !.req = r] /\ k.pc = "project" /\ k.req = r
    <3> DEFINE v == [writer[w] EXCEPT !.pc = "project", !.req = r]
    <3>1. v \in [pc : MetricsPCs, req : Requests, payload : Rows] /\ v.pc = "project" /\ v.req = r
      BY <1>0 DEF MetricsPCs
    <3> QED
      BY <3>1, Zenon
  <2>3. r \in Claimed
    BY <2>0 DEF MayForget, MayWrite, Claimed
  <2>4. claims'[r].state # "NONE"
    BY <1>0, <2>1, <2>3, LegalStepKeepsLiabilities DEF ClaimStays
  <2> QED
    BY <1>0, <2>0, <2>1, <2>2, <2>4, WriterMoves
<1> QED
  BY <1>3, <1>4, <1>5, <1>6, <1>7, <1>8

\* The transaction of reconcile(): it inserts a row that follows its claim, or
\* records a clash that only a settlement can have caused.
LEMMA CommitKeeps ==
    ASSUME MetricsInv, NEW w \in Writers, Commit(w)
    PROVE  /\ MetricsInv'
           /\ \A r \in Requests : seen[r] # NoPayload => seen'[r] = seen[r]
           /\ conflicts \subseteq conflicts'
<1> DEFINE r == writer[w].req
           p == writer[w].payload
<1>0. /\ writer[w].pc = "commit" /\ seen' = [seen EXCEPT ![r] = IF @ = NoPayload THEN p ELSE @]
      /\ conflicts' = IF seen[r] \in {NoPayload, p} THEN conflicts ELSE conflicts \cup {<<r, seen[r], p>>}
      /\ writer' = [writer EXCEPT ![w].pc = "publish"]
      /\ UNCHANGED <<claims, month, snap, mlock>>
  BY DEF Commit, Inserts, Reach, ledgerVars
<1>1. /\ r \in Requests /\ p \in Rows /\ seen \in [Requests -> Rows] /\ LedgerInv
      /\ writer[w] \in [pc : MetricsPCs, req : Requests, payload : Rows]
      /\ conflicts \subseteq Requests \X Rows \X Rows
  BY DEF MetricsInv, MetricsTypeOK
<1>2. mlock = w /\ snap.status = "WRITER_IN_PROGRESS" /\ Follows(r, p)
  BY <1>0 DEF MetricsInv, LockedBehindMark, WritersFollow
<1>3. PICK v \in [pc : MetricsPCs, req : Requests, payload : Rows] :
          v = [writer[w] EXCEPT !.pc = "publish"] /\ v.pc = "publish"
  <2> DEFINE u == [writer[w] EXCEPT !.pc = "publish"]
  <2>1. u \in [pc : MetricsPCs, req : Requests, payload : Rows] /\ u.pc = "publish"
    BY <1>1 DEF MetricsPCs
  <2> QED
    BY <2>1, Zenon
<1>4. /\ writer' \in [Writers -> [pc : MetricsPCs, req : Requests, payload : Rows]]
      /\ writer'[w] = v /\ \A u \in Writers \ {w} : writer'[u] = writer[u]
  <2>1. writer' = [writer EXCEPT ![w] = v]
    BY <1>0, <1>3
  <2> QED
    BY <2>1 DEF MetricsInv, MetricsTypeOK
<1> HIDE DEF r, p
<1>5. /\ seen' \in [Requests -> Rows] /\ seen'[r] = IF seen[r] = NoPayload THEN p ELSE seen[r]
      /\ \A q \in Requests \ {r} : seen'[q] = seen[q]
  BY <1>0, <1>1
<1>6. RowsFollow'
  <2>1. \A q \in Requests : seen'[q] # NoPayload => Follows(q, seen'[q])
    BY <1>2, <1>5 DEF MetricsInv, RowsFollow
  <2> QED
    BY <1>0, <2>1 DEF RowsFollow, Follows
<1>7. /\ conflicts' \subseteq Requests \X Rows \X Rows /\ conflicts \subseteq conflicts'
      /\ ClashesAreSettled'
  <2>1. CASE seen[r] \in {NoPayload, p}
    BY <1>0, <1>1, <2>1 DEF MetricsInv, ClashesAreSettled
  <2>2. CASE seen[r] \notin {NoPayload, p}
    <3>1. conflicts' = conflicts \cup {<<r, seen[r], p>>} /\ seen[r] \in Rows
      BY <1>0, <1>1, <2>2
    <3>2. claims[r].actual # Null
      BY <1>1, <1>2, <2>2, ClashNeedsSettlement DEF MetricsInv, RowsFollow
    <3>3. <<r, seen[r], p>>[1] = r
      OBVIOUS
    <3> QED
      BY <1>0, <1>1, <3>1, <3>2, <3>3 DEF MetricsInv, ClashesAreSettled
  <2> QED
    BY <2>1, <2>2
<1>8. WritersFollow'
  <2>1. \A u \in Writers : /\ writer'[u].pc = "project" => claims[writer'[u].req].state # "NONE"
                           /\ writer'[u].pc \in {"wait", "commit"}
                                 => Follows(writer'[u].req, writer'[u].payload)
    BY <1>3, <1>4 DEF MetricsInv, WritersFollow
  <2> QED
    BY <1>0, <2>1 DEF WritersFollow, Follows
<1>9. LockedBehindMark'
  BY <1>0, <1>2, <1>3, <1>4 DEF MetricsInv, LockedBehindMark
<1>10. ShownIsCommitted'
  BY <1>0, <1>2 DEF ShownIsCommitted, Readable
<1>11. LedgerInv'
  BY <1>0, <1>1 DEF LedgerInv, LedgerTypeOK, ActualIsSettled
<1> QED
  BY <1>0, <1>2, <1>4, <1>5, <1>6, <1>7, <1>8, <1>9, <1>10, <1>11 DEF MetricsInv, MetricsTypeOK

-----------------------------------------------------------------------------
(* The invariant and the theorems *)

\* Every step keeps the invariant ...
LEMMA MetricsInvStep == MetricsInv /\ [MetricsNext]_allVars => MetricsInv'
<1> SUFFICES ASSUME MetricsInv, [MetricsNext]_allVars PROVE MetricsInv'
  OBVIOUS
<1>0. LedgerInv
  BY DEF MetricsInv, MetricsTypeOK
<1>1. CASE [LedgerNext]_ledgerVars /\ UNCHANGED metricsVars
  <2>1. LegalStep /\ month' \in 0..MaxMonth /\ UNCHANGED <<seen, conflicts, snap, writer, mlock>>
    BY <1>0, <1>1, LedgerNextIsLegal DEF metricsVars
  <2>2. WritersFollow'
    BY <2>1, OthersFollow DEF WritersFollow
  <2>3. ShownIsCommitted' /\ LockedBehindMark'
    BY <2>1 DEF MetricsInv, ShownIsCommitted, Readable, LockedBehindMark
  <2> QED
    BY <2>1, <2>2, <2>3, LedgerKeeps DEF MetricsInv, MetricsTypeOK
<1>2. ASSUME NEW w \in Writers,
             \/ OpenLedger(w) \/ Project(w) \/ Enter(w) \/ PublishMetrics(w) \/ WriterDies(w)
             \/ \E r \in Requests : Complete(w, r)
      PROVE  MetricsInv'
  BY <1>2, WriterStepKeeps
<1>3. ASSUME NEW w \in Writers, Commit(w) PROVE MetricsInv'
  BY <1>3, CommitKeeps
<1> QED
  BY <1>1, <1>2, <1>3, Zenon DEF MetricsNext, allVars

\* ... and it holds of the empty database.
LEMMA MetricsInvariance == MetricsSpec => []MetricsInv
<1>1. MetricsInit => MetricsInv
  <2> SUFFICES ASSUME MetricsInit PROVE MetricsInv
    OBVIOUS
  <2>1. LedgerInv
    BY NoClaimType, LedgerConstants DEF MetricsInit, LedgerInit, LedgerInv, LedgerTypeOK, ActualIsSettled
  <2>2. \A r \in Requests : seen[r] = NoPayload
    BY DEF MetricsInit, NoRows
  <2>3. \A w \in Writers : writer[w].pc = "idle"
    BY NoWriterFacts DEF MetricsInit
  <2>4. MetricsTypeOK
    BY <2>1, NoWriterFacts, NoPayloadFacts DEF MetricsInit, MetricsTypeOK, NoRows
  <2>5. ShownIsCommitted
    BY DEF MetricsInit, ShownIsCommitted, Readable
  <2> QED
    BY <2>2, <2>3, <2>4, <2>5 DEF MetricsInit, MetricsInv, LockedBehindMark, WritersFollow, RowsFollow,
                                  ClashesAreSettled
<1> QED
  BY <1>1, MetricsInvStep, PTL DEF MetricsSpec

\* Whatever the status command is shown as current is the report of the database
\* as it is, wherever writers died (_write_snapshot).
THEOREM ReportsAreCommitted == MetricsSpec => []ShownIsCommitted
BY MetricsInvariance, PTL DEF MetricsInv

\* A row or a conflict says of its claim what the ledger says, although the claim
\* may be settled while a writer waits (reconcile_durable_receipt, reconcile).
THEOREM TelemetryFollows == MetricsSpec => []MetricsFollowTheLedger
<1>1. MetricsInv => MetricsFollowTheLedger
  BY DEF MetricsInv, MetricsTypeOK, RowsFollow, Follows, ClashesAreSettled, MetricsFollowTheLedger, Recorded,
         LedgerInv, ActualIsSettled
<1> QED
  BY <1>1, MetricsInvariance, PTL

\* No replay and no late settlement rewrites a row or drops a conflict (reconcile).
THEOREM EvidenceStays == MetricsSpec => EvidenceIsAppendOnly
<1>1. MetricsInv /\ [MetricsNext]_allVars
         => [ /\ \A r \in Recorded : seen'[r] = seen[r]
              /\ conflicts \subseteq conflicts' ]_allVars
  <2> SUFFICES ASSUME MetricsInv, MetricsNext
               PROVE  (\A r \in Recorded : seen'[r] = seen[r]) /\ conflicts \subseteq conflicts'
    OBVIOUS
  <2>1. CASE UNCHANGED <<seen, conflicts>>
    BY <2>1
  <2>2. ASSUME NEW w \in Writers, Commit(w)
        PROVE  (\A r \in Recorded : seen'[r] = seen[r]) /\ conflicts \subseteq conflicts'
    BY <2>2, CommitKeeps DEF Recorded
  <2>3. \/ UNCHANGED <<seen, conflicts>>
        \/ \E w \in Writers : Commit(w)
    BY DEF MetricsNext, metricsVars, OpenLedger, Complete, Project, Enter, PublishMetrics, WriterDies
  <2> QED
    BY <2>1, <2>2, <2>3
<1> QED
  BY <1>1, MetricsInvariance, PTL DEF MetricsSpec, EvidenceIsAppendOnly

\* The metrics are a view: seen through its claims and its month, a ledger with writers beside
\* it is the ledger alone.  A completed job is one more mark_unknown(), and no writer touches a
\* claim.
THEOREM MetricsImplementLedger == MetricsSpec => LedgerSpec
<1>1. MetricsInit => LedgerInit
  BY DEF MetricsInit
<1>2. [MetricsNext]_allVars => [LedgerNext]_ledgerVars
  <2> SUFFICES ASSUME [MetricsNext]_allVars PROVE [LedgerNext]_ledgerVars
    OBVIOUS
  <2>1. CASE UNCHANGED allVars
    BY <2>1 DEF allVars
  <2>2. ASSUME NEW w \in Writers, NEW r \in Requests, Complete(w, r) PROVE LedgerNext
    <3>1. MarkUnknown(r)
      BY <2>2 DEF Complete, MarkUnknown
    <3> QED
      BY <3>1 DEF LedgerNext
  <2>3. ASSUME NEW w \in Writers,
               OpenLedger(w) \/ Project(w) \/ Enter(w) \/ Commit(w) \/ PublishMetrics(w) \/ WriterDies(w)
        PROVE  UNCHANGED ledgerVars
    BY <2>3 DEF OpenLedger, Project, Enter, Commit, PublishMetrics, WriterDies
  <2> QED
    BY <2>1, <2>2, <2>3 DEF MetricsNext
<1> QED
  BY <1>1, <1>2, PTL DEF MetricsSpec, LedgerSpec

\* The ceilings hold beside the writers of metrics too (reserve(), exposure()).
THEOREM MetricsCeilings == MetricsSpec => []LedgerWithinLimits
BY MetricsImplementLedger, CeilingsHold, PTL

-----------------------------------------------------------------------------
(* The billing snapshot: what a call knows *)

\* Places at which a call owns the fresh row of its request.
PreparingPCs == {"prepared", "direct"}

\* Calls that hold the executor's lock of their request, and calls that hold the
\* coordinator lock behind a marker.
RunnerPCs == RunPCs \cup BindPCs
WriterPCs == AdmitPCs \cup BindPCs \cup UnknownPCs \cup SettlePCs
AfterPostPCs == {"recover", "bind", "resolve"} \cup BindPCs
SettlingPCs == ReconcilePCs \cup UnknownPCs \cup SettlePCs

Unsent == {"NONE", "INTENT", "PREPARED"}

Funded(r) == claims[r].state # "NONE" /\ claims[r].cap = Cost[r]

\* Every call holds the locks its next step relies on.
HoldsItsLocks(p) ==
    /\ proc[p].pc \in RunnerPCs => running[proc[p].r] = p
    /\ proc[p].pc \in WriterPCs => lock = p /\ snapshot.status = "WRITER_IN_PROGRESS"

\* What a call that is about to write a row knows of it.
KnowsItsRow(p) ==
    LET pc == proc[p].pc
        r == proc[p].r
    IN  /\ pc \in PreparingPCs => job[r].status = "INTENT"
        /\ pc = "submitting" => job[r].status = "PREPARED" /\ Funded(r)
        /\ pc = "post" => job[r].status = "SUBMITTING" /\ posts[r] = 0 /\ Funded(r)
        /\ pc \in AfterPostPCs => posts[r] > 0
        /\ pc = "recover" => job[r].pid # Unassigned
        /\ pc \in {"bind", "bind_job", "bind_claim"} => proc[p].pid # Unassigned
        /\ pc \in SettlingPCs => /\ claims[r].state # "NONE"
                                 /\ job[r].pid = proc[p].pid /\ proc[p].pid # Unassigned

\* One call at a time turns the fresh row of a request into a prepared one.
OnePreparer ==
    \A p, q \in Procs :
       /\ proc[p].pc \in PreparingPCs /\ proc[q].pc \in PreparingPCs
       /\ proc[p].r = proc[q].r
       => p = q

\* What the two rows of a request and the provider agree on.
RowsAgree(r) ==
    /\ posts[r] <= 1
    /\ posts[r] > 0 => Funded(r) /\ job[r].status \notin Unsent
    /\ job[r].pid # Unassigned => posts[r] > 0
    /\ job[r].status = "SUBMITTED" => job[r].pid # Unassigned
    /\ claims[r].actual # Null => claims[r].pid = job[r].pid /\ claims[r].pid # Unassigned

\* A CURRENT snapshot is of a request that has a row.
CurrentHasRows == snapshot.status = "CURRENT" => job[snapshot.r].status # "NONE"

\* The inductive invariant.
BillingInv ==
    /\ BillingTypeOK /\ ActualIsSettled
    /\ \A p \in Procs : HoldsItsLocks(p) /\ KnowsItsRow(p)
    /\ OnePreparer
    /\ \A r \in Requests : RowsAgree(r)
    /\ CurrentIsCoherent /\ CurrentHasRows

\* What a step of another process leaves to q: its call, its locks, and what it
\* knows of its row.
Undisturbed(q) ==
    LET r == proc[q].r
    IN  /\ proc'[q] = proc[q]
        /\ running[r] = q => running'[r] = q
        /\ lock = q => lock' = q /\ snapshot' = snapshot
        /\ posts'[r] \in Nat /\ posts'[r] >= posts[r]
        /\ running[r] = q => posts'[r] = posts[r]
        /\ proc[q].pc \in {"prepared", "direct", "submitting", "post"} => job'[r].status = job[r].status
        /\ job[r].pid # Unassigned => job'[r].pid = job[r].pid
        /\ claims[r].state # "NONE" => ClaimStays(r)

ProcRecord == [pc : PCs, r : Requests, gen : Nat, pid : Nat, bill : Nat]

\* The call of p moves on, with its locks or without them.
Moves(p) ==
    /\ proc' \in [Procs -> ProcRecord]
    /\ lock' \in Procs \cup {Nobody} /\ running' \in [Requests -> Procs \cup {Nobody}]
    /\ \A q \in Procs : q # p => proc'[q] = proc[q]
    /\ \A q \in Procs : q # p /\ lock = q => lock' = q
    /\ \A q \in Procs, r \in Requests : q # p /\ running[r] = q => running'[r] = q

-----------------------------------------------------------------------------
(* How calls move *)

\* A call's own variables are well formed.
LEMMA ProcFields ==
    ASSUME BillingInv, NEW p \in Procs
    PROVE  /\ proc \in [Procs -> ProcRecord] /\ proc[p] \in ProcRecord
           /\ proc[p].r \in Requests /\ proc[p].gen \in Nat /\ proc[p].pid \in Nat
           /\ proc[p].bill \in Nat /\ proc[p].pc \in PCs
           /\ p # Nobody
BY BillingConstants DEF BillingInv, BillingTypeOK, ProcRecord

\* Going on keeps everything of the call but its place.
LEMMA GotoMoves ==
    ASSUME BillingInv, NEW p \in Procs, NEW pc \in PCs, Goto(p, pc)
    PROVE  /\ Moves(p) /\ UNCHANGED <<lock, running>>
           /\ proc'[p].pc = pc /\ proc'[p].r = proc[p].r /\ proc'[p].gen = proc[p].gen
           /\ proc'[p].pid = proc[p].pid /\ proc'[p].bill = proc[p].bill
<1> DEFINE d == [proc[p] EXCEPT !.pc = pc]
<1>1. d \in ProcRecord /\ d.pc = pc /\ d.r = proc[p].r /\ d.gen = proc[p].gen
      /\ d.pid = proc[p].pid /\ d.bill = proc[p].bill
  BY ProcFields DEF ProcRecord
<1>2. proc' = [proc EXCEPT ![p] = d] /\ UNCHANGED <<lock, running>>
  BY Zenon DEF Goto
<1> HIDE DEF d
<1>3. proc'[p] = d /\ proc' \in [Procs -> ProcRecord] /\ \A q \in Procs : q # p => proc'[q] = proc[q]
  BY <1>1, <1>2, ProcFields
<1> QED
  BY <1>1, <1>2, <1>3 DEF Moves, BillingInv, BillingTypeOK

\* Ending a call frees its locks and no other.
LEMMA EndMoves ==
    ASSUME BillingInv, NEW p \in Procs, End(p)
    PROVE  Moves(p) /\ proc'[p].pc = "idle"
<1> DEFINE d == Outside(AnyRequest)
<1>1. d \in ProcRecord /\ d.pc = "idle"
  <2>1. AnyRequest \in Requests
    BY BillingConstants DEF AnyRequest
  <2> QED
    BY <2>1 DEF Outside, ProcRecord, PCs, Unassigned
<1>2. proc' = [proc EXCEPT ![p] = d]
  BY Zenon DEF End
<1> HIDE DEF d
<1>3. proc'[p] = d /\ proc' \in [Procs -> ProcRecord] /\ \A q \in Procs : q # p => proc'[q] = proc[q]
  BY <1>1, <1>2, ProcFields
<1>4. /\ lock' \in Procs \cup {Nobody} /\ running' \in [Requests -> Procs \cup {Nobody}]
      /\ \A q \in Procs : q # p /\ lock = q => lock' = q
      /\ \A q \in Procs, r \in Requests : q # p /\ running[r] = q => running'[r] = q
  BY ProcFields DEF End, BillingInv, BillingTypeOK
<1> QED
  BY <1>1, <1>3, <1>4 DEF Moves

\* Marking takes the free coordinator lock and hides the rows behind a marker.
LEMMA MarkMoves ==
    ASSUME BillingInv, NEW p \in Procs, NEW r \in Requests, NEW pc \in PCs, Mark(p, r, pc)
    PROVE  /\ Moves(p) /\ lock = Nobody /\ lock' = p /\ running' = running
           /\ proc'[p].pc = pc /\ proc'[p].r = r /\ proc'[p].pid = proc[p].pid
           /\ proc'[p].bill = proc[p].bill
           /\ snapshot'.status = "WRITER_IN_PROGRESS"
           /\ snapshot' \in [status : {"CURRENT", "WRITER_IN_PROGRESS"}, gen : Nat, r : Requests,
                             job : Job, claim : Claim]
<1> DEFINE g == snapshot.gen + 1
           d == [proc[p] EXCEPT !.pc = pc, !.r = r, !.gen = g]
<1>1. g \in Nat
  BY DEF BillingInv, BillingTypeOK
<1>2. /\ proc' = [proc EXCEPT ![p] = d] /\ lock = Nobody /\ lock' = p /\ running' = running
      /\ snapshot' = Marker(r, g)
  BY Zenon DEF Mark
<1> HIDE DEF g
<1>3. d \in ProcRecord /\ d.pc = pc /\ d.r = r /\ d.pid = proc[p].pid /\ d.bill = proc[p].bill
  BY <1>1, ProcFields DEF ProcRecord
<1> HIDE DEF d
<1>4. proc'[p] = d /\ proc' \in [Procs -> ProcRecord] /\ \A q \in Procs : q # p => proc'[q] = proc[q]
  BY <1>2, <1>3, ProcFields
<1>5. NoJob \in Job
  BY DEF NoJob, Job, JobStatuses, Unassigned
<1>6. /\ snapshot'.status = "WRITER_IN_PROGRESS"
      /\ snapshot' \in [status : {"CURRENT", "WRITER_IN_PROGRESS"}, gen : Nat, r : Requests,
                        job : Job, claim : Claim]
  BY <1>1, <1>2, <1>5, NoClaimType DEF Marker
<1>7. Moves(p)
  BY <1>2, <1>4, ProcFields DEF Moves, BillingInv, BillingTypeOK
<1> QED
  BY <1>2, <1>3, <1>4, <1>6, <1>7

\* Whoever is undisturbed still holds its locks and knows its row.
LEMMA UndisturbedKeeps ==
    ASSUME BillingInv, NEW q \in Procs, Undisturbed(q)
    PROVE  HoldsItsLocks(q)' /\ KnowsItsRow(q)'
<1> DEFINE r == proc[q].r
<1>1. /\ proc'[q] = proc[q] /\ HoldsItsLocks(q) /\ KnowsItsRow(q) /\ r \in Requests
      /\ posts[r] \in Nat
  BY ProcFields DEF BillingInv, BillingTypeOK, Undisturbed
<1>2. HoldsItsLocks(q)'
  BY <1>1 DEF HoldsItsLocks, Undisturbed
<1>3. Funded(r) => Funded(r)'
  BY <1>1 DEF Undisturbed, Funded, ClaimStays
<1>4. KnowsItsRow(q)'
  BY <1>1, <1>3 DEF KnowsItsRow, HoldsItsLocks, Undisturbed, ClaimStays, Funded, RunnerPCs, RunPCs,
                    PreparingPCs
<1> QED
  BY <1>2, <1>4

-----------------------------------------------------------------------------
(* Kinds of steps *)

\* From here on a place stands for the sets it belongs to.
USE DEF PCs, RunnerPCs, WriterPCs, AfterPostPCs, SettlingPCs, PreparingPCs, RunPCs, BindPCs,
        AdmitPCs, UnknownPCs, SettlePCs, ReconcilePCs

\* A step that writes nothing shared but locks.
LEMMA ControlStep ==
    ASSUME BillingInv, NEW p \in Procs, Moves(p),
           UNCHANGED <<job, snapshot, posts, claims, month>>, faults' \in 0..MaxFaults,
           HoldsItsLocks(p)', KnowsItsRow(p)', proc'[p].pc \notin PreparingPCs
    PROVE  BillingInv'
<1>1. BillingTypeOK' /\ ActualIsSettled'
  BY DEF BillingInv, BillingTypeOK, LedgerTypeOK, ActualIsSettled, Moves, ProcRecord
<1>2. ASSUME NEW q \in Procs, q # p PROVE Undisturbed(q)
  <2>1. proc[q].r \in Requests /\ posts[proc[q].r] \in Nat
    BY ProcFields DEF BillingInv, BillingTypeOK
  <2>2. claims[proc[q].r].state # "NONE" => ClaimStays(proc[q].r)
    BY <2>1 DEF ClaimStays, BillingInv, ActualIsSettled
  <2> QED
    BY <1>2, <2>1, <2>2 DEF Undisturbed, Moves
<1>3. \A q \in Procs : HoldsItsLocks(q)' /\ KnowsItsRow(q)'
  BY <1>2, UndisturbedKeeps
<1>4. OnePreparer'
  BY DEF BillingInv, OnePreparer, Moves
<1>5. \A r \in Requests : RowsAgree(r)'
  BY DEF BillingInv, RowsAgree, Funded
<1>6. CurrentIsCoherent' /\ CurrentHasRows'
  BY DEF BillingInv, CurrentIsCoherent, CurrentHasRows
<1> QED
  BY <1>1, <1>3, <1>4, <1>5, <1>6 DEF BillingInv

\* The row of r is rewritten to j, which keeps an assigned remote id; whoever
\* else knows the row's status holds it by a lock, so keeps it.
JobWrite(r, j) ==
    /\ j \in Job /\ job' = [job EXCEPT ![r] = j]
    /\ j.status # "NONE"
    /\ job[r].pid # Unassigned => j.pid = job[r].pid
    /\ j.pid # Unassigned => posts[r] > 0
    /\ j.status = "SUBMITTED" => j.pid # Unassigned
    /\ posts[r] > 0 => j.status \notin Unsent
    /\ \/ j.gen = job[r].gen /\ j.pid = job[r].pid
       \/ snapshot.status # "CURRENT"
       \/ job[r].status = "NONE"

\* No other call relies on the status of the row of r.
StatusIsFree(p, r) ==
    \A q \in Procs : q # p /\ proc[q].r = r =>
        proc[q].pc \notin {"prepared", "direct", "submitting", "post"}

\* A step that writes one job row and goes on.
LEMMA JobStep ==
    ASSUME BillingInv, NEW p \in Procs, NEW r \in Requests, NEW j, Moves(p),
           JobWrite(r, j), j.status = job[r].status \/ StatusIsFree(p, r),
           UNCHANGED <<snapshot, posts, claims, month>>, faults' \in 0..MaxFaults,
           HoldsItsLocks(p)', KnowsItsRow(p)', OnePreparer'
    PROVE  BillingInv'
<1>0. \A q \in Requests : job'[q] = IF q = r THEN j ELSE job[q]
  BY DEF BillingInv, BillingTypeOK, JobWrite
<1>1. BillingTypeOK' /\ ActualIsSettled'
  BY DEF BillingInv, BillingTypeOK, LedgerTypeOK, ActualIsSettled, Moves, ProcRecord, JobWrite
<1>2. ASSUME NEW q \in Procs, q # p PROVE Undisturbed(q)
  <2>1. proc[q].r \in Requests /\ posts[proc[q].r] \in Nat
    BY ProcFields DEF BillingInv, BillingTypeOK
  <2>2. claims[proc[q].r].state # "NONE" => ClaimStays(proc[q].r)
    BY <2>1 DEF ClaimStays, BillingInv, ActualIsSettled
  <2> QED
    BY <1>0, <1>2, <2>1, <2>2 DEF Undisturbed, Moves, JobWrite, StatusIsFree
<1>3. \A q \in Procs : HoldsItsLocks(q)' /\ KnowsItsRow(q)'
  BY <1>2, UndisturbedKeeps
<1>5. ASSUME NEW q \in Requests PROVE RowsAgree(q)'
  <2>1. RowsAgree(q)
    BY DEF BillingInv
  <2> QED
    BY <1>0, <2>1 DEF RowsAgree, Funded, JobWrite
<1>6. CurrentIsCoherent' /\ CurrentHasRows'
  BY <1>0 DEF BillingInv, BillingTypeOK, CurrentIsCoherent, CurrentHasRows, JobWrite
<1> QED
  BY <1>1, <1>3, <1>5, <1>6 DEF BillingInv

\* A step of a coordinator method that writes the ledger behind its marker.
LEMMA LedgerStep ==
    ASSUME BillingInv, NEW p \in Procs, Moves(p), LegalStep,
           UNCHANGED <<job, snapshot, posts, faults, month>>,
           snapshot.status = "WRITER_IN_PROGRESS",
           \A r \in Requests : claims'[r].actual # Null =>
              \/ claims[r].actual # Null
              \/ claims'[r].pid = job[r].pid /\ claims'[r].pid # Unassigned,
           HoldsItsLocks(p)', KnowsItsRow(p)', proc'[p].pc \notin PreparingPCs
    PROVE  BillingInv'
<1>0. /\ LedgerInv /\ claims' \in [Requests -> Claim] /\ ActualIsSettled'
      /\ \A r \in Requests : claims[r].state # "NONE" => ClaimStays(r)
  BY LegalStepKeepsRows, LegalStepKeepsLiabilities DEF LedgerInv, BillingInv, BillingTypeOK, Claimed
<1>1. BillingTypeOK'
  BY <1>0 DEF BillingInv, BillingTypeOK, LedgerTypeOK, Moves, ProcRecord
<1>2. ASSUME NEW q \in Procs, q # p PROVE Undisturbed(q)
  <2>1. proc[q].r \in Requests /\ posts[proc[q].r] \in Nat
    BY ProcFields DEF BillingInv, BillingTypeOK
  <2> QED
    BY <1>0, <1>2, <2>1 DEF Undisturbed, Moves
<1>3. \A q \in Procs : HoldsItsLocks(q)' /\ KnowsItsRow(q)'
  BY <1>2, UndisturbedKeeps
<1>4. OnePreparer'
  BY DEF BillingInv, OnePreparer, Moves
<1>5. ASSUME NEW r \in Requests PROVE RowsAgree(r)'
  <2>1. RowsAgree(r) /\ (claims[r].actual # Null => claims[r].state = "SETTLED")
    BY DEF BillingInv, ActualIsSettled
  <2> QED
    BY <1>0, <2>1 DEF RowsAgree, Funded, ClaimStays
<1>6. CurrentIsCoherent' /\ CurrentHasRows'
  BY DEF CurrentIsCoherent, CurrentHasRows
<1> QED
  BY <1>0, <1>1, <1>3, <1>4, <1>5, <1>6 DEF BillingInv

\* A step that replaces the snapshot and leaves the rows alone: no other call may
\* hold the coordinator lock, and a CURRENT snapshot must be coherent.
LEMMA SnapshotStep ==
    ASSUME BillingInv, NEW p \in Procs, Moves(p), lock \in {p, Nobody},
           UNCHANGED <<job, posts, faults, claims, month>>,
           snapshot' \in [status : {"CURRENT", "WRITER_IN_PROGRESS"}, gen : Nat, r : Requests,
                          job : Job, claim : Claim],
           CurrentIsCoherent', CurrentHasRows',
           HoldsItsLocks(p)', KnowsItsRow(p)', proc'[p].pc \notin PreparingPCs
    PROVE  BillingInv'
<1>1. BillingTypeOK' /\ ActualIsSettled'
  BY DEF BillingInv, BillingTypeOK, LedgerTypeOK, ActualIsSettled, Moves, ProcRecord
<1>2. ASSUME NEW q \in Procs, q # p PROVE Undisturbed(q)
  <2>1. proc[q].r \in Requests /\ posts[proc[q].r] \in Nat /\ q # Nobody
    BY ProcFields DEF BillingInv, BillingTypeOK
  <2>2. claims[proc[q].r].state # "NONE" => ClaimStays(proc[q].r)
    BY <2>1 DEF ClaimStays, BillingInv, ActualIsSettled
  <2> QED
    BY <1>2, <2>1, <2>2 DEF Undisturbed, Moves
<1>3. \A q \in Procs : HoldsItsLocks(q)' /\ KnowsItsRow(q)'
  BY <1>2, UndisturbedKeeps
<1>4. OnePreparer'
  BY DEF BillingInv, OnePreparer, Moves
<1>5. \A r \in Requests : RowsAgree(r)'
  BY DEF BillingInv, RowsAgree, Funded
<1> QED
  BY <1>1, <1>3, <1>4, <1>5 DEF BillingInv

\* A call between two operations holds and knows nothing.
LEMMA IdleKnowsNothing ==
    ASSUME NEW p \in Procs, proc'[p].pc = "idle"
    PROVE  HoldsItsLocks(p)' /\ KnowsItsRow(p)' /\ proc'[p].pc \notin PreparingPCs
BY DEF HoldsItsLocks, KnowsItsRow

\* Returning, raising or dying changes no row.
LEMMA EndStep ==
    ASSUME BillingInv, NEW p \in Procs, End(p),
           UNCHANGED <<job, snapshot, posts, claims, month>>, faults' \in 0..MaxFaults
    PROVE  BillingInv'
BY EndMoves, IdleKnowsNothing, ControlStep

\* A call whose variables become d keeps its locks.
LEMMA ReassignedMoves ==
    ASSUME BillingInv, NEW p \in Procs, NEW d \in ProcRecord,
           proc' = [proc EXCEPT ![p] = d], UNCHANGED <<lock, running>>
    PROVE  Moves(p) /\ proc'[p] = d
BY ProcFields DEF Moves, BillingInv, BillingTypeOK

\* A row with another status is a row, and nothing else of it changes.
LEMMA StatusFields ==
    ASSUME NEW j \in Job, NEW s \in JobStatuses
    PROVE  /\ [j EXCEPT !.status = s] \in Job
           /\ [j EXCEPT !.status = s].status = s /\ [j EXCEPT !.status = s].gen = j.gen
           /\ [j EXCEPT !.status = s].pid = j.pid
BY DEF Job

\* Taking the coordinator lock changes no row, whatever the call is for.
LEMMA MarkStep ==
    ASSUME BillingInv, NEW p \in Procs, NEW r \in Requests, NEW pc \in WriterPCs,
           Mark(p, r, pc), UNCHANGED <<job, posts, faults, claims, month>>,
           pc \in RunnerPCs => running[r] = p, pc \notin PreparingPCs, KnowsItsRow(p)'
    PROVE  BillingInv'
<1>1. /\ Moves(p) /\ lock = Nobody /\ lock' = p /\ running' = running
      /\ proc'[p].pc = pc /\ proc'[p].r = r /\ snapshot'.status = "WRITER_IN_PROGRESS"
      /\ snapshot' \in [status : {"CURRENT", "WRITER_IN_PROGRESS"}, gen : Nat, r : Requests,
                        job : Job, claim : Claim]
  BY MarkMoves
<1>2. HoldsItsLocks(p)'
  BY <1>1 DEF HoldsItsLocks
<1>3. CurrentIsCoherent' /\ CurrentHasRows'
  BY <1>1 DEF CurrentIsCoherent, CurrentHasRows
<1> QED
  BY <1>1, <1>2, <1>3, SnapshotStep

\* Binding a claim writes no actual.
LEMMA BoundKeepsActuals ==
    ASSUME LedgerInv, NEW r \in Requests, NEW pid \in Nat, NEW gen \in Nat, Bound(r, pid, gen)
    PROVE  \A q \in Requests : claims'[q].actual = claims[q].actual
<1> DEFINE c == Pinned([claims[r] EXCEPT !.pid = pid], gen)
<1>1. c.actual = claims[r].actual
  <2>1. [claims[r] EXCEPT !.pid = pid] \in Claim /\ [claims[r] EXCEPT !.pid = pid].actual = claims[r].actual
    BY DEF LedgerInv, LedgerTypeOK, Claim
  <2> QED
    BY <2>1, PinnedFields, Zenon
<1>2. claims' = IF claims[r].pid = pid THEN claims ELSE [claims EXCEPT ![r] = c]
  BY Zenon DEF Bound
<1> HIDE DEF c
<1> QED
  BY <1>1, <1>2 DEF LedgerInv, LedgerTypeOK

\* Forgetting a claim writes no actual.
LEMMA ForgottenKeepsActuals ==
    ASSUME LedgerInv, NEW r \in Requests, NEW gen \in Nat, Forgotten(r, gen)
    PROVE  \A q \in Requests : claims'[q].actual = claims[q].actual
<1> DEFINE c == Pinned([claims[r] EXCEPT !.state = "UNKNOWN"], gen)
<1>1. c.actual = claims[r].actual
  <2>1. /\ [claims[r] EXCEPT !.state = "UNKNOWN"] \in Claim
        /\ [claims[r] EXCEPT !.state = "UNKNOWN"].actual = claims[r].actual
    BY DEF LedgerInv, LedgerTypeOK, Claim
  <2> QED
    BY <2>1, PinnedFields, Zenon
<1>2. claims' = [claims EXCEPT ![r] = c]
  BY Zenon DEF Forgotten
<1> HIDE DEF c
<1> QED
  BY <1>1, <1>2 DEF LedgerInv, LedgerTypeOK

-----------------------------------------------------------------------------
(* prepare_and_reserve() *)

\* Taking the lock for an admission hides the rows (prepare_and_reserve).
LEMMA AdmitKeeps ==
    ASSUME BillingInv, NEW p \in Procs, NEW r \in Requests, Admit(p, r)
    PROVE  BillingInv'
<1>1. Mark(p, r, "intent") /\ UNCHANGED <<job, posts, faults, claims, month>>
  BY DEF Admit, ledgerVars
<1>2. proc'[p].pc = "intent"
  BY <1>1, MarkMoves
<1>3. KnowsItsRow(p)'
  BY <1>2 DEF KnowsItsRow
<1> QED
  BY <1>1, <1>3, MarkStep

\* A fresh row can be inserted by either path: nobody else prepares the request,
\* since there was no row (_reserve of the executor).
LEMMA IntentIsWrite ==
    ASSUME BillingInv, NEW p \in Procs, NEW r \in Requests, NEW g \in Nat,
           job[r].status = "NONE", Intent(r, g)
    PROVE  \E j : JobWrite(r, j) /\ j.status = "INTENT" /\ StatusIsFree(p, r)
<1> DEFINE j == [status |-> "INTENT", gen |-> g, pid |-> Unassigned, charged |-> Cost[r]]
<1>1. j \in Job
  BY BillingConstants DEF Job, JobStatuses, Unassigned
<1>2. RowsAgree(r) /\ posts[r] \in Nat
  BY DEF BillingInv, BillingTypeOK
<1>3. job' = [job EXCEPT ![r] = j]
  BY Zenon DEF Intent, SetJob
<1>4. JobWrite(r, j)
  BY <1>1, <1>2, <1>3 DEF JobWrite, RowsAgree, Unsent
<1>5. StatusIsFree(p, r)
  BY DEF StatusIsFree, BillingInv, KnowsItsRow
<1> QED
  BY <1>4, <1>5

\* Nobody prepares a request that has no row, so one call does afterwards.
LEMMA FirstPreparer ==
    ASSUME BillingInv, NEW p \in Procs, Moves(p), proc'[p].r = proc[p].r,
           job[proc[p].r].status = "NONE"
    PROVE  OnePreparer'
BY DEF BillingInv, OnePreparer, KnowsItsRow, Moves

\* prepare_intent() writes at most a fresh INTENT row.
LEMMA AdmitIntentKeeps ==
    ASSUME BillingInv, NEW p \in Procs, AdmitIntent(p)
    PROVE  BillingInv'
<1> DEFINE r == proc[p].r
<1>0. /\ r \in Requests /\ proc[p].gen \in Nat /\ proc[p].pc = "intent"
      /\ UNCHANGED <<snapshot, posts, faults, claims, month>> /\ faults' \in 0..MaxFaults
      /\ HoldsItsLocks(p)
  BY ProcFields DEF AdmitIntent, At, ledgerVars, BillingInv, BillingTypeOK
<1>1. CASE job[r].status = "NONE" /\ Intent(r, proc[p].gen) /\ Goto(p, "prepared")
  <2>1. /\ Moves(p) /\ lock' = lock /\ proc'[p].pc = "prepared" /\ proc'[p].r = r
    BY <1>1, GotoMoves 
  <2>2. PICK j : JobWrite(r, j) /\ j.status = "INTENT" /\ StatusIsFree(p, r)
    BY <1>0, <1>1, IntentIsWrite
  <2>3. job'[r].status = "INTENT"
    BY <1>0, <2>2 DEF JobWrite, BillingInv, BillingTypeOK
  <2>4. HoldsItsLocks(p)' /\ KnowsItsRow(p)'
    BY <1>0, <2>1, <2>3 DEF HoldsItsLocks, KnowsItsRow
  <2>5. OnePreparer'
    BY <1>1, <2>1, FirstPreparer
  <2> QED
    BY <1>0, <2>1, <2>2, <2>4, <2>5, JobStep
<1>2. CASE Goto(p, "reserve") /\ UNCHANGED job
  <2>1. /\ Moves(p) /\ lock' = lock /\ proc'[p].pc = "reserve" /\ proc'[p].r = r
    BY <1>2, GotoMoves 
  <2>2. HoldsItsLocks(p)' /\ KnowsItsRow(p)' /\ proc'[p].pc \notin PreparingPCs
    BY <1>0, <2>1 DEF HoldsItsLocks, KnowsItsRow
  <2> QED
    BY <1>0, <1>2, <2>1, <2>2, ControlStep
<1>3. CASE End(p) /\ UNCHANGED job
  BY <1>0, <1>3, EndStep
<1> QED
  BY <1>1, <1>2, <1>3 DEF AdmitIntent

\* Only the call that inserted the row turns it into PREPARED.
LEMMA PreparedIsWrite ==
    ASSUME BillingInv, NEW p \in Procs, proc[p].pc \in PreparingPCs,
           SetJob(proc[p].r, [job[proc[p].r] EXCEPT !.status = "PREPARED"])
    PROVE  \E j : JobWrite(proc[p].r, j) /\ StatusIsFree(p, proc[p].r)
<1> DEFINE r == proc[p].r
           j == [job[r] EXCEPT !.status = "PREPARED"]
<1>1. /\ r \in Requests /\ job[r] \in Job /\ job[r].status = "INTENT" /\ RowsAgree(r)
      /\ posts[r] \in Nat
  BY ProcFields DEF BillingInv, BillingTypeOK, KnowsItsRow
<1>2. j \in Job /\ j.status = "PREPARED" /\ j.gen = job[r].gen /\ j.pid = job[r].pid
  BY <1>1, StatusFields DEF JobStatuses
<1>3. job' = [job EXCEPT ![r] = j]
  BY Zenon DEF SetJob
<1> HIDE DEF j
<1>4. JobWrite(r, j)
  BY <1>1, <1>2, <1>3 DEF JobWrite, RowsAgree, Unsent
<1>5. StatusIsFree(p, r)
  BY <1>1 DEF StatusIsFree, BillingInv, OnePreparer, KnowsItsRow
<1> QED
  BY <1>4, <1>5

\* The prepared row is committed before the reservation (prepare_intent).
LEMMA AdmitPreparedKeeps ==
    ASSUME BillingInv, NEW p \in Procs, AdmitPrepared(p)
    PROVE  BillingInv'
<1> DEFINE r == proc[p].r
<1>0. /\ r \in Requests /\ proc[p].pc = "prepared" /\ Goto(p, "reserve")
      /\ SetJob(r, [job[r] EXCEPT !.status = "PREPARED"])
      /\ UNCHANGED <<snapshot, posts, faults, claims, month>> /\ faults' \in 0..MaxFaults
      /\ HoldsItsLocks(p)
  BY ProcFields DEF AdmitPrepared, At, ledgerVars, BillingInv, BillingTypeOK
<1>1. Moves(p) /\ lock' = lock /\ proc'[p].pc = "reserve"
  BY <1>0, GotoMoves
<1>2. PICK j : JobWrite(r, j) /\ StatusIsFree(p, r)
  BY <1>0, PreparedIsWrite
<1>3. HoldsItsLocks(p)' /\ KnowsItsRow(p)' /\ OnePreparer'
  BY <1>0, <1>1 DEF HoldsItsLocks, KnowsItsRow, OnePreparer, BillingInv, Moves
<1> QED
  BY <1>0, <1>1, <1>2, <1>3, JobStep

\* The reservation is a ledger transaction behind the marker (reserve).
LEMMA AdmitReserveKeeps ==
    ASSUME BillingInv, NEW p \in Procs, AdmitReserve(p)
    PROVE  BillingInv'
<1> DEFINE r == proc[p].r
<1>0. /\ r \in Requests /\ proc[p].gen \in Nat /\ proc[p].pc = "reserve" /\ HoldsItsLocks(p)
      /\ UNCHANGED <<job, snapshot, posts, faults, month>> /\ faults' \in 0..MaxFaults
  BY ProcFields DEF AdmitReserve, At, BillingInv, BillingTypeOK
<1>1. ASSUME Goto(p, "publish")
      PROVE  Moves(p) /\ HoldsItsLocks(p)' /\ KnowsItsRow(p)' /\ proc'[p].pc \notin PreparingPCs
  <2>1. Moves(p) /\ lock' = lock /\ proc'[p].pc = "publish"
    BY <1>1, GotoMoves
  <2> QED
    BY <1>0, <2>1 DEF HoldsItsLocks, KnowsItsRow
<1>2. CASE Goto(p, "publish") /\ UNCHANGED claims
  BY <1>0, <1>1, <1>2, ControlStep
<1>3. ASSUME NEW m \in 0..month, Admits(r, EpisodeOf[r], m, Cost[r], "standard"), Goto(p, "publish"),
             Inserted(r, EpisodeOf[r], m, Cost[r], "standard", "FAL_READBACK_V2", Unassigned, proc[p].gen)
      PROVE  BillingInv'
  <2>1. /\ EpisodeOf[r] \in Episodes /\ Cost[r] \in Nat /\ "standard" \in Kinds
        /\ "FAL_READBACK_V2" \in Modes /\ Unassigned \in Nat /\ LedgerInv
    BY <1>0, BillingConstants DEF Kinds, Modes, Unassigned, LedgerInv, BillingInv, BillingTypeOK
  <2>2. LegalStep
    BY <1>0, <1>3, <2>1, InsertedIsLegal, Zenon
  <2>3. \A q \in Requests : claims'[q].actual # Null => claims[q].actual # Null
    BY <1>0, <1>3 DEF Inserted, BillingInv, BillingTypeOK, LedgerTypeOK
  <2>4. snapshot.status = "WRITER_IN_PROGRESS"
    BY <1>0 DEF HoldsItsLocks
  <2> QED
    BY <1>0, <1>1, <1>3, <2>2, <2>3, <2>4, LedgerStep
<1>4. CASE End(p) /\ UNCHANGED claims
  BY <1>0, <1>4, EndStep
<1> QED
  BY <1>2, <1>3, <1>4 DEF AdmitReserve

\* A snapshot becomes CURRENT only over rows that agree at this moment (_current).
LEMMA PublishedIsCoherent ==
    ASSUME BillingInv, NEW r \in Requests, NEW g \in Nat, Published(r, g),
           snapshot.status = "WRITER_IN_PROGRESS", UNCHANGED <<job, claims>>
    PROVE  /\ CurrentIsCoherent' /\ CurrentHasRows'
           /\ snapshot' \in [status : {"CURRENT", "WRITER_IN_PROGRESS"}, gen : Nat, r : Requests,
                             job : Job, claim : Claim]
<1>1. CASE Coherent(r, g)
  <2>1. snapshot' = [status |-> "CURRENT", gen |-> g, r |-> r, job |-> job[r], claim |-> claims[r]]
    BY <1>1 DEF Published
  <2>2. job[r] \in Job /\ claims[r] \in Claim
    BY DEF BillingInv, BillingTypeOK, LedgerTypeOK
  <2> QED
    BY <1>1, <2>1, <2>2 DEF Coherent, CurrentIsCoherent, CurrentHasRows
<1>2. CASE ~Coherent(r, g)
  BY <1>2 DEF Published, CurrentIsCoherent, CurrentHasRows, BillingInv, BillingTypeOK
<1> QED
  BY <1>1, <1>2

\* Publication compares the rows and releases the lock.
LEMMA PublishKeeps ==
    ASSUME BillingInv, NEW p \in Procs, Publish(p)
    PROVE  BillingInv'
<1>0. /\ proc[p].r \in Requests /\ proc[p].gen \in Nat /\ proc[p].pc = "publish" /\ HoldsItsLocks(p)
      /\ UNCHANGED <<job, posts, faults, claims, month>>
      /\ Published(proc[p].r, proc[p].gen) /\ End(p)
  BY ProcFields DEF Publish, At, ledgerVars, BillingInv
<1>1. snapshot.status = "WRITER_IN_PROGRESS" /\ lock = p
  BY <1>0 DEF HoldsItsLocks
<1>2. /\ CurrentIsCoherent' /\ CurrentHasRows'
      /\ snapshot' \in [status : {"CURRENT", "WRITER_IN_PROGRESS"}, gen : Nat, r : Requests,
                        job : Job, claim : Claim]
  BY <1>0, <1>1, PublishedIsCoherent
<1> QED
  BY <1>0, <1>1, <1>2, EndMoves, IdleKnowsNothing, SnapshotStep

-----------------------------------------------------------------------------
(* run_admitted() *)

\* A run takes the free lock of its request.
LEMMA RunKeeps ==
    ASSUME BillingInv, NEW p \in Procs, NEW r \in Requests, Run(p, r)
    PROVE  BillingInv'
<1> DEFINE d == [proc[p] EXCEPT !.pc = "inspect", !.r = r]
<1>0. /\ running[r] = Nobody /\ running' = [running EXCEPT ![r] = p]
      /\ UNCHANGED <<job, snapshot, lock, posts, faults, claims, month>>
      /\ proc' = [proc EXCEPT ![p] = d] /\ faults' \in 0..MaxFaults
  BY Zenon DEF Run, ledgerVars, BillingInv, BillingTypeOK
<1>1. d \in ProcRecord /\ d.pc = "inspect" /\ d.r = r
  BY ProcFields DEF ProcRecord
<1> HIDE DEF d
<1>2. proc'[p] = d /\ proc' \in [Procs -> ProcRecord] /\ \A q \in Procs : q # p => proc'[q] = proc[q]
  BY <1>0, <1>1, ProcFields
<1>3. /\ running' \in [Requests -> Procs \cup {Nobody}] /\ running'[r] = p
      /\ \A q \in Procs, s \in Requests : q # p /\ running[s] = q => running'[s] = q
  BY <1>0, BillingConstants DEF BillingInv, BillingTypeOK
<1>4. Moves(p)
  BY <1>0, <1>2, <1>3 DEF Moves, BillingInv, BillingTypeOK
<1>5. HoldsItsLocks(p)' /\ KnowsItsRow(p)' /\ proc'[p].pc \notin PreparingPCs
  BY <1>1, <1>2, <1>3 DEF HoldsItsLocks, KnowsItsRow
<1> QED
  BY <1>0, <1>4, <1>5, ControlStep

\* run() goes on to a POST only from a prepared row that a claim pays for, and
\* to recovery only from a row with a remote id.
LEMMA RunInspectKeeps ==
    ASSUME BillingInv, NEW p \in Procs, RunInspect(p)
    PROVE  BillingInv'
<1> DEFINE r == proc[p].r
<1>0. /\ r \in Requests /\ proc[p].pc = "inspect" /\ HoldsItsLocks(p) /\ RowsAgree(r)
      /\ UNCHANGED <<snapshot, posts, faults, claims, month>> /\ faults' \in 0..MaxFaults
      /\ 0 \in Nat
  BY ProcFields DEF RunInspect, At, ledgerVars, BillingInv, BillingTypeOK
<1>1. CASE job[r].status = "NONE" /\ Intent(r, 0) /\ Goto(p, "direct")
  <2>1. Moves(p) /\ running' = running /\ proc'[p].pc = "direct" /\ proc'[p].r = r
    BY <1>1, GotoMoves
  <2>2. PICK j : JobWrite(r, j) /\ j.status = "INTENT" /\ StatusIsFree(p, r)
    BY <1>0, <1>1, IntentIsWrite
  <2>3. job'[r].status = "INTENT"
    BY <1>0, <2>2 DEF JobWrite, BillingInv, BillingTypeOK
  <2>4. HoldsItsLocks(p)' /\ KnowsItsRow(p)'
    BY <1>0, <2>1, <2>3 DEF HoldsItsLocks, KnowsItsRow
  <2>5. OnePreparer'
    BY <1>1, <2>1, FirstPreparer
  <2> QED
    BY <1>0, <2>1, <2>2, <2>4, <2>5, JobStep
<1>2. CASE Submittable(job[r].status) /\ Admitted(r) /\ Goto(p, "submitting") /\ UNCHANGED job
  <2>1. Moves(p) /\ running' = running /\ proc'[p].pc = "submitting" /\ proc'[p].r = r
    BY <1>2, GotoMoves
  <2>2. job'[r].status = "PREPARED" /\ claims'[r].state # "NONE" /\ claims'[r].cap = Cost[r]
    BY <1>0, <1>2 DEF Submittable, Admitted
  <2>3. HoldsItsLocks(p)' /\ KnowsItsRow(p)' /\ proc'[p].pc \notin PreparingPCs
    BY <1>0, <2>1, <2>2 DEF HoldsItsLocks, KnowsItsRow, Funded
  <2> QED
    BY <1>0, <1>2, <2>1, <2>3, ControlStep
<1>3. CASE job[r].status = "SUBMITTED" /\ Goto(p, "recover") /\ UNCHANGED job
  <2>1. Moves(p) /\ running' = running /\ proc'[p].pc = "recover" /\ proc'[p].r = r
    BY <1>3, GotoMoves
  <2>2. job[r].pid # Unassigned /\ posts[r] > 0
    BY <1>0, <1>3 DEF RowsAgree
  <2>3. HoldsItsLocks(p)' /\ KnowsItsRow(p)' /\ proc'[p].pc \notin PreparingPCs
    BY <1>0, <1>3, <2>1, <2>2 DEF HoldsItsLocks, KnowsItsRow
  <2> QED
    BY <1>0, <1>3, <2>1, <2>3, ControlStep
<1>4. CASE End(p) /\ UNCHANGED job
  BY <1>0, <1>4, EndStep
<1> QED
  BY <1>1, <1>2, <1>3, <1>4 DEF RunInspect

\* The direct path commits PREPARED and looks at the row again.
LEMMA RunDirectKeeps ==
    ASSUME BillingInv, NEW p \in Procs, RunDirect(p)
    PROVE  BillingInv'
<1> DEFINE r == proc[p].r
<1>0. /\ r \in Requests /\ proc[p].pc = "direct" /\ Goto(p, "inspect")
      /\ SetJob(r, [job[r] EXCEPT !.status = "PREPARED"])
      /\ UNCHANGED <<snapshot, posts, faults, claims, month>> /\ faults' \in 0..MaxFaults
      /\ HoldsItsLocks(p)
  BY ProcFields DEF RunDirect, At, ledgerVars, BillingInv, BillingTypeOK
<1>1. Moves(p) /\ running' = running /\ proc'[p].pc = "inspect" /\ proc'[p].r = r
  BY <1>0, GotoMoves
<1>2. PICK j : JobWrite(r, j) /\ StatusIsFree(p, r)
  BY <1>0, PreparedIsWrite
<1>3. HoldsItsLocks(p)' /\ KnowsItsRow(p)' /\ OnePreparer'
  BY <1>0, <1>1 DEF HoldsItsLocks, KnowsItsRow, OnePreparer, BillingInv, Moves
<1> QED
  BY <1>0, <1>1, <1>2, <1>3, JobStep

\* Nobody else relies on the status of a row whose lock p holds, unless it is
\* still being prepared.
LEMMA RunnerFreesStatus ==
    ASSUME BillingInv, NEW p \in Procs, running[proc[p].r] = p, job[proc[p].r].status # "INTENT"
    PROVE  StatusIsFree(p, proc[p].r)
BY DEF StatusIsFree, BillingInv, HoldsItsLocks, KnowsItsRow

\* SUBMITTING is on record before the POST.
LEMMA RunSubmittingKeeps ==
    ASSUME BillingInv, NEW p \in Procs, RunSubmitting(p)
    PROVE  BillingInv'
<1> DEFINE r == proc[p].r
           j == [job[r] EXCEPT !.status = "SUBMITTING"]
<1>0. /\ r \in Requests /\ proc[p].pc = "submitting" /\ Goto(p, "post")
      /\ job[r] \in Job /\ job[r].status = "PREPARED" /\ Funded(r) /\ posts[r] \in Nat
      /\ UNCHANGED <<snapshot, posts, faults, claims, month>> /\ faults' \in 0..MaxFaults
      /\ running[r] = p /\ RowsAgree(r)
  BY ProcFields DEF RunSubmitting, At, ledgerVars, BillingInv, BillingTypeOK, HoldsItsLocks, KnowsItsRow
<1>1. job' = [job EXCEPT ![r] = j]
  BY Zenon DEF RunSubmitting, SetJob
<1>2. j \in Job /\ j.status = "SUBMITTING" /\ j.gen = job[r].gen /\ j.pid = job[r].pid
  BY <1>0, StatusFields DEF JobStatuses
<1> HIDE DEF j
<1>3. JobWrite(r, j) /\ job'[r] = j
  BY <1>0, <1>1, <1>2 DEF JobWrite, RowsAgree, Unsent, BillingInv, BillingTypeOK
<1>4. Moves(p) /\ running' = running /\ proc'[p].pc = "post" /\ proc'[p].r = r
  BY <1>0, GotoMoves
<1>5. posts[r] = 0
  BY <1>0 DEF RowsAgree, Unsent
<1>6. HoldsItsLocks(p)' /\ KnowsItsRow(p)' /\ OnePreparer'
  BY <1>0, <1>2, <1>3, <1>4, <1>5 DEF HoldsItsLocks, KnowsItsRow, Funded, OnePreparer, BillingInv, Moves
<1>7. StatusIsFree(p, r)
  BY <1>0, RunnerFreesStatus
<1> QED
  BY <1>0, <1>3, <1>4, <1>6, <1>7, JobStep

\* The provider receives the first POST of the request: the row says SUBMITTING
\* and the lock of the request keeps every other run away.
LEMMA RunPostKeeps ==
    ASSUME BillingInv, NEW p \in Procs, RunPost(p)
    PROVE  BillingInv'
<1> DEFINE r == proc[p].r
           n == posts[r] + 1
           d == [proc[p] EXCEPT !.pc = "bind", !.pid = n]
<1>0. /\ r \in Requests /\ proc[p].pc = "post" /\ running[r] = p
      /\ job[r].status = "SUBMITTING" /\ posts[r] = 0 /\ Funded(r)
      /\ posts' = [posts EXCEPT ![r] = posts[r] + 1] /\ posts \in [Requests -> Nat]
      /\ UNCHANGED <<job, snapshot, claims, month>>
  BY ProcFields DEF RunPost, At, ledgerVars, BillingInv, BillingTypeOK, HoldsItsLocks, KnowsItsRow
<1>1. /\ posts' \in [Requests -> Nat]
      /\ \A q \in Requests : posts'[q] = IF q = r THEN 1 ELSE posts[q]
  BY <1>0
<1>2. /\ Moves(p) /\ faults' \in 0..MaxFaults
      /\ HoldsItsLocks(p)' /\ KnowsItsRow(p)' /\ proc'[p].pc \notin PreparingPCs
  <2>1. CASE proc' = [proc EXCEPT ![p] = d] /\ UNCHANGED <<lock, running, faults>>
    <3>0. n \in Nat /\ n # Unassigned
      BY <1>0 DEF Unassigned
    <3> HIDE DEF n
    <3>1. d \in ProcRecord /\ d.pc = "bind" /\ d.r = r /\ d.pid = n
      BY <3>0, ProcFields DEF ProcRecord
    <3> HIDE DEF d
    <3>2. Moves(p) /\ proc'[p] = d
      BY <2>1, <3>1, ReassignedMoves
    <3> QED
      BY <1>0, <1>1, <2>1, <3>0, <3>1, <3>2 DEF HoldsItsLocks, KnowsItsRow, BillingInv, BillingTypeOK
  <2>2. CASE Fault /\ End(p)
    <3>1. faults' \in 0..MaxFaults
      BY <2>2, BillingConstants DEF Fault, BillingInv, BillingTypeOK
    <3> QED
      BY <2>2, <3>1, EndMoves, IdleKnowsNothing
  <2> QED
    BY <2>1, <2>2 DEF RunPost
<1>3. BillingTypeOK' /\ ActualIsSettled'
  BY <1>0, <1>1, <1>2 DEF BillingInv, BillingTypeOK, LedgerTypeOK, ActualIsSettled, Moves, ProcRecord
<1>4. ASSUME NEW q \in Procs, q # p PROVE Undisturbed(q)
  <2>1. proc[q].r \in Requests /\ posts[proc[q].r] \in Nat
    BY ProcFields DEF BillingInv, BillingTypeOK
  <2>2. claims[proc[q].r].state # "NONE" => ClaimStays(proc[q].r)
    BY <1>0, <2>1 DEF ClaimStays, BillingInv, ActualIsSettled
  <2> QED
    BY <1>0, <1>1, <1>2, <1>4, <2>1, <2>2 DEF Undisturbed, Moves
<1>5. \A q \in Procs : HoldsItsLocks(q)' /\ KnowsItsRow(q)'
  BY <1>2, <1>4, UndisturbedKeeps
<1>6. OnePreparer'
  BY <1>2 DEF BillingInv, OnePreparer, Moves
<1>7. ASSUME NEW q \in Requests PROVE RowsAgree(q)'
  <2>1. RowsAgree(q)
    BY DEF BillingInv
  <2> QED
    BY <1>0, <1>1, <2>1 DEF RowsAgree, Funded, Unsent
<1>8. CurrentIsCoherent' /\ CurrentHasRows'
  BY <1>0 DEF BillingInv, CurrentIsCoherent, CurrentHasRows
<1> QED
  BY <1>3, <1>5, <1>6, <1>7, <1>8 DEF BillingInv

\* Recovery works on a request the provider has received.
LEMMA RunRecoverKeeps ==
    ASSUME BillingInv, NEW p \in Procs, RunRecover(p)
    PROVE  BillingInv'
<1> DEFINE r == proc[p].r
<1>0. /\ r \in Requests /\ proc[p].pc = "recover" /\ running[r] = p /\ posts[r] > 0
      /\ job[r].pid \in Nat /\ job[r].pid # Unassigned
      /\ UNCHANGED <<job, snapshot, posts, faults, claims, month>> /\ faults' \in 0..MaxFaults
  BY ProcFields DEF RunRecover, At, ledgerVars, BillingInv, BillingTypeOK, HoldsItsLocks, KnowsItsRow, Job
<1>1. CASE Goto(p, "resolve")
  <2>1. Moves(p) /\ running' = running /\ proc'[p].pc = "resolve" /\ proc'[p].r = r
    BY <1>1, GotoMoves
  <2>2. HoldsItsLocks(p)' /\ KnowsItsRow(p)' /\ proc'[p].pc \notin PreparingPCs
    BY <1>0, <2>1 DEF HoldsItsLocks, KnowsItsRow
  <2> QED
    BY <1>0, <2>1, <2>2, ControlStep
<1>2. ASSUME NEW pid \in {job[r].pid, job[r].pid + 1}, UNCHANGED <<lock, running>>,
             proc' = [proc EXCEPT ![p] = [proc[p] EXCEPT !.pc = "bind", !.pid = pid]]
      PROVE  BillingInv'
  <2> DEFINE d == [proc[p] EXCEPT !.pc = "bind", !.pid = pid]
  <2>1. pid \in Nat /\ pid # Unassigned
    BY <1>0, <1>2 DEF Unassigned
  <2>2. d \in ProcRecord /\ d.pc = "bind" /\ d.r = r /\ d.pid # Unassigned
    BY <2>1, ProcFields DEF ProcRecord
  <2>3. proc' = [proc EXCEPT ![p] = d]
    BY <1>2, Zenon
  <2> HIDE DEF d
  <2>4. Moves(p) /\ proc'[p] = d
    BY <1>2, <2>2, <2>3, ReassignedMoves
  <2>5. HoldsItsLocks(p)' /\ KnowsItsRow(p)' /\ proc'[p].pc \notin PreparingPCs
    BY <1>0, <1>2, <2>2, <2>4 DEF HoldsItsLocks, KnowsItsRow
  <2> QED
    BY <1>0, <2>4, <2>5, ControlStep
<1> QED
  BY <1>1, <1>2 DEF RunRecover

\* The checkpoint takes the coordinator lock inside the run.
LEMMA BindMarkKeeps ==
    ASSUME BillingInv, NEW p \in Procs, BindMark(p)
    PROVE  BillingInv'
<1>0. /\ proc[p].r \in Requests /\ proc[p].pc = "bind" /\ Mark(p, proc[p].r, "bind_job")
      /\ UNCHANGED <<job, posts, faults, claims, month>>
      /\ HoldsItsLocks(p) /\ KnowsItsRow(p)
  BY ProcFields DEF BindMark, At, ledgerVars, BillingInv
<1>1. proc'[p].pc = "bind_job" /\ proc'[p].r = proc[p].r /\ proc'[p].pid = proc[p].pid
  BY <1>0, MarkMoves
<1>2. KnowsItsRow(p)'
  BY <1>0, <1>1 DEF KnowsItsRow
<1>3. running[proc[p].r] = p
  BY <1>0 DEF HoldsItsLocks
<1> QED
  BY <1>0, <1>2, <1>3, MarkStep

\* The remote id of the row is written once, after the POST.
LEMMA BindJobKeeps ==
    ASSUME BillingInv, NEW p \in Procs, BindJob(p)
    PROVE  BillingInv'
<1> DEFINE r == proc[p].r
           j == [job[r] EXCEPT !.pid = proc[p].pid, !.status = "SUBMITTED", !.gen = proc[p].gen]
<1>0. /\ r \in Requests /\ proc[p].pc = "bind_job" /\ running[r] = p /\ lock = p
      /\ proc[p].gen \in Nat /\ proc[p].pid \in Nat /\ proc[p].pid # Unassigned
      /\ job[r] \in Job /\ posts[r] > 0 /\ snapshot.status = "WRITER_IN_PROGRESS" /\ RowsAgree(r)
      /\ UNCHANGED <<snapshot, posts, faults, claims, month>> /\ faults' \in 0..MaxFaults
  BY ProcFields DEF BindJob, At, ledgerVars, BillingInv, BillingTypeOK, HoldsItsLocks, KnowsItsRow
<1>1. ASSUME Goto(p, "bind_claim")
      PROVE  /\ Moves(p) /\ HoldsItsLocks(p)' /\ KnowsItsRow(p)' /\ proc'[p].pc \notin PreparingPCs
             /\ OnePreparer'
  <2>1. /\ Moves(p) /\ UNCHANGED <<lock, running>> /\ proc'[p].pc = "bind_claim"
        /\ proc'[p].r = r /\ proc'[p].pid = proc[p].pid
    BY <1>1, GotoMoves
  <2>2. HoldsItsLocks(p)' /\ KnowsItsRow(p)'
    BY <1>0, <2>1 DEF HoldsItsLocks, KnowsItsRow
  <2> QED
    BY <2>1, <2>2 DEF OnePreparer, BillingInv, Moves
<1>2. CASE Goto(p, "bind_claim") /\ UNCHANGED job
  BY <1>0, <1>1, <1>2, ControlStep
<1>3. CASE job[r].pid = Unassigned /\ Goto(p, "bind_claim") /\ SetJob(r, j)
  <2>1. j \in Job /\ j.pid = proc[p].pid /\ j.status = "SUBMITTED"
    BY <1>0 DEF Job, JobStatuses
  <2>2. job' = [job EXCEPT ![r] = j]
    BY <1>3, Zenon DEF SetJob
  <2> HIDE DEF j
  <2>3. JobWrite(r, j)
    BY <1>0, <1>3, <2>1, <2>2 DEF JobWrite, Unsent
  <2>4. StatusIsFree(p, r)
    BY <1>0, RunnerFreesStatus DEF RowsAgree, Unsent
  <2> QED
    BY <1>0, <1>1, <1>3, <2>3, <2>4, JobStep
<1>4. CASE End(p) /\ UNCHANGED job
  BY <1>0, <1>4, EndStep
<1> QED
  BY <1>2, <1>3, <1>4 DEF BindJob

\* The remote id of the claim is written once, behind the marker.
LEMMA BindClaimKeeps ==
    ASSUME BillingInv, NEW p \in Procs, BindClaim(p)
    PROVE  BillingInv'
<1> DEFINE r == proc[p].r
           pid == proc[p].pid
           g == proc[p].gen
<1>0. /\ r \in Requests /\ proc[p].pc = "bind_claim" /\ running[r] = p /\ lock = p
      /\ g \in Nat /\ pid \in Nat /\ posts[r] > 0 /\ snapshot.status = "WRITER_IN_PROGRESS"
      /\ UNCHANGED <<job, snapshot, posts, faults, month>> /\ faults' \in 0..MaxFaults /\ LedgerInv
  BY ProcFields DEF BindClaim, At, BillingInv, BillingTypeOK, HoldsItsLocks, KnowsItsRow, LedgerInv
<1>1. CASE MayBind(r, pid, g) /\ Bound(r, pid, g) /\ Goto(p, "bind_publish")
  <2>1. /\ Moves(p) /\ UNCHANGED <<lock, running>> /\ proc'[p].pc = "bind_publish"
        /\ proc'[p].r = r
    BY <1>1, GotoMoves
  <2>2. HoldsItsLocks(p)' /\ KnowsItsRow(p)' /\ proc'[p].pc \notin PreparingPCs
    BY <1>0, <2>1 DEF HoldsItsLocks, KnowsItsRow
  <2>3. LegalStep
    BY <1>0, <1>1, BoundIsLegal
  <2>4. \A q \in Requests : claims'[q].actual = claims[q].actual
    BY <1>0, <1>1, BoundKeepsActuals
  <2> QED
    BY <1>0, <2>1, <2>2, <2>3, <2>4, LedgerStep
<1>2. CASE End(p) /\ UNCHANGED claims
  BY <1>0, <1>2, EndStep
<1> QED
  BY <1>1, <1>2 DEF BindClaim

\* The checkpoint publishes, gives the coordinator lock back and goes on.
LEMMA BindPublishKeeps ==
    ASSUME BillingInv, NEW p \in Procs, BindPublish(p)
    PROVE  BillingInv'
<1> DEFINE r == proc[p].r
<1>0. /\ r \in Requests /\ proc[p].gen \in Nat /\ proc[p].pc = "bind_publish" /\ posts[r] > 0
      /\ UNCHANGED <<job, posts, faults, claims, month>> /\ running[r] = p /\ lock = p
      /\ Published(r, proc[p].gen) /\ snapshot.status = "WRITER_IN_PROGRESS"
  BY ProcFields DEF BindPublish, At, ledgerVars, BillingInv, HoldsItsLocks, KnowsItsRow
<1>1. /\ CurrentIsCoherent' /\ CurrentHasRows'
      /\ snapshot' \in [status : {"CURRENT", "WRITER_IN_PROGRESS"}, gen : Nat, r : Requests,
                        job : Job, claim : Claim]
  BY <1>0, PublishedIsCoherent
<1>2. CASE proc' = [proc EXCEPT ![p].pc = "resolve"] /\ lock' = Nobody /\ UNCHANGED running
  <2> DEFINE d == [proc[p] EXCEPT !.pc = "resolve"]
  <2>1. d \in ProcRecord /\ d.pc = "resolve" /\ d.r = r
    BY ProcFields DEF ProcRecord
  <2>2. proc' = [proc EXCEPT ![p] = d]
    BY <1>2, Zenon
  <2> HIDE DEF d
  <2>3. proc'[p] = d /\ Moves(p)
    BY <1>0, <1>2, <2>1, <2>2, ProcFields DEF Moves, BillingInv, BillingTypeOK
  <2>4. HoldsItsLocks(p)' /\ KnowsItsRow(p)' /\ proc'[p].pc \notin PreparingPCs
    BY <1>0, <1>2, <2>1, <2>3 DEF HoldsItsLocks, KnowsItsRow
  <2> QED
    BY <1>0, <1>1, <2>3, <2>4, SnapshotStep
<1>3. CASE End(p)
  BY <1>0, <1>1, <1>3, EndMoves, IdleKnowsNothing, SnapshotStep
<1> QED
  BY <1>2, <1>3 DEF BindPublish

\* The outcome of a run is recorded by the call that holds the request's lock.
LEMMA RunResolveKeeps ==
    ASSUME BillingInv, NEW p \in Procs, RunResolve(p)
    PROVE  BillingInv'
<1> DEFINE r == proc[p].r
<1>0. /\ r \in Requests /\ proc[p].pc = "resolve" /\ running[r] = p /\ posts[r] > 0
      /\ job[r] \in Job /\ RowsAgree(r) /\ End(p)
      /\ UNCHANGED <<snapshot, posts, claims, month>>
  BY ProcFields DEF RunResolve, At, ledgerVars, BillingInv, BillingTypeOK, HoldsItsLocks, KnowsItsRow
<1>1. ASSUME NEW a \in Amounts, faults' = faults,
             SetJob(r, [job[r] EXCEPT !.charged = a,
                           !.status = IF a > Cost[r] THEN "OVERRUN" ELSE "COMPLETE"])
      PROVE  BillingInv'
  <2> DEFINE s == IF a > Cost[r] THEN "OVERRUN" ELSE "COMPLETE"
             j == [job[r] EXCEPT !.charged = a, !.status = s]
  <2>1. s \in {"OVERRUN", "COMPLETE"} /\ a \in Nat /\ faults' \in 0..MaxFaults
    BY <1>1, LedgerConstants DEF BillingInv, BillingTypeOK
  <2>2. job' = [job EXCEPT ![r] = j]
    BY <1>1, Zenon DEF SetJob
  <2> HIDE DEF s
  <2>3. j \in Job /\ j.status = s /\ j.gen = job[r].gen /\ j.pid = job[r].pid
    BY <1>0, <2>1 DEF Job, JobStatuses
  <2> HIDE DEF j
  <2>4. JobWrite(r, j)
    BY <1>0, <2>1, <2>2, <2>3 DEF JobWrite, RowsAgree, Unsent
  <2>5. StatusIsFree(p, r)
    BY <1>0, RunnerFreesStatus DEF RowsAgree, Unsent
  <2>6. Moves(p) /\ HoldsItsLocks(p)' /\ KnowsItsRow(p)' /\ proc'[p].pc \notin PreparingPCs
    BY <1>0, EndMoves, IdleKnowsNothing
  <2>7. OnePreparer'
    BY <2>6 DEF OnePreparer, BillingInv, Moves
  <2> QED
    BY <1>0, <2>1, <2>4, <2>5, <2>6, <2>7, JobStep
<1>2. CASE Fault /\ UNCHANGED job
  <2>1. faults' \in 0..MaxFaults
    BY <1>2, BillingConstants DEF Fault, BillingInv, BillingTypeOK
  <2> QED
    BY <1>0, <1>2, <2>1, EndStep
<1> QED
  BY <1>1, <1>2 DEF RunResolve

-----------------------------------------------------------------------------
(* reconcile() *)

\* A reconciliation starts from two rows that carry one remote id.
LEMMA ReconcileKeeps ==
    ASSUME BillingInv, NEW p \in Procs, NEW r \in Requests, Reconcile(p, r)
    PROVE  BillingInv'
<1>0. PICK pc \in {"readback", "forget"} :
         proc' = [proc EXCEPT ![p] = [proc[p] EXCEPT !.pc = pc, !.r = r, !.pid = job[r].pid]]
  BY Zenon DEF Reconcile
<1> DEFINE d == [proc[p] EXCEPT !.pc = pc, !.r = r, !.pid = job[r].pid]
<1>1. /\ job[r].pid # Unassigned /\ claims[r].state # "NONE" /\ job[r].pid \in Nat
      /\ UNCHANGED <<job, snapshot, lock, running, posts, faults, claims, month>>
      /\ faults' \in 0..MaxFaults
  BY DEF Reconcile, ledgerVars, BillingInv, BillingTypeOK, Job
<1>2. d \in ProcRecord /\ d.pc = pc /\ d.r = r /\ d.pid = job[r].pid
  BY <1>1, ProcFields DEF ProcRecord
<1> HIDE DEF d
<1>3. Moves(p) /\ proc'[p] = d
  BY <1>0, <1>1, <1>2, ReassignedMoves DEF d
<1>4. HoldsItsLocks(p)' /\ KnowsItsRow(p)' /\ proc'[p].pc \notin PreparingPCs
  BY <1>1, <1>2, <1>3 DEF HoldsItsLocks, KnowsItsRow
<1> QED
  BY <1>1, <1>3, <1>4, ControlStep

\* Going on within a reconciliation keeps what the call knows, as long as the
\* rows it knows are left alone.
LEMMA SettlingKnows ==
    ASSUME BillingInv, NEW p \in Procs, proc[p].pc \in SettlingPCs,
           proc'[p].pc \in SettlingPCs, proc'[p].r = proc[p].r, proc'[p].pid = proc[p].pid,
           job'[proc[p].r].pid = job[proc[p].r].pid, claims'[proc[p].r].state # "NONE",
           proc'[p].pc \in WriterPCs => lock' = p /\ snapshot'.status = "WRITER_IN_PROGRESS"
    PROVE  HoldsItsLocks(p)' /\ KnowsItsRow(p)' /\ proc'[p].pc \notin PreparingPCs
<1>1. KnowsItsRow(p)
  BY DEF BillingInv
<1> QED
  BY <1>1 DEF HoldsItsLocks, KnowsItsRow

\* The provider's bill is kept by the call until it settles.
LEMMA ReadbackKeeps ==
    ASSUME BillingInv, NEW p \in Procs, Readback(p)
    PROVE  BillingInv'
<1>0. /\ proc[p].r \in Requests /\ proc[p].pc = "readback" /\ claims[proc[p].r].state # "NONE"
      /\ UNCHANGED <<job, snapshot, lock, running, posts, faults, claims, month>>
      /\ faults' \in 0..MaxFaults
  BY ProcFields DEF Readback, At, ledgerVars, BillingInv, BillingTypeOK, KnowsItsRow
<1>1. ASSUME NEW d \in ProcRecord, d.pc \in {"settle", "forget"}, d.r = proc[p].r,
             d.pid = proc[p].pid, proc' = [proc EXCEPT ![p] = d]
      PROVE  BillingInv'
  <2>1. Moves(p) /\ proc'[p] = d
    BY <1>0, <1>1, ReassignedMoves
  <2>2. HoldsItsLocks(p)' /\ KnowsItsRow(p)' /\ proc'[p].pc \notin PreparingPCs
    BY <1>0, <1>1, <2>1, SettlingKnows
  <2> QED
    BY <1>0, <2>1, <2>2, ControlStep
<1>2. ASSUME NEW a \in Amounts,
             proc' = [proc EXCEPT ![p] = [proc[p] EXCEPT !.pc = "settle", !.bill = a]]
      PROVE  BillingInv'
  <2> DEFINE d == [proc[p] EXCEPT !.pc = "settle", !.bill = a]
  <2>1. d \in ProcRecord /\ d.pc = "settle" /\ d.r = proc[p].r /\ d.pid = proc[p].pid
    BY LedgerConstants, ProcFields DEF ProcRecord
  <2>2. proc' = [proc EXCEPT ![p] = d]
    BY <1>2, Zenon
  <2> HIDE DEF d
  <2> QED
    BY <1>1, <2>1, <2>2
<1>3. CASE proc' = [proc EXCEPT ![p].pc = "forget"]
  <2> DEFINE d == [proc[p] EXCEPT !.pc = "forget"]
  <2>1. d \in ProcRecord /\ d.pc = "forget" /\ d.r = proc[p].r /\ d.pid = proc[p].pid
    BY ProcFields DEF ProcRecord
  <2>2. proc' = [proc EXCEPT ![p] = d]
    BY <1>3, Zenon
  <2> HIDE DEF d
  <2> QED
    BY <1>1, <2>1, <2>2
<1> QED
  BY <1>2, <1>3 DEF Readback

\* A claim that already has an actual is left alone (_unknown).
LEMMA UnknownReadKeeps ==
    ASSUME BillingInv, NEW p \in Procs, UnknownRead(p)
    PROVE  BillingInv'
<1>0. /\ proc[p].r \in Requests /\ proc[p].pc = "forget" /\ claims[proc[p].r].state # "NONE"
      /\ UNCHANGED <<job, snapshot, posts, faults, claims, month>> /\ faults' \in 0..MaxFaults
  BY ProcFields DEF UnknownRead, At, ledgerVars, BillingInv, BillingTypeOK, KnowsItsRow
<1>1. CASE Goto(p, "unknown")
  <2>1. Moves(p) /\ proc'[p].pc = "unknown" /\ proc'[p].r = proc[p].r /\ proc'[p].pid = proc[p].pid
    BY <1>1, GotoMoves
  <2>2. HoldsItsLocks(p)' /\ KnowsItsRow(p)' /\ proc'[p].pc \notin PreparingPCs
    BY <1>0, <2>1, SettlingKnows
  <2> QED
    BY <1>0, <2>1, <2>2, ControlStep
<1>2. CASE End(p)
  BY <1>0, <1>2, EndStep
<1> QED
  BY <1>1, <1>2 DEF UnknownRead

\* mark_unknown() and settle_verified_receipt() take the coordinator lock.
LEMMA ReconcileMarkKeeps ==
    ASSUME BillingInv, NEW p \in Procs, UnknownMark(p) \/ SettleMark(p)
    PROVE  BillingInv'
<1>0. PICK pc \in {"unknown_job", "settle_job"} : Mark(p, proc[p].r, pc)
  BY DEF UnknownMark, SettleMark
<1>1. /\ proc[p].r \in Requests /\ proc[p].pc \in {"unknown", "settle"}
      /\ UNCHANGED <<job, posts, faults, claims, month>> /\ claims[proc[p].r].state # "NONE"
  BY ProcFields DEF UnknownMark, SettleMark, At, ledgerVars, BillingInv, KnowsItsRow
<1>2. /\ proc'[p].pc = pc /\ proc'[p].r = proc[p].r /\ proc'[p].pid = proc[p].pid
      /\ lock' = p /\ snapshot'.status = "WRITER_IN_PROGRESS"
  BY <1>0, <1>1, MarkMoves
<1>3. KnowsItsRow(p)'
  BY <1>1, <1>2, SettlingKnows
<1> QED
  BY <1>0, <1>1, <1>3, MarkStep

\* Pinning the executor's row changes its generation alone.
LEMMA PinJobKeeps ==
    ASSUME BillingInv, NEW p \in Procs, PinJob(p)
    PROVE  BillingInv'
<1> DEFINE r == proc[p].r
           g == proc[p].gen
           j == [job[r] EXCEPT !.gen = g]
           pc == IF At(p, "unknown_job") THEN "unknown_claim" ELSE "settle_claim"
<1>0. /\ r \in Requests /\ g \in Nat /\ proc[p].pc \in {"unknown_job", "settle_job"}
      /\ job[r] \in Job /\ job[r].pid # Unassigned /\ claims[r].state # "NONE"
      /\ lock = p /\ snapshot.status = "WRITER_IN_PROGRESS" /\ RowsAgree(r)
      /\ UNCHANGED <<snapshot, posts, faults, claims, month>> /\ faults' \in 0..MaxFaults
  BY ProcFields DEF PinJob, ledgerVars, BillingInv, BillingTypeOK, HoldsItsLocks, KnowsItsRow
<1>1. job' = [job EXCEPT ![r] = j] /\ Goto(p, pc)
  BY Zenon DEF PinJob, SetJob
<1>2. j \in Job /\ j.status = job[r].status /\ j.pid = job[r].pid
  BY <1>0 DEF Job
<1>3. pc \in {"unknown_claim", "settle_claim"}
  OBVIOUS
<1> HIDE DEF j, pc
<1>4. /\ Moves(p) /\ lock' = lock /\ proc'[p].pc = pc /\ proc'[p].r = r
      /\ proc'[p].pid = proc[p].pid
  BY <1>1, <1>3, GotoMoves
<1>5. JobWrite(r, j) /\ job'[r] = j
  BY <1>0, <1>1, <1>2 DEF JobWrite, RowsAgree, Unsent, BillingInv, BillingTypeOK
<1>6. HoldsItsLocks(p)' /\ KnowsItsRow(p)' /\ proc'[p].pc \notin PreparingPCs
  BY <1>0, <1>2, <1>3, <1>4, <1>5, SettlingKnows
<1>7. OnePreparer'
  BY <1>4, <1>6 DEF OnePreparer, BillingInv, Moves
<1> QED
  BY <1>0, <1>2, <1>4, <1>5, <1>6, <1>7, JobStep

\* A ledger write of a reconciliation, whatever comes next.
LEMMA ReconcileWrite ==
    ASSUME BillingInv, NEW p \in Procs, proc[p].pc \in {"unknown_claim", "settle_claim", "settle_pin"},
           NEW pc \in {"publish", "settle_pin"}, Goto(p, pc), LegalStep,
           UNCHANGED <<job, snapshot, posts, faults, month>>,
           \A q \in Requests : claims'[q].actual # Null =>
              \/ claims[q].actual # Null
              \/ claims'[q].pid = job[q].pid /\ claims'[q].pid # Unassigned
    PROVE  BillingInv'
<1>0. /\ proc[p].r \in Requests /\ claims[proc[p].r].state # "NONE" /\ LedgerInv
      /\ lock = p /\ snapshot.status = "WRITER_IN_PROGRESS"
  BY ProcFields DEF BillingInv, BillingTypeOK, HoldsItsLocks, KnowsItsRow, LedgerInv
<1>1. claims'[proc[p].r].state # "NONE"
  BY <1>0, LegalStepKeepsLiabilities DEF Claimed, ClaimStays
<1>2. /\ Moves(p) /\ lock' = lock /\ proc'[p].pc = pc /\ proc'[p].r = proc[p].r
      /\ proc'[p].pid = proc[p].pid
  BY GotoMoves
<1>3. HoldsItsLocks(p)' /\ KnowsItsRow(p)' /\ proc'[p].pc \notin PreparingPCs
  <2>1. CASE pc = "publish"
    BY <1>0, <1>2, <2>1 DEF HoldsItsLocks, KnowsItsRow
  <2>2. CASE pc = "settle_pin"
    BY <1>0, <1>1, <1>2, <2>2, SettlingKnows
  <2> QED
    BY <2>1, <2>2
<1> QED
  BY <1>0, <1>2, <1>3, LedgerStep

\* A forgotten row keeps its actual, which is NULL.
LEMMA UnknownClaimKeeps ==
    ASSUME BillingInv, NEW p \in Procs, UnknownClaim(p)
    PROVE  BillingInv'
<1> DEFINE r == proc[p].r
           g == proc[p].gen
<1>0. /\ r \in Requests /\ g \in Nat /\ proc[p].pc = "unknown_claim" /\ LedgerInv
      /\ UNCHANGED <<job, snapshot, posts, faults, month>> /\ faults' \in 0..MaxFaults
  BY ProcFields DEF UnknownClaim, At, BillingInv, BillingTypeOK, LedgerInv
<1>1. CASE MayForget(r, g) /\ Forgotten(r, g) /\ Goto(p, "publish")
  <2>1. LegalStep
    BY <1>0, <1>1, ForgottenIsLegal
  <2>2. \A q \in Requests : claims'[q].actual = claims[q].actual
    BY <1>0, <1>1, ForgottenKeepsActuals
  <2> QED
    BY <1>0, <1>1, <2>1, <2>2, ReconcileWrite
<1>2. CASE End(p) /\ UNCHANGED claims
  BY <1>0, <1>2, EndStep
<1> QED
  BY <1>1, <1>2 DEF UnknownClaim

\* An actual is written only into a claim whose remote id is the executor's.
LEMMA SettleClaimKeeps ==
    ASSUME BillingInv, NEW p \in Procs, SettleClaim(p)
    PROVE  BillingInv'
<1> DEFINE r == proc[p].r
           g == proc[p].gen
           a == proc[p].bill
<1>0. /\ r \in Requests /\ g \in Nat /\ a \in Nat /\ proc[p].pc = "settle_claim" /\ LedgerInv
      /\ UNCHANGED <<job, snapshot, posts, faults, month>> /\ faults' \in 0..MaxFaults
      /\ job[r].pid = proc[p].pid /\ proc[p].pid # Unassigned /\ "FAL_READBACK_V2" \in Modes
  BY ProcFields DEF SettleClaim, At, BillingInv, BillingTypeOK, LedgerInv, KnowsItsRow, Modes
<1>1. CASE /\ claims[r].pid = proc[p].pid /\ MaySettle(r, "FAL_READBACK_V2", a)
           /\ Settled(r, a, g) /\ Goto(p, "settle_pin")
  <2>1. LegalStep
    BY <1>0, <1>1, SettledIsLegal
  <2>2. \A q \in Requests : q # r => claims'[q] = claims[q]
    BY <1>0, <1>1 DEF Settled, LedgerInv, LedgerTypeOK
  <2>3. claims'[r].pid = claims[r].pid
    BY <1>0, <1>1, <2>1, LegalStepKeepsLiabilities DEF Claimed, ClaimStays, MaySettle
  <2> QED
    BY <1>0, <1>1, <2>1, <2>2, <2>3, ReconcileWrite
<1>2. CASE End(p) /\ UNCHANGED claims
  BY <1>0, <1>2, EndStep
<1> QED
  BY <1>1, <1>2 DEF SettleClaim

\* Pinning the claim changes its generation alone.
LEMMA SettlePinKeeps ==
    ASSUME BillingInv, NEW p \in Procs, SettlePin(p)
    PROVE  BillingInv'
<1> DEFINE r == proc[p].r
           g == proc[p].gen
           c == [claims[r] EXCEPT !.gen = g]
<1>0. /\ r \in Requests /\ g \in Nat /\ proc[p].pc = "settle_pin" /\ LedgerInv
      /\ UNCHANGED <<job, snapshot, posts, faults, month>>
      /\ claims[r].state # "NONE" /\ claims[r] \in Claim
  BY ProcFields DEF SettlePin, At, BillingInv, BillingTypeOK, LedgerTypeOK, LedgerInv, KnowsItsRow
<1>1. claims' = [claims EXCEPT ![r] = c] /\ Goto(p, "publish")
  BY Zenon DEF SettlePin, Repinned
<1>2. c \in Claim /\ c.state = claims[r].state /\ c.episode = claims[r].episode
      /\ c.month = claims[r].month /\ c.cap = claims[r].cap /\ c.kind = claims[r].kind
      /\ c.actual = claims[r].actual /\ c.pid = claims[r].pid
  BY <1>0 DEF Claim
<1> HIDE DEF c
<1>3. UpdateIsLegal(r, c)
  BY <1>0, <1>2 DEF UpdateIsLegal, LedgerInv, ActualIsSettled
<1>4. LegalStep
  BY <1>0, <1>1, <1>2, <1>3 DEF LegalStep
<1>5. \A q \in Requests : claims'[q].actual = claims[q].actual
  BY <1>0, <1>1, <1>2 DEF LedgerInv, LedgerTypeOK
<1> QED
  BY <1>0, <1>1, <1>4, <1>5, ReconcileWrite

\* A crash loses the call and its locks.
LEMMA CrashKeeps ==
    ASSUME BillingInv, NEW p \in Procs, Crash(p)
    PROVE  BillingInv'
<1>1. faults' \in 0..MaxFaults /\ End(p) /\ UNCHANGED <<job, snapshot, posts, claims, month>>
  BY BillingConstants DEF Crash, Fault, ledgerVars, BillingInv, BillingTypeOK
<1> QED
  BY <1>1, EndStep

-----------------------------------------------------------------------------
(* The theorems *)

\* A step that changes nothing keeps the invariant.
LEMMA StutterKeeps ==
    ASSUME BillingInv, UNCHANGED vars
    PROVE  BillingInv'
<1>1. BillingTypeOK' /\ ActualIsSettled'
  BY DEF BillingInv, BillingTypeOK, LedgerTypeOK, ActualIsSettled, vars, billingVars, ledgerVars
<1>2. \A q \in Procs : HoldsItsLocks(q)' /\ KnowsItsRow(q)'
  BY DEF BillingInv, HoldsItsLocks, KnowsItsRow, Funded, vars, billingVars, ledgerVars
<1>3. OnePreparer' /\ CurrentIsCoherent' /\ CurrentHasRows'
  BY DEF BillingInv, OnePreparer, CurrentIsCoherent, CurrentHasRows, vars, billingVars, ledgerVars
<1>4. \A r \in Requests : RowsAgree(r)'
  BY DEF BillingInv, RowsAgree, Funded, vars, billingVars, ledgerVars
<1> QED
  BY <1>1, <1>2, <1>3, <1>4 DEF BillingInv

\* The empty stores satisfy the invariant.
LEMMA BillingInvInit == BillingInit => BillingInv
<1> SUFFICES ASSUME BillingInit PROVE BillingInv
  OBVIOUS
<1>1. AnyRequest \in Requests /\ NoJob \in Job /\ NoJob.status = "NONE" /\ NoJob.pid = Unassigned
  BY BillingConstants DEF AnyRequest, NoJob, Job, JobStatuses, Unassigned
<1>2. Outside(AnyRequest) \in ProcRecord /\ Outside(AnyRequest).pc = "idle"
  BY <1>1 DEF Outside, ProcRecord, Unassigned
<1>3. /\ snapshot \in [status : {"CURRENT", "WRITER_IN_PROGRESS"}, gen : Nat, r : Requests,
                       job : Job, claim : Claim]
      /\ snapshot.status = "WRITER_IN_PROGRESS"
  BY <1>1, NoClaimType DEF BillingInit, Marker
<1>4. BillingTypeOK /\ ActualIsSettled
  BY <1>1, <1>2, <1>3, NoClaimType, BillingConstants, LedgerConstants
     DEF BillingInit, BillingTypeOK, LedgerInit, LedgerTypeOK, ActualIsSettled, ProcRecord
<1>5. \A p \in Procs : HoldsItsLocks(p) /\ KnowsItsRow(p)
  BY <1>2 DEF BillingInit, HoldsItsLocks, KnowsItsRow
<1>6. OnePreparer
  BY <1>2 DEF BillingInit, OnePreparer
<1>7. \A r \in Requests : RowsAgree(r)
  BY <1>1, NoClaimType DEF BillingInit, LedgerInit, RowsAgree
<1>8. CurrentIsCoherent /\ CurrentHasRows
  BY <1>3 DEF CurrentIsCoherent, CurrentHasRows
<1> QED
  BY <1>4, <1>5, <1>6, <1>7, <1>8 DEF BillingInv

\* Every step of every call, and every crash, keeps the invariant.
LEMMA BillingInvStep ==
    ASSUME BillingInv, [BillingNext]_vars
    PROVE  BillingInv'
<1>1. CASE UNCHANGED vars
  BY <1>1, StutterKeeps
<1>2. ASSUME NEW p \in Procs, NEW r \in Requests, Admit(p, r) \/ Run(p, r) \/ Reconcile(p, r)
      PROVE  BillingInv'
  BY <1>2, AdmitKeeps, RunKeeps, ReconcileKeeps
<1>3. ASSUME NEW p \in Procs, Crash(p) PROVE BillingInv'
  BY <1>3, CrashKeeps
<1>4. ASSUME NEW p \in Procs, CallStep(p) PROVE BillingInv'
  BY <1>4, AdmitIntentKeeps, AdmitPreparedKeeps, AdmitReserveKeeps, PublishKeeps,
     RunInspectKeeps, RunDirectKeeps, RunSubmittingKeeps, RunPostKeeps, RunRecoverKeeps,
     BindMarkKeeps, BindJobKeeps, BindClaimKeeps, BindPublishKeeps, RunResolveKeeps,
     ReadbackKeeps, UnknownReadKeeps, ReconcileMarkKeeps, PinJobKeeps, UnknownClaimKeeps,
     SettleClaimKeeps, SettlePinKeeps, Zenon
     DEF CallStep
<1> QED
  BY <1>1, <1>2, <1>3, <1>4 DEF BillingNext

\* The invariant holds in every reachable state.
LEMMA BillingInvariance == BillingSpec => []BillingInv
<1>1. BillingInv /\ [BillingNext]_vars => BillingInv'
  BY BillingInvStep
<1> QED
  BY <1>1, BillingInvInit, PTL DEF BillingSpec

\* The stores stay well formed through every interleaving and crash.
THEOREM BillingTypes == BillingSpec => []BillingTypeOK
<1>1. BillingInv => BillingTypeOK
  BY DEF BillingInv
<1> QED
  BY <1>1, BillingInvariance, PTL

\* The provider receives at most one POST for a request, for any number of
\* processes, requests, crashes and lost answers (execution.py run).
THEOREM PostsAreSingle == BillingSpec => []SubmittedOnce
<1>1. BillingInv => SubmittedOnce
  BY DEF BillingInv, RowsAgree, SubmittedOnce
<1> QED
  BY <1>1, BillingInvariance, PTL

\* Every request the provider received is paid for by a claim of its cost, and a
\* bill is recorded only against the remote id that both databases carry.
THEOREM PostsAreFunded == BillingSpec => []EveryPostIsFunded
<1>1. ASSUME BillingInv PROVE EveryPostIsFunded
  <2>1. \A r \in Requests : RowsAgree(r) /\ posts[r] \in Nat
    BY <1>1 DEF BillingInv, BillingTypeOK
  <2> QED
    BY <2>1 DEF RowsAgree, Funded, Unsent, EveryPostIsFunded
<1> QED
  BY <1>1, BillingInvariance, PTL

\* A snapshot that says CURRENT is never torn between the two databases, whoever
\* died in the middle of a write (billing_snapshot.py _marker, _current).
THEOREM SnapshotsAreCoherent == BillingSpec => []CurrentIsCoherent
<1>1. BillingInv => CurrentIsCoherent
  BY DEF BillingInv
<1> QED
  BY <1>1, BillingInvariance, PTL
=============================================================================
