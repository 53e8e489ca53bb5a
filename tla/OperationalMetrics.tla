-------------------------- MODULE OperationalMetrics --------------------------
(***************************************************************************)
(* The operational metrics of the runner (OperationalMetricsLedger of      *)
(* src/hybrid/autonomous.py): telemetry projected from the claims of the   *)
(* standing ledger, kept in a database of its own and shown through an     *)
(* atomically replaced snapshot that the status command reads.             *)
(*                                                                         *)
(* A writer is one completion of a job: it marks the claim unknown, reads  *)
(* the claim, and reconciles the observation under the metrics lock.       *)
(* Between any two of these steps the claim may be settled by the billing  *)
(* reconciler or the process may die.  The event id is derived from the    *)
(* request's own ids, so a row is found by its request.  Tokens, latency,  *)
(* dimensions and the time of observation are left out: they come from the *)
(* receipt, which is frozen once it is complete.                           *)
(***************************************************************************)
EXTENDS StandingBudget

CONSTANTS
    Writers,    \* completions of jobs that record metrics
    Unlocked    \* nobody holds the metrics lock

ASSUME MetricsConstants == Unlocked \notin Writers /\ Requests # {}

VARIABLES
    seen,       \* the table observations: seen[r] is the payload recorded for r
    conflicts,  \* the table observation_conflicts
    snap,       \* the snapshot file
    writer,     \* the writers
    mlock       \* the metrics lock

metricsVars == <<seen, conflicts, snap, writer, mlock>>
allVars == <<ledgerVars, metricsVars>>

\* What identifies a billing event besides its request: how far the amount is
\* authenticated, and the amount (money if it is, pending exposure if not).
Payload == [billing : {"UNKNOWN", "AUTHENTICATED"}, usd : Nat]
NoPayload == [billing |-> "NONE", usd |-> 0]
Recorded == {r \in Requests : seen[r] # NoPayload}

\* _report_from_rows()
Amount(rows, r) == rows[r].usd
Report(rows, clashes) ==
    LET of(billing) == {r \in Requests : rows[r].billing = billing}
        usd(R) == MapThenSumSet(LAMBDA r : Amount(rows, r), R)
    IN  [requests |-> Cardinality({r \in Requests : rows[r] # NoPayload}),
         unknown |-> Cardinality(of("UNKNOWN")),
         money |-> usd(of("AUTHENTICATED")),
         exposure |-> usd(of("UNKNOWN")),
         conflicts |-> Cardinality(clashes)]

NoRows == [r \in Requests |-> NoPayload]
InProgress == [status |-> "WRITER_IN_PROGRESS", report |-> Report(NoRows, {})]
Current == [status |-> "CURRENT", report |-> Report(seen, conflicts)]

\* read_snapshot(): the status command shows the report of a CURRENT snapshot,
\* and MISSING or STALE otherwise; it never opens the database.
Readable == snap.status = "CURRENT"

MetricsPCs == {"idle", "project", "wait", "open", "commit", "publish"}
NoWriter == [pc |-> "idle", req |-> CHOOSE r \in Requests : TRUE, payload |-> NoPayload]

MetricsInit ==
    /\ LedgerInit
    /\ seen = NoRows /\ conflicts = {}
    /\ snap = [status |-> "MISSING", report |-> Report(NoRows, {})]
    /\ writer = [w \in Writers |-> NoWriter]
    /\ mlock = Unlocked

-----------------------------------------------------------------------------
(* Writers *)

Reach(w, l) == writer' = [writer EXCEPT ![w].pc = l]

\* The runner is built: its constructor opens the database and publishes.
OpenLedger(w) ==
    /\ writer[w].pc = "idle"
    /\ Reach(w, "open")
    /\ UNCHANGED <<ledgerVars, seen, conflicts, snap, mlock>>

\* A job of the runner has completed, under the claim the runner reserved and
\* bound for it: mark_unknown(), then the metrics.
Complete(w, r) ==
    /\ writer[w].pc = "idle" /\ snap.status # "MISSING"
    /\ claims[r].mode = "FAL_READBACK_V2" /\ claims[r].pid # Unassigned
    /\ MayForget(r, 0) /\ Forgotten(r, 0)
    /\ writer' = [writer EXCEPT ![w] = [@ EXCEPT !.pc = "project", !.req = r]]
    /\ UNCHANGED <<month, seen, conflicts, snap, mlock>>

\* reconcile_durable_receipt(): money is the actual of a settled claim and
\* nothing else; what is not settled is an exposure of the reserved amount.
MoneyOnceReserved(c) == [billing |-> "AUTHENTICATED", usd |-> c.cap]
Projection(c) ==
    IF c.state = "SETTLED" /\ c.actual # Null
    THEN [billing |-> "AUTHENTICATED", usd |-> c.actual]
    ELSE [billing |-> "UNKNOWN", usd |-> c.cap]

\* _record_receipt_metrics() reads the claim again.
Project(w) ==
    /\ writer[w].pc = "project"
    /\ writer' = [writer EXCEPT ![w] =
                    [@ EXCEPT !.pc = "wait", !.payload = Projection(claims[writer[w].req])]]
    /\ UNCHANGED <<ledgerVars, seen, conflicts, snap, mlock>>

\* The writer's lock, and the mark that makes readers distrust the snapshot.
MarkNothing == snap
MarkInProgress == InProgress

Enter(w) ==
    /\ writer[w].pc \in {"wait", "open"} /\ mlock = Unlocked
    /\ mlock' = w
    /\ snap' = MarkInProgress
    /\ Reach(w, IF writer[w].pc = "open" THEN "publish" ELSE "commit")
    /\ UNCHANGED <<ledgerVars, seen, conflicts>>

\* reconcile(): a new request is inserted, a replay of the same payload changes
\* nothing, a different payload is kept as evidence beside the row.
Upserts(r, payload) == [seen EXCEPT ![r] = payload]
Inserts(r, payload) == [seen EXCEPT ![r] = IF @ = NoPayload THEN payload ELSE @]

Commit(w) ==
    LET r == writer[w].req  payload == writer[w].payload
    IN  /\ writer[w].pc = "commit"
        /\ seen' = Inserts(r, payload)
        /\ conflicts' = IF seen[r] \in {NoPayload, payload} THEN conflicts
                        ELSE conflicts \cup {<<r, seen[r], payload>>}
        /\ Reach(w, "publish")
        /\ UNCHANGED <<ledgerVars, snap, mlock>>

\* _write_snapshot("CURRENT"), and the lock is released.
PublishMetrics(w) ==
    /\ writer[w].pc = "publish"
    /\ snap' = Current
    /\ mlock' = Unlocked
    /\ writer' = [writer EXCEPT ![w] = NoWriter]
    /\ UNCHANGED <<ledgerVars, seen, conflicts>>

\* The process dies; the operating system releases its lock.
WriterDies(w) ==
    /\ writer[w].pc # "idle"
    /\ writer' = [writer EXCEPT ![w] = NoWriter]
    /\ mlock' = IF mlock = w THEN Unlocked ELSE mlock
    /\ UNCHANGED <<ledgerVars, seen, conflicts, snap>>

MetricsNext ==
    \/ LedgerNext /\ UNCHANGED metricsVars
    \/ \E w \in Writers :
          \/ OpenLedger(w)
          \/ \E r \in Requests : Complete(w, r)
          \/ Project(w) \/ Enter(w) \/ Commit(w) \/ PublishMetrics(w) \/ WriterDies(w)

MetricsSpec == MetricsInit /\ [][MetricsNext]_allVars

-----------------------------------------------------------------------------
(* Properties *)

\* Whatever the status command is shown as current is the projection of the
\* database as it is, wherever a writer died: rows change only behind the mark
\* that _write_snapshot puts before the transaction.
ShownIsCommitted == Readable => snap.report = Report(seen, conflicts)

\* Telemetry never invents money: an authenticated amount is the settled actual
\* of its claim and an exposure is what was reserved, although the claim may be
\* settled between the completion, the projection and the commit.  A clash is
\* kept only where a settlement overtook an exposure.
MetricsFollowTheLedger ==
    /\ \A r \in Recorded :
          /\ seen[r].billing = "AUTHENTICATED" => seen[r].usd = claims[r].actual
          /\ seen[r].billing = "UNKNOWN" => seen[r].usd = claims[r].cap
    /\ \A k \in conflicts : claims[k[1]].state = "SETTLED"

\* Evidence is append-only: replays and late settlements never rewrite a row or
\* remove a conflict (reconcile).
EvidenceIsAppendOnly ==
    [][ /\ \A r \in Recorded : seen'[r] = seen[r]
        /\ conflicts \subseteq conflicts' ]_allVars
=============================================================================
