---------------------------- MODULE StandingBudget ----------------------------
(***************************************************************************)
(* The studio-wide reservation ledger (src/hybrid/standing_budget.py).     *)
(* Every method is one BEGIN IMMEDIATE transaction on the table of claims, *)
(* so every method is one action; a method that raises changes nothing.    *)
(* Only the month of a reservation is read before its transaction, which   *)
(* may wait for another writer: it is any month up to the present one.     *)
(* The operators take the coordinator generation the caller passes (0 for  *)
(* none), so that BillingSnapshot composes them with the executor's steps. *)
(***************************************************************************)
EXTENDS Integers, FiniteSetsExt

CONSTANTS
    Requests,         \* request ids
    Episodes,         \* episode ids
    Amounts,          \* micro-USD amounts a caller quotes or settles
    EpisodeLimit, MonthLimit, ExperimentLimit,
    MaxMonth          \* bound: the last month of the clock

ASSUME LedgerConstants ==
    /\ Amounts \subseteq Nat /\ Episodes # {}
    /\ EpisodeLimit \in Nat /\ MonthLimit \in Nat /\ ExperimentLimit \in Nat
    /\ MaxMonth \in Nat

VARIABLES
    claims,     \* table claims; state "NONE" when there is no row
    month       \* the UTC month of the ledger clock

ledgerVars == <<claims, month>>

Null == -1            \* SQL NULL in column actual
Unassigned == 0       \* provider_request_id = 'UNASSIGNED'

Kinds == {"standard", "experiment"}
Modes == {"LEGACY_TEST_UNBOUND", "FAL_READBACK_V2"}

Claim == [state : {"NONE", "RESERVED", "UNKNOWN", "SETTLED"}, episode : Episodes,
          month : Nat, cap : Nat, kind : Kinds, actual : Nat \cup {Null},
          mode : Modes, pid : Nat, gen : Nat]

NoClaim == [state |-> "NONE", episode |-> CHOOSE e \in Episodes : TRUE, month |-> 0,
            cap |-> 0, kind |-> "standard", actual |-> Null,
            mode |-> "LEGACY_TEST_UNBOUND", pid |-> Unassigned, gen |-> 0]

LedgerTypeOK ==
    /\ claims \in [Requests -> Claim]
    /\ month \in 0..MaxMonth

LedgerInit ==
    /\ claims = [r \in Requests |-> NoClaim]
    /\ month = 0

-----------------------------------------------------------------------------
(* Exposure *)

Claimed == {r \in Requests : claims[r].state # "NONE"}

\* What a row counts for: its actual once reconciled, its cap until then.
Exposure(r) == IF claims[r].actual # Null THEN claims[r].actual ELSE claims[r].cap
Total(R) == MapThenSumSet(Exposure, R)

\* An actual above its cap freezes admission.
Frozen == \E r \in Claimed : claims[r].actual > claims[r].cap

\* Mutant: an open claim of an earlier month is forgotten.
BookedIn(r, m) == claims[r].month = m

\* The rows a reservation in month m is measured against.
CountsIn(r, m) == claims[r].month = m \/ claims[r].actual = Null

OfEpisode(e) == {r \in Claimed : claims[r].episode = e}
OfMonth(m) == {r \in Claimed : CountsIn(r, m)}
Booked(m) == {r \in Claimed : claims[r].month = m}
Unbilled == {r \in Claimed : claims[r].actual = Null}
Experiments(R) == {r \in R : claims[r].kind = "experiment"}

-----------------------------------------------------------------------------
(* Methods *)

\* reserve(): a repeated call with the same inputs returns the row; the state
\* and the generation of the row are not part of its identity.
SameClaim(r, e, cap, kind, mode, pid) ==
    /\ claims[r].state # "NONE"
    /\ claims[r].episode = e /\ claims[r].cap = cap /\ claims[r].kind = kind
    /\ claims[r].mode = mode /\ claims[r].pid = pid

\* m is the month the caller read.
Admits(r, e, m, cap, kind) ==
    /\ claims[r].state = "NONE"
    /\ ~Frozen
    /\ Total(OfEpisode(e)) + cap <= EpisodeLimit
    /\ Total(OfMonth(m)) + cap <= MonthLimit
    /\ kind = "experiment" => Total(Experiments(OfMonth(m))) + cap <= ExperimentLimit

Inserted(r, e, m, cap, kind, mode, pid, gen) ==
    claims' = [claims EXCEPT ![r] =
        [state |-> "RESERVED", episode |-> e, month |-> m, cap |-> cap, kind |-> kind,
         actual |-> Null, mode |-> mode, pid |-> pid, gen |-> gen]]

\* A pinned row takes only calls that carry a coordinator generation.
MayWrite(r, gen) == claims[r].state # "NONE" /\ (claims[r].gen # 0 => gen # 0)

Pinned(c, gen) == IF gen = 0 THEN c ELSE [c EXCEPT !.gen = gen]

\* bind_provider_request_id(): the remote id is written once.
MayBind(r, pid, gen) ==
    /\ MayWrite(r, gen)
    /\ claims[r].mode = "FAL_READBACK_V2"
    /\ claims[r].pid \in {pid, Unassigned}

Bound(r, pid, gen) ==
    claims' = IF claims[r].pid = pid THEN claims
              ELSE [claims EXCEPT ![r] = Pinned([@ EXCEPT !.pid = pid], gen)]

\* Mutant: mark_unknown does not look at a settled actual.
UnknownAnytime(r, gen) == MayWrite(r, gen)

\* mark_unknown(): the reservation stays, as a liability of unknown size.
MayForget(r, gen) == MayWrite(r, gen) /\ claims[r].actual = Null

Forgotten(r, gen) ==
    claims' = [claims EXCEPT ![r] = Pinned([@ EXCEPT !.state = "UNKNOWN"], gen)]

\* Mutant: a second, different actual replaces the first.
SettleAgain(r, mode, a) == claims[r].state # "NONE" /\ claims[r].mode = mode

\* settle() of a legacy row, _settle_verified_receipt() of a FAL row: the same
\* actual again changes nothing, another one is refused.
MaySettle(r, mode, a) ==
    /\ claims[r].state # "NONE"
    /\ claims[r].mode = mode
    /\ claims[r].actual \in {a, Null}

Settled(r, a, gen) ==
    claims' = IF claims[r].actual = a THEN claims
              ELSE [claims EXCEPT ![r] = Pinned([@ EXCEPT !.state = "SETTLED", !.actual = a], gen)]

\* _set_billing_snapshot_generation()
Repinned(r, gen) == claims' = [claims EXCEPT ![r].gen = gen]

-----------------------------------------------------------------------------
(* The ledger alone, with callers that use no coordinator *)

Reserve(r, e, m, cap, kind, mode, pid) ==
    /\ mode = "LEGACY_TEST_UNBOUND" => pid = Unassigned
    /\ Admits(r, e, m, cap, kind)
    /\ Inserted(r, e, m, cap, kind, mode, pid, 0)
    /\ UNCHANGED month

BindProvider(r, pid) == MayBind(r, pid, 0) /\ Bound(r, pid, 0) /\ UNCHANGED month

MarkUnknown(r) == MayForget(r, 0) /\ Forgotten(r, 0) /\ UNCHANGED month

Settle(r, a) ==
    /\ MaySettle(r, "LEGACY_TEST_UNBOUND", a)
    /\ Settled(r, a, 0)
    /\ UNCHANGED month

\* The receipt names the remote id of the row.
SettleVerifiedReceipt(r, pid, a) ==
    /\ MayWrite(r, 0)
    /\ claims[r].pid = pid
    /\ MaySettle(r, "FAL_READBACK_V2", a)
    /\ Settled(r, a, 0)
    /\ UNCHANGED month

\* External: the calendar.
NextMonth == month < MaxMonth /\ month' = month + 1 /\ UNCHANGED claims

LedgerNext ==
    \/ \E r \in Requests :
          \/ \E e \in Episodes, m \in 0..month, cap \in Amounts, kind \in Kinds, mode \in Modes, pid \in 0..1 :
                Reserve(r, e, m, cap, kind, mode, pid)
          \/ BindProvider(r, 1)
          \/ MarkUnknown(r)
          \/ \E a \in Amounts : Settle(r, a) \/ SettleVerifiedReceipt(r, 1, a)
    \/ NextMonth

LedgerSpec == LedgerInit /\ [][LedgerNext]_ledgerVars

-----------------------------------------------------------------------------
(* Properties *)

\* Unless a provider billed more than it was allowed, no ceiling is exceeded:
\* not by the lifetime exposure of an episode, not by what any month booked, and
\* not by all the liabilities together that nobody has reconciled, whatever month
\* they are of and however old the month was that a reservation was measured
\* against (reserve(), exposure()).
LedgerWithinLimits ==
    ~Frozen =>
      /\ \A e \in Episodes : Total(OfEpisode(e)) <= EpisodeLimit
      /\ \A m \in 0..month : /\ Total(Booked(m)) <= MonthLimit
                             /\ Total(Experiments(Booked(m))) <= ExperimentLimit
      /\ Total(Unbilled) <= MonthLimit
      /\ Total(Experiments(Unbilled)) <= ExperimentLimit

\* The row of r is not reinterpreted: what was booked stays as booked, and so do
\* a settled actual with its state and a remote id.
ClaimStays(r) ==
    /\ claims'[r].state # "NONE"
    /\ claims'[r].episode = claims[r].episode
    /\ claims'[r].month = claims[r].month
    /\ claims'[r].cap = claims[r].cap
    /\ claims'[r].kind = claims[r].kind
    /\ claims[r].actual # Null => claims'[r].actual = claims[r].actual /\ claims'[r].state = "SETTLED"
    /\ claims[r].pid # Unassigned => claims'[r].pid = claims[r].pid

\* No method of the ledger reinterprets a claim, and once an overrun has frozen
\* the ledger it stays frozen and no claim is added (reserve, bind, mark_unknown,
\* settle).
LiabilityIsFinal ==
    [][ /\ \A r \in Claimed : ClaimStays(r)
        /\ Frozen => Frozen' /\ Claimed' = Claimed ]_ledgerVars
===============================================================================
